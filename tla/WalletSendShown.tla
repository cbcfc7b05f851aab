-------------------------- MODULE WalletSendShown ---------------------------
(***************************************************************************)
(* What the durable send tells its callers, for any number of sends, signs *)
(* and resolvers: the attempts to record a verdict suffice, and with one   *)
(* process per record the phase that a client shows is true.               *)
(***************************************************************************)
EXTENDS WalletSendProofs

-----------------------------------------------------------------------------
(* The attempts of persist_send_resolution *)

\* What a send records of its submission, if it records it.
Outcome == {"Submitted", "SubmissionUnknown"}

\* A pending record that a call has seen changes at most once while it is
\* pending: the call that submits the message adds the outcome.
Rewritten(k) ==
  /\ PendingRecord(seen[k]) /\ PendingRecord(journal)
  /\ seen[k].op = journal.op /\ seen[k] # journal
  => seen[k].stage = "ReadyToSubmit" /\ journal.stage \in Outcome

\* A second attempt builds on such a changed record.
Attempts(k) ==
  /\ pc[k] \in {"submit", "reply", "terminal"} => seen[k].stage = "ReadyToSubmit"
  /\ tries[k] # 1 => pc[k] \in {"persist", "conclude", "journal_loaded"}
  /\ tries[k] # 1 /\ pc[k] = "persist" => seen[k].stage \in Outcome
  /\ tries[k] < 3

RetryInv == \A k \in Calls : Rewritten(k) /\ Attempts(k)

\* The journal changes from one pending record to another of the same message
\* only when the submitting call records the outcome.
LEMMA RewrittenKept ==
  ASSUME SendInv, RetryInv, Effects, NEW k \in Calls
  PROVE  Rewritten(k)'
<1>0. Slot /\ Control
  BY Zenon DEF SendInv
<1>1. SUFFICES ASSUME PendingRecord(seen'[k]), PendingRecord(journal'),
                      seen'[k].op = journal'.op, seen'[k] # journal'
               PROVE  seen'[k].stage = "ReadyToSubmit" /\ journal'.stage \in Outcome
  BY Zenon DEF Rewritten, PendingRecord
<1>2. seen'[k] = seen[k]
  <2>1. seen'[k] # NoRecord
    BY <1>1 DEF PendingRecord, NoRecord
  <2> QED
    BY <1>1, <2>1, Zenon DEF Effects
<1>3. CASE UNCHANGED journal
  BY <1>1, <1>2, <1>3, Zenon DEF RetryInv, Rewritten
<1>4. ASSUME NEW i \in Calls, Writes(i)
      PROVE  seen'[k].stage = "ReadyToSubmit" /\ journal'.stage \in Outcome
  <2>1. pc[i] # "persist"
    BY <1>1, <1>4, Zenon
    DEF Writes, PendingRecord, permits_replacement, SettledStage, Evidence
  <2>2. pc[i] # "commit"
    <3>1. seen[k].version > 0 /\ Recorded(seen[k])
      BY <1>0, <1>1, <1>2, Zenon DEF PendingRecord, Slot
    <3>2. pc[seen[k].op] \in RecordedPc
      BY <3>1 DEF Recorded, NoRecord
    <3> QED
      BY <1>1, <1>2, <1>4, <3>2, Zenon DEF Writes, RecordedPc
  <2>3. /\ pc[i] = "terminal" /\ i \in Ops /\ PendingRecord(journal)
        /\ seen[i] = journal /\ journal.op = i /\ journal'.op = i
        /\ journal'.stage = stage[i]
    BY <1>4, <2>1, <2>2, Zenon DEF Writes
  <2>4. journal.stage = "ReadyToSubmit"
    BY <2>3, Zenon DEF RetryInv, Attempts
  <2>5. stage[i] \in Outcome
    <3>1. stage[i] \in {"Submitted", "SubmissionUnknown", "Failed"}
      BY <1>0, <2>3, Zenon DEF Control, ControlOf, StageOf
    <3> QED
      BY <1>1, <2>3, <3>1, Zenon
      DEF PendingRecord, permits_replacement, SettledStage, Outcome
  <2>6. seen[k] = journal
    BY <1>1, <1>2, <2>3, <2>4, Zenon DEF RetryInv, Rewritten, Outcome
  <2> QED
    BY <1>2, <2>3, <2>4, <2>5, <2>6, Zenon
<1> QED
  BY <1>3, <1>4, Zenon DEF Effects

\* What a step of the call itself does to its attempts.
LEMMA AttemptsStep ==
  ASSUME SendInv, RetryInv, NEW k \in Calls, CallStep(k)
  PROVE  Attempts(k)'
<1>0. CallTypes /\ Control /\ Attempts(k) /\ tries[k] \in 1..3
  BY Zenon DEF SendInv, TypeOK, CallTypes, RetryInv
<1>1. ASSUME pc'[k] \notin {"submit", "reply", "terminal", "persist"}, tries'[k] = 1
      PROVE  Attempts(k)'
  BY <1>1 DEF Attempts
<1>2. ASSUME Return(k)
      PROVE  Attempts(k)'
  <2>1. pc'[k] \in {"idle", "done"} /\ tries'[k] = 1
    BY <1>0, <1>2, Zenon DEF Return, Goto, CallTypes
  <2> QED
    BY <1>1, <2>1, Zenon
<1>3. ASSUME pc[k] \notin {"persist", "conclude", "journal_loaded"}, tries' = tries,
             pc'[k] \notin {"submit", "reply", "terminal"}
      PROVE  Attempts(k)'
  <2>1. tries'[k] = 1
    BY <1>0, <1>3, Zenon DEF Attempts
  <2> QED
    BY <1>3, <2>1 DEF Attempts
<1>4. CASE k \in Ops /\ StartSend(k)
  BY <1>0, <1>3, <1>4, Zenon DEF StartSend, Goto, CallTypes, locals
<1>5. CASE k \in Resolvers /\ (StartResolve(k) \/ NothingPending(k))
  BY <1>0, <1>2, <1>3, <1>5, Zenon
  DEF StartResolve, NothingPending, Goto, CallTypes, locals
<1>6. CASE k \in Ops /\ SendStep(k)
  <2>1. CASE JournalLoaded(k)
    BY <1>0, <1>1, <2>1, Zenon DEF JournalLoaded, Goto, CallTypes
  <2>2. CASE FetchSeqno(k) \/ ReadSecret(k) \/ begin_send_commit(k)
    BY <1>0, <1>3, <2>2, Zenon
    DEF FetchSeqno, ReadSecret, begin_send_commit, Goto, CallTypes, locals
  <2>3. CASE PreparedApplied(k)
    <3>1. /\ pc'[k] = IF k \in Signs THEN "handoff" ELSE "submit"
          /\ seen'[k].stage = PreparedStage(k)
          /\ pc[k] = "commit" /\ tries' = tries
      BY <1>0, <2>3, Zenon DEF PreparedApplied, CompareExchange, Goto, CallTypes
    <3>2. stage[k] = "PersistingPrepared"
      BY <1>0, <1>6, <3>1, Zenon DEF Control, ControlOf, StageOf
    <3>3. k \notin Signs => PreparedStage(k) = "ReadyToSubmit"
      BY <3>2, Zenon DEF PreparedStage, durable_stage
    <3>4. tries'[k] = 1
      BY <1>0, <3>1, Zenon DEF Attempts
    <3> QED
      BY <3>1, <3>3, <3>4 DEF Attempts
  <2>4. CASE Submit(k) \/ ReceiveReply(k)
    <3>1. /\ pc[k] \in {"submit", "reply"} /\ pc'[k] \in {"reply", "terminal"}
          /\ seen' = seen /\ tries' = tries
      BY <1>0, <2>4, Zenon DEF Submit, ReceiveReply, Goto, CallTypes, locals
    <3> QED
      BY <1>0, <3>1 DEF Attempts
  <2>5. CASE \/ PreparedConflict(k) \/ PreparedHostError(k)
             \/ TerminalApplied(k) \/ TerminalNotRecorded(k) \/ HandOff(k)
    BY <1>2, <2>5, Zenon
    DEF PreparedConflict, PreparedHostError, TerminalApplied,
       TerminalNotRecorded, HandOff
  <2> QED
    BY <1>6, <2>1, <2>2, <2>3, <2>4, <2>5, Zenon DEF SendStep
<1>7. CASE ResolutionStep(k)
  <2>1. CASE \/ LoadJournal(k) \/ ReadAccount(k) \/ LookupExecuted(k)
             \/ LookupPending(k) \/ LookupWalletSeqno(k) \/ RecheckExecuted(k)
    <3>1. /\ pc[k] \in {"load", "account"} \cup EvidencePc /\ tries' = tries
          /\ pc'[k] \in {"account", "journal_loaded", "persist", "conclude"}
                          \cup EvidencePc
      BY <1>0, <2>1, Zenon
      DEF LoadJournal, ReadAccount, LookupExecuted, LookupPending,
          LookupWalletSeqno, RecheckExecuted, Decide, Goto, CallTypes, EvidencePc
    <3> QED
      BY <1>3, <3>1, Zenon DEF EvidencePc
  <2>2. CASE ResolutionApplied(k) \/ AdoptResolution(k) \/ ConcludeForSend(k)
    <3>1. pc'[k] \in {"conclude", "journal_loaded"} /\ tries' = tries
      BY <1>0, <2>2, Zenon
      DEF ResolutionApplied, AdoptResolution, ConcludeForSend, Goto, CallTypes, locals
    <3> QED
      BY <1>0, <3>1 DEF Attempts
  <2>3. CASE RetryResolution(k)
    <3>1. /\ pc[k] = "persist" /\ pc' = pc
          /\ seen'[k] = journal /\ tries'[k] = tries[k] + 1
          /\ PendingRecord(journal) /\ journal.op = prior[k]
          /\ journal.version # seen[k].version
      BY <1>0, <2>3, Zenon DEF RetryResolution, Conflict, SamePending, CallTypes
    <3>2. seen[k].op = prior[k] /\ PendingRecord(seen[k])
      BY <3>1, Zenon DEF SendInv, Resolving, ResolvingPc
    <3>3. seen[k].stage = "ReadyToSubmit" /\ journal.stage \in Outcome
      BY <3>1, <3>2, Zenon DEF RetryInv, Rewritten
    <3>4. tries[k] = 1
      BY <1>0, <3>1, <3>3, Zenon DEF Attempts, Outcome
    <3> QED
      BY <3>1, <3>3, <3>4 DEF Attempts
  <2>4. CASE \/ AbandonResolution(k) \/ ResolutionHostError(k) \/ ConcludeCall(k)
             \/ HostFailure(k) \/ LateResult(k)
    BY <1>2, <2>4, Zenon
    DEF AbandonResolution, ResolutionHostError, ConcludeCall, HostFailure, LateResult
  <2> QED
    BY <1>7, <2>1, <2>2, <2>3, <2>4, Zenon DEF ResolutionStep
<1> QED
  BY <1>4, <1>5, <1>6, <1>7, Zenon DEF CallStep, StartStep

\* Every call keeps its attempts, whoever takes the step.
LEMMA AttemptsKept ==
  ASSUME SendInv, RetryInv, [Next]_vars
  PROVE  \A k \in Calls : Attempts(k)'
<1>0. TypeOK /\ CallTypes
  BY Zenon DEF SendInv, TypeOK
<1>1. ASSUME NEW j \in Calls, Still(j)
      PROVE  Attempts(j)'
  BY <1>1, Zenon DEF Still, RetryInv, Attempts
<1>2. ASSUME NEW k \in Calls, CallStep(k), NEW j \in Calls
      PROVE  Attempts(j)'
  <2>1. CASE j = k
    BY <1>2, <2>1, AttemptsStep, Zenon
  <2>2. CASE j # k
    BY <1>0, <1>1, <1>2, <2>2, FrameLemma, Zenon DEF Frame
  <2> QED
    BY <2>1, <2>2, Zenon
<1>3. ASSUME NEW c \in Clients, ClientStep(c), NEW j \in Calls
      PROVE  Attempts(j)'
  <2>1. CASE Still(j)
    BY <1>1, <2>1, Zenon
  <2>2. CASE ~Still(j)
    <3>1. Crash(c) /\ Home[j] = c
      BY <1>0, <1>3, <2>2, Zenon
      DEF ClientStep, cancel_send, BeginShutdown, FinishShutdown, Reopen, Crash,
          locals, Still, CallTypes
    <3>2. pc'[j] \in {"idle", "done"} /\ tries'[j] = 1
      BY <1>0, <3>1, Zenon DEF Crash, CallTypes
    <3> QED
      BY <3>2 DEF Attempts
  <2> QED
    BY <2>1, <2>2, Zenon
<1>4. ASSUME ChainStep \/ UNCHANGED vars, NEW j \in Calls
      PROVE  Attempts(j)'
  <2>1. UNCHANGED <<pc, locals>>
    BY <1>4, Zenon DEF ChainStep, Execute, ExecuteForeign, Index, Tick, vars
  <2> QED
    BY <1>1, <2>1, Zenon DEF Still, locals
<1> QED
  BY <1>2, <1>3, <1>4, Zenon DEF Next, CallStep, StartStep, Calls

\* The loop of persist_send_resolution never runs out of attempts: while a
\* record is pending it changes at most once, from ReadyToSubmit to the outcome
\* of the submission, so the second attempt meets no other change.
THEOREM EnoughAttempts == Spec => []RetriesSuffice
<1>1. Init => RetryInv
  <2> SUFFICES ASSUME Init, NEW k \in Calls PROVE Rewritten(k) /\ Attempts(k)
    BY Zenon DEF RetryInv
  <2> QED
    BY DEF Init, Rewritten, Attempts, PendingRecord, NoRecord
<1>2. SendInv /\ RetryInv /\ [Next]_vars => RetryInv'
  <2> SUFFICES ASSUME SendInv, RetryInv, [Next]_vars PROVE RetryInv'
    OBVIOUS
  <2>1. Effects
    BY StepEffects, Zenon DEF SendInv
  <2> QED
    BY <2>1, RewrittenKept, AttemptsKept, Zenon DEF RetryInv
<1>3. RetryInv => RetriesSuffice
  BY Zenon DEF RetryInv, Attempts, RetriesSuffice
<1> QED
  BY <1>1, <1>2, <1>3, Invariance, PTL DEF Spec

-----------------------------------------------------------------------------
(* What one process shows of its sends *)

\* One process has the wallet's record open.
OneProcess == \A c, d \in Clients : c = d

\* The slots of a client exclude each other, and the send slot is held by a
\* call that is still running.
SlotHeld(c) ==
  /\ active_send[c] = Nobody \/ active_resolution[c] = Nobody
  /\ active_send[c] # Nobody => pc[active_send[c]] \notin {"idle", "done"}

\* The phase that is shown for an operation, in the form the steps preserve.
Shown(k, p) ==
  /\ k \in Ops /\ pc[k] # "idle"
  /\ Established(k, p)
  /\ p \in Evidence => pc[k] \in RecordedPc
  /\ p \in {"Failed", "Cancelled"} => Withheld(k)

ShownIsTrue ==
  \A c \in Clients : snap[c].op # Nobody => Shown(snap[c].op, snap[c].phase)

\* A running send shows itself, except where it has just shown the message it
\* takes the slot over from.
ShownIsOwn(k) ==
  k \in Ops /\ IsCurrent(k) /\ pc[k] # "journal_loaded" => snap[Home[k]].op = k

\* While a call holds its slot, the record that it inspects changes only by the
\* verdict of a call that was cancelled.
Undisturbed(k) ==
  IsCurrent(k) /\ pc[k] \in {"account"} \cup ResolvingPc =>
    \/ journal = seen[k]
    \/ journal.op = seen[k].op /\ journal.stage \in Evidence

\* What a call is about to show of the record it has inspected is true.
Conclusion(k) ==
  pc[k] = "conclude" =>
    /\ prior[k] = seen[k].op
    /\ Established(prior[k], verdict[k])
    /\ verdict[k] = "StillPending" => PendingRecord(seen[k])

ShownInv ==
  /\ \A c \in Clients : SlotHeld(c)
  /\ ShownIsTrue
  /\ \A k \in Calls : ShownIsOwn(k) /\ Undisturbed(k) /\ Conclusion(k)

\* What a step of a call does to the slots of its client.
SlotMove(k) ==
  \/ /\ UNCHANGED <<active_send, active_resolution>>
     /\ IsCurrent(k) => pc'[k] \notin {"idle", "done"}
  \/ /\ SlotsFree(Home[k]) /\ pc[k] = "idle" /\ pc'[k] = "load"
     /\ \/ /\ k \in Ops /\ UNCHANGED active_resolution
           /\ active_send' = [active_send EXCEPT ![Home[k]] = k]
        \/ /\ k \in Resolvers /\ UNCHANGED active_send
           /\ active_resolution' = [active_resolution EXCEPT ![Home[k]] = k]
  \/ /\ IsCurrent(k) /\ pc'[k] \in {"idle", "done"}
     /\ \/ /\ k \in Ops /\ UNCHANGED active_resolution
           /\ active_send' = [active_send EXCEPT ![Home[k]] = Nobody]
        \/ /\ k \in Resolvers /\ UNCHANGED active_send
           /\ active_resolution' = [active_resolution EXCEPT ![Home[k]] = Nobody]

\* A call takes a free slot, and gives it back when it returns.
LEMMA SlotMoves ==
  ASSUME SendInv, NEW k \in Calls, CallStep(k)
  PROVE  SlotMove(k)
<1>0. CallTypes /\ (k \in Ops <=> k \notin Resolvers)
  BY CallsAssumption, Zenon DEF SendInv, TypeOK, Calls
<1>1. ASSUME Return(k)
      PROVE  pc'[k] \in {"idle", "done"}
  BY <1>0, <1>1, Zenon DEF Return, Goto, CallTypes
<1>2. ASSUME FailCall(k), Return(k)
      PROVE  SlotMove(k)
  BY <1>0, <1>1, <1>2, Zenon
  DEF SlotMove, FailCall, ReleaseSend, EndSend, EndResolution, IsCurrent, clientVars
<1>3. CASE k \in Ops /\ StartSend(k)
  BY <1>0, <1>3, Zenon DEF SlotMove, StartSend, Goto, CallTypes
<1>4. CASE k \in Resolvers /\ (StartResolve(k) \/ NothingPending(k))
  BY <1>0, <1>1, <1>4, Zenon
  DEF SlotMove, StartResolve, NothingPending, EndResolution, Goto, CallTypes
<1>5. CASE k \in Ops /\ SendStep(k)
  <2>1. CASE \/ JournalLoaded(k) \/ FetchSeqno(k) \/ ReadSecret(k)
             \/ begin_send_commit(k) \/ PreparedApplied(k)
             \/ Submit(k) \/ ReceiveReply(k)
    <3>1. pc'[k] \notin {"idle", "done"}
      BY <1>0, <2>1, Zenon
      DEF JournalLoaded, FetchSeqno, ReadSecret, begin_send_commit, PreparedApplied,
          Submit, ReceiveReply, Goto, CallTypes
    <3>2. UNCHANGED <<active_send, active_resolution>>
      BY <2>1, Zenon
      DEF JournalLoaded, FetchSeqno, ReadSecret, begin_send_commit, PreparedApplied,
          Submit, ReceiveReply, publish_send_workflow, clientVars
    <3> QED
      BY <3>1, <3>2, Zenon DEF SlotMove
  <2>2. CASE \/ PreparedConflict(k) \/ PreparedHostError(k)
             \/ TerminalApplied(k) \/ TerminalNotRecorded(k) \/ HandOff(k)
    <3>1. pc[k] \in CommittedPc
      BY <2>2, Zenon DEF PreparedConflict, PreparedHostError, TerminalApplied,
         TerminalNotRecorded, HandOff, CommittedPc
    <3>2. IsCurrent(k)
      BY <1>5, <3>1, Zenon DEF SendInv, CommittedSendKeepsSlot
    <3>3. /\ Return(k) /\ UNCHANGED active_resolution
          /\ active_send' = [active_send EXCEPT ![Home[k]] = Nobody]
      BY <2>2, Zenon DEF PreparedConflict, PreparedHostError, TerminalApplied,
         TerminalNotRecorded, HandOff, ReleaseSend, EndSend
    <3> QED
      BY <1>1, <1>5, <3>2, <3>3, Zenon DEF SlotMove
  <2> QED
    BY <1>5, <2>1, <2>2, Zenon DEF SendStep
<1>6. CASE ResolutionStep(k)
  <2>1. CASE \/ LoadJournal(k) \/ ReadAccount(k) \/ LookupExecuted(k)
             \/ LookupPending(k) \/ LookupWalletSeqno(k) \/ RecheckExecuted(k)
             \/ ResolutionApplied(k) \/ AdoptResolution(k) \/ RetryResolution(k)
             \/ ConcludeForSend(k)
    <3>1. pc'[k] \notin {"idle", "done"}
      BY <1>0, <2>1, Zenon
      DEF LoadJournal, ReadAccount, LookupExecuted, LookupPending,
          LookupWalletSeqno, RecheckExecuted, ResolutionApplied, AdoptResolution,
          RetryResolution, ConcludeForSend, Decide, Conflict, Goto, CallTypes
    <3>2. UNCHANGED <<active_send, active_resolution>>
      BY <2>1, Zenon
      DEF LoadJournal, ReadAccount, LookupExecuted, LookupPending,
          LookupWalletSeqno, RecheckExecuted, ResolutionApplied, AdoptResolution,
          RetryResolution, ConcludeForSend, clientVars
    <3> QED
      BY <3>1, <3>2, Zenon DEF SlotMove
  <2>2. CASE AbandonResolution(k) \/ ResolutionHostError(k) \/ HostFailure(k)
    BY <1>2, <2>2, Zenon DEF AbandonResolution, ResolutionHostError, HostFailure
  <2>3. CASE ConcludeCall(k)
    BY <1>0, <1>1, <2>3, Zenon DEF SlotMove, ConcludeCall, EndSend, EndResolution
  <2>4. CASE LateResult(k)
    BY <2>4, Zenon DEF SlotMove, LateResult, clientVars
  <2> QED
    BY <1>6, <2>1, <2>2, <2>3, <2>4, Zenon DEF ResolutionStep
<1> QED
  BY <1>3, <1>4, <1>5, <1>6, Zenon DEF CallStep, StartStep

\* What a step of a call does to the snapshot of its client: nothing, or it
\* shows the call itself, or the settled or pending record it has inspected.
Showing(k) ==
  \/ /\ UNCHANGED snap
     /\ k \in Ops /\ active_send'[Home[k]] = k =>
          IsCurrent(k) /\ pc[k] # "journal_loaded"
  \/ \E p \in Phase :
       /\ k \in Ops /\ (IsCurrent(k) \/ SlotsFree(Home[k]))
       /\ Publish(Home[k], k, p)
       /\ pc'[k] # "idle"
       /\ p \notin Evidence \cup {"Cancelled"}
       /\ p = "Failed" => k \notin network' /\ pc'[k] \in {"terminal", "done"}
  \/ \E q \in Ops, p \in Phase :
       /\ IsCurrent(k)
       /\ k \in Ops => pc'[k] \in {"journal_loaded", "done"}
       /\ Publish(Home[k], q, p)
       /\ pc[q] \in RecordedPc
       /\ Established(q, p)
       /\ p # "Cancelled"
       /\ p = "Failed" => q \notin network' /\ pc[q] = "done"

\* The phases of a workflow that is not over claim nothing.
LEMMA OpenPhases ==
  ASSUME NEW s \in PendingStage
                     \cup {"LoadingJournal", "FetchingFreshAccount", "Authorizing",
                           "PersistingPrepared"}
  PROVE  /\ s \in SendStage
         /\ public_phase(s) \in Phase
         /\ public_phase(s) \notin Evidence \cup {"Failed", "Cancelled"}
<1>1. s \in SendStage
  BY Zenon DEF SendStage, VolatileStage, PendingStage
<1>2. public_phase(s) \notin Evidence \cup {"Failed", "Cancelled"}
  BY Zenon DEF public_phase, PendingStage, Evidence
<1> QED
  BY <1>1, <1>2, Phases, Zenon

\* The phase of a settled record is its stage.
LEMMA SettledPhases ==
  ASSUME NEW s \in Evidence \cup {"Failed"}
  PROVE  public_phase(s) = s /\ s \in Phase
<1>1. public_phase(s) = s
  BY Zenon DEF public_phase, Evidence
<1> QED
  BY <1>1, Phases, EvidenceStages, Zenon

\* The steps that show the workflow of the send itself (send, begin_send_commit
\* to submit_prepared_send).
LEMMA SendShows ==
  ASSUME SendInv, ShownInv, NEW k \in Ops, StartSend(k) \/ SendStep(k)
  PROVE  Showing(k)
<1>0. /\ CallTypes /\ ClientTypes /\ Custody
      /\ k \in Calls /\ k \notin Resolvers /\ Home[k] \in Clients
      /\ k \in Signs => k \notin Sends
      /\ ControlOf(k) /\ ShownIsOwn(k)
  BY CallsAssumption, Zenon DEF SendInv, TypeOK, Calls, Ops, Control, ShownInv
<1>1. ASSUME NEW s, s \in PendingStage \cup
               {"LoadingJournal", "FetchingFreshAccount", "Authorizing",
                "PersistingPrepared"},
             Publish(Home[k], k, public_phase(s)), pc'[k] # "idle",
             IsCurrent(k) \/ SlotsFree(Home[k])
      PROVE  Showing(k)
  BY <1>1, OpenPhases, Zenon DEF Showing
<1>2. ASSUME pc[k] \in CommittedPc
      PROVE  IsCurrent(k) /\ snap[Home[k]].op = k
  BY <1>0, <1>2, Zenon
  DEF SendInv, CommittedSendKeepsSlot, IsCurrent, ShownIsOwn, CommittedPc
<1>3. CASE StartSend(k)
  <2>1. pc'[k] = "load"
    BY <1>0, <1>3, Zenon DEF StartSend, Goto, CallTypes
  <2> QED
    BY <1>1, <1>3, <2>1, Transitions, Zenon DEF StartSend
<1>4. CASE JournalLoaded(k)
  <2>1. pc'[k] = "seqno" /\ stage[k] = "LoadingJournal"
    BY <1>0, <1>4, Zenon DEF JournalLoaded, Goto, CallTypes, ControlOf, StageOf
  <2> QED
    BY <1>1, <1>4, <2>1, Transitions, Zenon DEF JournalLoaded, publish_send_workflow
<1>5. CASE FetchSeqno(k)
  <2>1. pc'[k] \in {"prepared", "secret"} /\ stage[k] = "FetchingFreshAccount"
    BY <1>0, <1>5, Zenon DEF FetchSeqno, Goto, CallTypes, ControlOf, StageOf
  <2> QED
    BY <1>1, <1>5, <2>1, Transitions, Zenon DEF FetchSeqno, publish_send_workflow
<1>6. CASE ReadSecret(k)
  <2>1. pc'[k] = "prepared" /\ stage[k] = "Authorizing"
    BY <1>0, <1>6, Zenon DEF ReadSecret, Goto, CallTypes, ControlOf, StageOf
  <2> QED
    BY <1>1, <1>6, <2>1, Transitions, Zenon DEF ReadSecret, publish_send_workflow
<1>7. CASE begin_send_commit(k) \/ PreparedApplied(k)
  BY <1>0, <1>7, Zenon
  DEF Showing, begin_send_commit, PreparedApplied, clientVars, IsCurrent, CommittedPc,
      SendInv, CommittedSendKeepsSlot
<1>8. CASE Submit(k)
  <2>1. /\ pc'[k] = "reply" /\ pc[k] \in CommittedPc
        /\ stage[k] = "ReadyToSubmit"
    BY <1>0, <1>8, Zenon
    DEF Submit, Goto, CallTypes, ControlOf, StageOf, CommittedPc
  <2>2. "Submitting" \in PendingStage
    BY Zenon DEF PendingStage
  <2> QED
    BY <1>1, <1>2, <1>8, <2>1, <2>2, Transitions, Zenon DEF Submit, publish_send_workflow
<1>9. CASE ReceiveReply(k)
  <2>1. /\ pc'[k] = "terminal" /\ pc[k] \in CommittedPc
        /\ stage[k] = "Submitting" /\ network' = network
    BY <1>0, <1>9, Zenon
    DEF ReceiveReply, Goto, CallTypes, ControlOf, StageOf, CommittedPc, chainVars
  <2>2. PICK e \in Replies(k) : Publish(Home[k], k, public_phase(transition(stage[k], e)))
    BY <1>9, Zenon DEF ReceiveReply, publish_send_workflow
  <2>3. CASE e = "SubmissionRejected"
    <3>1. e = "SubmissionRejected" /\ k \notin network
      BY <2>2, <2>3, Zenon DEF Replies
    <3>2. transition(stage[k], e) = "Failed"
      BY <2>1, <3>1, Transitions, Zenon
    <3>3. public_phase("Failed") = "Failed" /\ "Failed" \in Phase
      BY SettledPhases, Zenon
    <3>4. "Failed" \notin Evidence \cup {"Cancelled"}
      BY Zenon DEF Evidence
    <3> QED
      BY <1>2, <2>1, <2>2, <3>1, <3>2, <3>3, <3>4, Zenon DEF Showing
  <2>4. CASE e # "SubmissionRejected"
    <3>1. transition(stage[k], e) \in PendingStage
      BY <2>1, <2>2, <2>4, Transitions, Zenon DEF Replies, PendingStage
    <3> QED
      BY <1>1, <1>2, <2>1, <2>2, <3>1, Zenon
  <2> QED
    BY <2>3, <2>4, Zenon
<1>10. CASE \/ PreparedConflict(k) \/ PreparedHostError(k)
            \/ TerminalApplied(k) \/ TerminalNotRecorded(k) \/ HandOff(k)
  <2>1. PICK p : ReleaseSend(k, p) /\ Return(k)
                 /\ \/ p = "SubmissionUnknown" /\ pc[k] \in {"commit", "terminal"}
                    \/ p = "Failed" /\ pc[k] = "commit" /\ network' = network
                    \/ p = public_phase(stage[k]) /\ pc[k] = "handoff"
                    \/ /\ p = public_phase(stage[k]) /\ pc[k] = "terminal"
                       /\ network' = network
    BY <1>10, Zenon DEF PreparedConflict, PreparedHostError, TerminalApplied,
       TerminalNotRecorded, HandOff, chainVars
  <2>2. pc'[k] = "done"
    BY <1>0, <2>1, Zenon DEF Return, Goto, CallTypes
  <2>3. IsCurrent(k) /\ snap[Home[k]].op = k
    BY <1>2, <2>1, Zenon DEF CommittedPc
  <2>4. Publish(Home[k], k, p)
    BY <2>1, <2>3, Zenon DEF ReleaseSend
  <2>5. ASSUME p = "Failed", k \notin network'
        PROVE  Showing(k)
    <3>1. public_phase("Failed") = "Failed" /\ "Failed" \in Phase
      BY SettledPhases, Zenon
    <3>2. "Failed" \notin Evidence \cup {"Cancelled"}
      BY Zenon DEF Evidence
    <3> QED
      BY <2>2, <2>3, <2>4, <2>5, <3>1, <3>2, Zenon DEF Showing
  <2>6. ASSUME NEW s \in PendingStage, p = public_phase(s)
        PROVE  Showing(k)
    BY <1>1, <2>2, <2>3, <2>4, <2>6, Zenon
  <2>7. CASE p = "SubmissionUnknown"
    BY <2>6, <2>7, Zenon DEF public_phase, PendingStage
  <2>8. CASE p = "Failed" /\ pc[k] = "commit" /\ network' = network
    BY <1>0, <2>5, <2>8, Zenon DEF Custody
  <2>9. CASE p = public_phase(stage[k]) /\ pc[k] = "handoff"
    BY <1>0, <2>6, <2>9, Zenon DEF ControlOf, StageOf, PendingStage
  <2>10. CASE p = public_phase(stage[k]) /\ pc[k] = "terminal" /\ network' = network
    <3>1. stage[k] \in {"Submitted", "SubmissionUnknown", "Failed"}
      BY <1>0, <2>10, Zenon DEF ControlOf, StageOf
    <3>2. CASE stage[k] = "Failed"
      BY <1>0, <2>5, <2>10, <3>2, SettledPhases, Zenon DEF Custody
    <3>3. CASE stage[k] # "Failed"
      BY <2>6, <2>10, <3>1, <3>3, Zenon DEF PendingStage
    <3> QED
      BY <3>2, <3>3, Zenon
  <2> QED
    BY <2>1, <2>7, <2>8, <2>9, <2>10, Zenon
<1> QED
  BY <1>3, <1>4, <1>5, <1>6, <1>7, <1>8, <1>9, <1>10, Zenon DEF SendStep

\* The steps that show nothing, end the call, or show the record that the call
\* has inspected (resolve_pending_with_owner and what concludes it).
LEMMA ResolutionShows ==
  ASSUME SendInv, ShownInv, NEW k \in Calls,
         \/ ResolutionStep(k)
         \/ k \in Resolvers /\ (StartResolve(k) \/ NothingPending(k))
  PROVE  Showing(k)
<1>0. /\ CallTypes /\ ClientTypes /\ Custody /\ Slot /\ Concluded
      /\ k \in Ops <=> k \notin Resolvers
      /\ ShownIsOwn(k) /\ Conclusion(k) /\ Building(k)
  BY CallsAssumption, Zenon DEF SendInv, TypeOK, Calls, ShownInv
<1>1. ASSUME UNCHANGED <<active_send, snap>>, pc[k] # "journal_loaded" \/ ~IsCurrent(k)
      PROVE  Showing(k)
  BY <1>0, <1>1, Zenon DEF Showing, IsCurrent
<1>2. ASSUME Return(k), k \in Ops
      PROVE  pc'[k] = "done"
  BY <1>0, <1>2, Zenon DEF Return, Goto, CallTypes
<1>3. ASSUME FailCall(k), Return(k), network' = network,
             pc[k] \notin {"reply", "terminal", "done", "journal_loaded"}
      PROVE  Showing(k)
  <2>1. CASE k \in Resolvers \/ ~IsCurrent(k)
    BY <1>0, <1>1, <1>3, <2>1, Zenon DEF FailCall, clientVars
  <2>2. CASE k \in Ops /\ IsCurrent(k)
    <3>1. snap[Home[k]].op = k
      BY <1>0, <1>3, <2>2, Zenon DEF ShownIsOwn
    <3>2. Publish(Home[k], k, "Failed")
      BY <1>0, <1>3, <2>2, <3>1, Zenon DEF FailCall, ReleaseSend
    <3>3. "Failed" \in Phase /\ "Failed" \notin Evidence \cup {"Cancelled"}
      BY Phases, Zenon DEF Evidence
    <3>4. k \notin network' /\ pc'[k] = "done"
      BY <1>0, <1>2, <1>3, <2>2, Zenon DEF Custody
    <3> QED
      BY <2>2, <3>2, <3>3, <3>4, Zenon DEF Showing
  <2> QED
    BY <1>0, <2>1, <2>2, Zenon
<1>4. ASSUME PublishPrior(k), pc[k] = "conclude", IsCurrent(k),
             k \in Ops => pc'[k] \in {"journal_loaded", "done"}
      PROVE  Showing(k)
  <2>1. /\ seen[k].version > 0 /\ Recorded(seen[k])
        /\ prior[k] = seen[k].op /\ Established(prior[k], verdict[k])
        /\ verdict[k] = "StillPending" => PendingRecord(seen[k])
        /\ verdict[k] \in Evidence \cup {"StillPending"}
    BY <1>0, <1>4, Zenon DEF Slot, Conclusion, Building, CallTypes, Verdict
  <2>2. seen[k] # NoRecord
    BY <2>1 DEF NoRecord
  <2>3. prior[k] \in Ops /\ pc[prior[k]] \in RecordedPc
    BY <2>1, <2>2, Zenon DEF Recorded
  <2>4. CASE verdict[k] = "StillPending"
    <3>1. seen[k].stage \in PendingStage
      BY <2>1, <2>2, <2>4, Zenon
      DEF Recorded, PendingRecord, permits_replacement, SettledStage, Evidence
    <3>2. PICK p \in Phase : /\ Publish(Home[k], prior[k], p)
                             /\ p \notin Evidence \cup {"Failed", "Cancelled"}
      BY <1>4, <2>4, <3>1, OpenPhases, Zenon DEF PublishPrior
    <3>3. Established(prior[k], p)
      BY <3>2, Zenon DEF Established, Evidence
    <3> QED
      BY <1>4, <2>3, <3>2, <3>3, Zenon DEF Showing
  <2>5. CASE verdict[k] \in Evidence
    <3>1. verdict[k] # "StillPending" /\ verdict[k] \notin {"Failed", "Cancelled"}
      BY <2>5, Zenon DEF Evidence
    <3>2. Publish(Home[k], prior[k], verdict[k]) /\ verdict[k] \in Phase
      BY <1>4, <2>5, <3>1, SettledPhases, Zenon DEF PublishPrior
    <3> QED
      BY <1>4, <2>1, <2>3, <3>1, <3>2, Zenon DEF Showing
  <2> QED
    BY <2>1, <2>4, <2>5, Zenon
<1>5. CASE k \in Resolvers /\ StartResolve(k)
  BY <1>1, <1>5, Zenon DEF StartResolve
<1>6. CASE k \in Resolvers /\ NothingPending(k)
  <2>1. CASE journal.version = 0
    BY <1>1, <1>6, <2>1, Zenon DEF NothingPending
  <2>2. CASE journal.version # 0
    <3>1. journal # NoRecord /\ journal.version > 0
      BY <2>2 DEF NoRecord, SendInv, TypeOK, JournalRecord
    <3>2. /\ journal.op \in Ops /\ pc[journal.op] \in RecordedPc
          /\ journal.stage \in PendingStage \cup Evidence \cup {"Failed"}
      BY <1>0, <3>1, Zenon DEF Slot, Recorded
    <3>3. journal.stage \in Evidence \cup {"Failed"}
      BY <1>6, <3>1, <3>2, Zenon
      DEF NothingPending, PendingRecord, permits_replacement, PendingStage, SettledStage
    <3>4. /\ Publish(Home[k], journal.op, journal.stage) /\ journal.stage \in Phase
          /\ journal.stage # "Cancelled" /\ network' = network
      BY <1>6, <2>2, <3>3, SettledPhases, Zenon
      DEF NothingPending, chainVars, Evidence
    <3>5. /\ Established(journal.op, journal.stage)
          /\ journal.stage = "Failed" =>
               journal.op \notin network /\ pc[journal.op] = "done"
      BY <1>0, <3>1, Zenon DEF Concluded
    <3> QED
      BY <1>0, <1>6, <3>2, <3>4, <3>5, Zenon DEF Showing, NothingPending
  <2> QED
    BY <2>1, <2>2, Zenon
<1>7. CASE ResolutionStep(k)
  <2>1. CASE \/ LoadJournal(k) \/ ReadAccount(k) \/ LookupExecuted(k)
             \/ LookupPending(k) \/ LookupWalletSeqno(k) \/ RecheckExecuted(k)
             \/ ResolutionApplied(k) \/ AdoptResolution(k) \/ RetryResolution(k)
             \/ LateResult(k)
    BY <1>1, <2>1, Zenon
    DEF LoadJournal, ReadAccount, LookupExecuted, LookupPending, LookupWalletSeqno,
        RecheckExecuted, ResolutionApplied, AdoptResolution, RetryResolution,
        LateResult, Conflict, clientVars
  <2>2. CASE AbandonResolution(k) \/ ResolutionHostError(k) \/ HostFailure(k)
    BY <1>3, <2>2, Zenon
    DEF AbandonResolution, ResolutionHostError, HostFailure, Conflict, chainVars
  <2>3. CASE ConcludeForSend(k)
    BY <1>0, <1>4, <2>3, Zenon DEF ConcludeForSend, Goto, CallTypes
  <2>4. CASE ConcludeCall(k)
    BY <1>2, <1>4, <2>4, Zenon DEF ConcludeCall
  <2> QED
    BY <1>7, <2>1, <2>2, <2>3, <2>4, Zenon DEF ResolutionStep
<1> QED
  BY <1>5, <1>6, <1>7, Zenon

\* What a step of the application or of a process does to slots and calls.
ClientMove ==
  /\ UNCHANGED <<journal, network>>
  /\ \A d \in Clients : /\ active_send'[d] \in {active_send[d], Nobody}
                        /\ active_resolution'[d] \in {active_resolution[d], Nobody}
  /\ \A k \in Calls :
       \/ Still(k)
       \/ /\ active_send'[Home[k]] = Nobody /\ active_resolution'[Home[k]] = Nobody
          /\ pc'[k] \in {"idle", "done"}
          /\ k \in Ops => pc'[k] \in {pc[k], "done"}
  /\ \A d \in Clients :
       \/ snap'[d] = snap[d]
       \/ snap'[d].op = Nobody /\ active_send'[d] = Nobody
       \/ /\ snap'[d] = [op |-> active_send[d], phase |-> "Cancelled"]
          /\ active_send[d] # Nobody /\ active_send'[d] = Nobody
          /\ d \notin send_commit_started

\* cancel_send, shutdown, reopening the record and a crash only give slots back.
LEMMA ClientMoves ==
  ASSUME SendInv, NEW c \in Clients, ClientStep(c)
  PROVE  ClientMove
<1>0. CallTypes /\ ClientTypes /\ \A k \in Calls : Home[k] \in Clients
  BY CallsAssumption, Zenon DEF SendInv, TypeOK
<1>1. ASSUME UNCHANGED <<pc, locals>>
      PROVE  \A k \in Calls : Still(k)
  BY <1>1, Zenon DEF Still, locals
<1>2. ASSUME prepare_shutdown(c), ~CommitInFlight(c),
             UNCHANGED <<journal, pc, locals, chainVars>>
      PROVE  ClientMove
  BY <1>0, <1>1, <1>2, Zenon
  DEF ClientMove, prepare_shutdown, CommitInFlight, EndSend, EndResolution, Publish,
      ClientTypes, chainVars
<1>3. ASSUME NewState(c)
      PROVE  /\ active_send'[c] = Nobody /\ active_resolution'[c] = Nobody
             /\ \A d \in Clients :
                  /\ active_send'[d] \in {active_send[d], Nobody}
                  /\ active_resolution'[d] \in {active_resolution[d], Nobody}
                  /\ d # c => snap'[d] = snap[d]
  BY <1>0, <1>3, Zenon DEF NewState, EndSend, EndResolution, Publish, ClientTypes
<1>4. ASSUME NewState(c)
      PROVE  snap'[c].op = Nobody
  BY <1>0, <1>4 DEF NewState, Publish, ClientTypes
<1>5. CASE cancel_send(c)
  BY <1>0, <1>1, <1>5, Zenon
  DEF ClientMove, cancel_send, CancelActive, EndSend, Publish, ClientTypes, chainVars
<1>6. CASE BeginShutdown(c)
  <2>1. CASE CommitInFlight(c)
    BY <1>1, <1>6, <2>1, Zenon DEF BeginShutdown, ClientMove, chainVars
  <2>2. CASE ~CommitInFlight(c)
    BY <1>2, <1>6, <2>2, Zenon DEF BeginShutdown
  <2> QED
    BY <2>1, <2>2, Zenon
<1>7. CASE FinishShutdown(c)
  BY <1>2, <1>7, Zenon DEF FinishShutdown
<1>8. CASE Reopen(c)
  BY <1>1, <1>3, <1>4, <1>8, Zenon DEF Reopen, ClientMove, chainVars
<1>9. CASE Crash(c)
  <2>1. ASSUME NEW k \in Calls
        PROVE  \/ Still(k)
               \/ /\ Home[k] = c
                  /\ pc'[k] \in {"idle", "done"}
                  /\ k \in Ops => pc'[k] \in {pc[k], "done"}
    BY <1>9, CallsAssumption, Zenon DEF Crash, Still
  <2> QED
    BY <1>3, <1>4, <1>9, <2>1, Zenon DEF ClientMove, Crash, chainVars
<1> QED
  BY <1>5, <1>6, <1>7, <1>8, <1>9, Zenon DEF ClientStep

\* A step of the chain, or none, leaves the clients and the calls alone.
LEMMA ChainFrame ==
  ASSUME ChainStep \/ UNCHANGED vars
  PROVE  /\ UNCHANGED <<journal, active_send, active_resolution, snap, pc, network>>
         /\ \A k \in Calls : Still(k)
BY Zenon
DEF ChainStep, Execute, ExecuteForeign, Index, Tick, vars, clientVars, chainVars,
    locals, Still

\* What any step does, by who takes it.
LEMMA StepKinds ==
  ASSUME SendInv, ShownInv, [Next]_vars
  PROVE  \/ \E k \in Calls :
              CallStep(k) /\ Frame(k) /\ SlotMove(k) /\ Showing(k)
         \/ ClientMove
         \/ /\ UNCHANGED <<journal, active_send, active_resolution, snap, pc, network>>
            /\ \A k \in Calls : Still(k)
<1>1. ASSUME NEW k \in Calls, CallStep(k)
      PROVE  CallStep(k) /\ Frame(k) /\ SlotMove(k) /\ Showing(k)
  BY <1>1, FrameLemma, SlotMoves, SendShows, ResolutionShows, Zenon
  DEF SendInv, CallStep, StartStep
<1>2. ASSUME NEW c \in Clients, ClientStep(c)
      PROVE  ClientMove
  BY <1>2, ClientMoves, Zenon
<1> QED
  BY <1>1, <1>2, ChainFrame, Zenon DEF Next, CallStep, StartStep, Calls

\* The slots stay exclusive, and a send that returns has given its slot back.
LEMMA SlotHeldKept ==
  ASSUME OneProcess, SendInv, ShownInv, [Next]_vars, NEW c \in Clients
  PROVE  SlotHeld(c)'
<1>0. /\ ClientTypes /\ CallTypes /\ SlotHeld(c)
      /\ \A k \in Calls : Home[k] = c /\ k # Nobody
      /\ \A k \in Ops : k \in Calls /\ k \notin Resolvers
  BY CallsAssumption, Zenon DEF OneProcess, SendInv, TypeOK, ShownInv, Calls
<1>1. ASSUME NEW k \in Calls, Frame(k), SlotMove(k)
      PROVE  SlotHeld(c)'
  <2>1. CASE /\ UNCHANGED <<active_send, active_resolution>>
             /\ IsCurrent(k) => pc'[k] \notin {"idle", "done"}
    <3>1. ASSUME active_send[c] # Nobody
          PROVE  pc'[active_send[c]] \notin {"idle", "done"}
      <4>1. active_send[c] \in Ops
        BY <1>0, <3>1, Zenon DEF ClientTypes
      <4>2. CASE active_send[c] = k
        BY <1>0, <2>1, <4>1, <4>2, Zenon DEF IsCurrent
      <4>3. CASE active_send[c] # k
        BY <1>0, <1>1, <3>1, <4>1, <4>3, Zenon DEF Frame, Still, SlotHeld
      <4> QED
        BY <4>2, <4>3, Zenon
    <3> QED
      BY <1>0, <2>1, <3>1, Zenon DEF SlotHeld
  <2>2. CASE SlotsFree(c) /\ pc'[k] = "load"
    BY <1>0, <1>1, <2>2, Zenon DEF SlotMove, SlotsFree, SlotHeld, ClientTypes
  <2>3. CASE IsCurrent(k) /\ pc'[k] \in {"idle", "done"}
    <3>1. CASE k \in Ops
      BY <1>0, <1>1, <2>3, <3>1, Zenon
      DEF SlotMove, SlotsFree, SlotHeld, ClientTypes, IsCurrent
    <3>2. CASE k \in Resolvers
      <4>1. active_send[c] = Nobody
        BY <1>0, <2>3, <3>2, Zenon DEF IsCurrent, SlotHeld
      <4> QED
        BY <1>0, <1>1, <2>3, <3>2, <4>1, Zenon
        DEF SlotMove, SlotsFree, SlotHeld, ClientTypes, IsCurrent
    <3> QED
      BY <3>1, <3>2, Zenon DEF Calls
  <2> QED
    BY <1>0, <1>1, <2>1, <2>2, <2>3, Zenon DEF SlotMove
<1>2. CASE ClientMove
  <2>1. ASSUME active_send'[c] # Nobody
        PROVE  pc'[active_send'[c]] \notin {"idle", "done"}
    <3>1. active_send'[c] = active_send[c]
      BY <1>2, <2>1, Zenon DEF ClientMove
    <3>2. active_send[c] \in Ops
      BY <1>0, <2>1, <3>1, Zenon DEF ClientTypes
    <3>3. /\ active_send[c] \in Calls /\ Home[active_send[c]] = c
          /\ active_send'[Home[active_send[c]]] # Nobody
      BY <1>0, <2>1, <3>2, Zenon
    <3>4. Still(active_send[c])
      BY <1>2, <3>3, Zenon DEF ClientMove
    <3> QED
      BY <1>0, <2>1, <3>1, <3>4, Zenon DEF Still, SlotHeld
  <2> QED
    BY <1>0, <1>2, <2>1, Zenon DEF ClientMove, SlotHeld
<1>3. CASE UNCHANGED <<active_send, active_resolution, pc>>
  BY <1>0, <1>3, Zenon DEF SlotHeld
<1> QED
  BY <1>1, <1>2, <1>3, StepKinds, Zenon

\* A send goes past the commit boundary only while it holds its slot, and from
\* its recorded outcome only to its end.
LEMMA SendAdvances ==
  ASSUME SendInv, NEW k \in Ops, CallStep(k)
  PROVE  /\ pc'[k] # "idle"
         /\ pc[k] = "terminal" => pc'[k] = "done"
         /\ pc[k] \notin CommittedPc /\ ~IsCurrent(k) => pc'[k] \notin CommittedPc
<1>0. CallTypes /\ k \in Calls /\ k \notin Resolvers
  BY CallsAssumption, Zenon DEF SendInv, TypeOK, Calls
<1>1. ASSUME Return(k)
      PROVE  pc'[k] = "done"
  BY <1>0, <1>1, Zenon DEF Return, Goto, CallTypes
<1>2. CASE StartSend(k)
  BY <1>0, <1>2, Zenon DEF StartSend, Goto, CallTypes, CommittedPc
<1>3. CASE SendStep(k)
  <2>1. CASE \/ PreparedConflict(k) \/ PreparedHostError(k) \/ TerminalApplied(k)
             \/ TerminalNotRecorded(k) \/ HandOff(k)
    BY <1>1, <2>1, Zenon
    DEF PreparedConflict, PreparedHostError, TerminalApplied, TerminalNotRecorded,
        HandOff, CommittedPc
  <2>2. CASE \/ JournalLoaded(k) \/ FetchSeqno(k) \/ ReadSecret(k)
             \/ begin_send_commit(k)
    BY <1>0, <2>2, Zenon
    DEF JournalLoaded, FetchSeqno, ReadSecret, begin_send_commit, Goto, CallTypes
  <2>3. CASE PreparedApplied(k) \/ Submit(k) \/ ReceiveReply(k)
    BY <1>0, <2>3, Zenon
    DEF PreparedApplied, Submit, ReceiveReply, Goto, CallTypes, CommittedPc
  <2> QED
    BY <1>3, <2>1, <2>2, <2>3, Zenon DEF SendStep
<1>4. CASE ResolutionStep(k)
  <2>1. CASE \/ AbandonResolution(k) \/ ResolutionHostError(k) \/ HostFailure(k)
             \/ ConcludeCall(k) \/ LateResult(k)
    BY <1>1, <2>1, Zenon
    DEF AbandonResolution, ResolutionHostError, HostFailure, ConcludeCall, LateResult,
        CommittedPc
  <2>2. CASE \/ LoadJournal(k) \/ ReadAccount(k) \/ LookupExecuted(k)
             \/ LookupPending(k) \/ LookupWalletSeqno(k) \/ RecheckExecuted(k)
             \/ ResolutionApplied(k) \/ AdoptResolution(k) \/ RetryResolution(k)
             \/ ConcludeForSend(k)
    BY <1>0, <2>2, Zenon
    DEF LoadJournal, ReadAccount, LookupExecuted, LookupPending, LookupWalletSeqno,
        RecheckExecuted, ResolutionApplied, AdoptResolution, RetryResolution,
        ConcludeForSend, Conflict, Decide, Goto, CallTypes, CommittedPc
  <2> QED
    BY <1>4, <2>1, <2>2, Zenon DEF ResolutionStep
<1> QED
  BY <1>0, <1>2, <1>3, <1>4, Zenon DEF CallStep, StartStep

\* A call becomes current only by starting.
LEMMA CurrentKept ==
  ASSUME SendInv, ShownInv, [Next]_vars, NEW k \in Calls, IsCurrent(k)', pc[k] # "idle"
  PROVE  IsCurrent(k)
<1>0. /\ ClientTypes /\ k # Nobody
      /\ \A j \in Calls : Home[j] \in Clients /\ (j \in Ops <=> j \notin Resolvers)
  BY CallsAssumption, Zenon DEF SendInv, TypeOK, Calls
<1>1. IF k \in Resolvers THEN active_resolution'[Home[k]] = k
                         ELSE active_send'[Home[k]] = k
  BY Zenon DEF IsCurrent
<1>2. ASSUME NEW j \in Calls, SlotMove(j)
      PROVE  IsCurrent(k)
  BY <1>0, <1>1, <1>2, Zenon DEF SlotMove, IsCurrent, ClientTypes
<1>3. CASE ClientMove
  BY <1>0, <1>1, <1>3, Zenon DEF ClientMove, IsCurrent
<1>4. CASE UNCHANGED <<active_send, active_resolution>>
  BY <1>1, <1>4, Zenon DEF IsCurrent
<1> QED
  BY <1>2, <1>3, <1>4, StepKinds, Zenon

\* A message that the engine holds back for good stays held back, whatever the
\* other calls, the application and the chain do.
LEMMA WithheldKept ==
  ASSUME SendInv, ShownInv, Effects, [Next]_vars, NEW k \in Ops, pc[k] # "idle"
  PROVE  pc'[k] # "idle" /\ (Withheld(k) => Withheld(k)')
<1>0. k \in Calls /\ k \notin Resolvers
  BY CallsAssumption, Zenon DEF Calls
<1>1. /\ pc'[k] # "idle"
      /\ pc[k] \in {"terminal", "done"} => pc'[k] \in {"terminal", "done"}
      /\ pc[k] \notin CommittedPc /\ ~IsCurrent(k) => pc'[k] \notin CommittedPc
  <2>1. pc[k] = "done" => pc'[k] = "done"
    BY Zenon DEF Effects, Moves
  <2>2. CASE CallStep(k)
    BY <2>1, <2>2, SendAdvances, Zenon
  <2>3. CASE pc'[k] \in {pc[k], "done"}
    BY <2>3 DEF CommittedPc
  <2>4. ASSUME NEW j \in Calls, CallStep(j), Frame(j)
        PROVE  CallStep(k) \/ pc'[k] \in {pc[k], "done"}
    BY <1>0, <2>4, Zenon DEF Frame, Still
  <2>5. ASSUME ClientMove
        PROVE  pc'[k] \in {pc[k], "done"}
    BY <1>0, <2>5, Zenon DEF ClientMove, Still
  <2> QED
    BY <2>2, <2>3, <2>4, <2>5, StepKinds, Zenon
<1>2. Withheld(k) => k \notin network'
  BY Zenon DEF Effects, Moves, Withheld, CommittedPc
<1>3. IsCurrent(k)' => IsCurrent(k)
  BY <1>0, CurrentKept, Zenon
<1> QED
  BY <1>1, <1>2, <1>3, Zenon DEF Withheld

\* What is shown truly stays true.
LEMMA ShownStays ==
  ASSUME SendInv, ShownInv, Effects, TypeOK', [Next]_vars, NEW k, NEW p, Shown(k, p)
  PROVE  Shown(k, p)'
<1>1. k \in Ops /\ pc'[k] # "idle" /\ (Withheld(k) => Withheld(k)')
  BY WithheldKept, Zenon DEF Shown
<1>2. CASE p \in Evidence
  BY <1>1, <1>2, Stability, Zenon DEF Shown
<1>3. CASE p \notin Evidence
  BY <1>1, <1>3, Zenon DEF Shown, Established, Evidence
<1> QED
  BY <1>2, <1>3, Zenon

\* The operation that is cancelled has not left the engine and does not.
LEMMA CancelledIsWithheld ==
  ASSUME OneProcess, SendInv, ShownInv, ClientMove, NEW c \in Clients, NEW k,
         active_send[c] = k, k # Nobody, active_send'[c] = Nobody,
         c \notin send_commit_started
  PROVE  Shown(k, "Cancelled")'
<1>0. /\ ClientTypes /\ SlotHeld(c) /\ Custody /\ CommittedSendKeepsSlot
  BY Zenon DEF SendInv, TypeOK, ShownInv
<1>1. k \in Ops /\ k \in Calls /\ k \notin Resolvers /\ Home[k] = c
  BY <1>0, CallsAssumption, Zenon DEF OneProcess, ClientTypes, Calls
<1>2. pc[k] \notin CommittedPc /\ pc[k] \notin {"idle", "done"}
  BY <1>0, <1>1, Zenon DEF CommittedSendKeepsSlot, SlotHeld
<1>3. k \notin network'
  BY <1>0, <1>1, <1>2, Zenon DEF Custody, CommittedPc, ClientMove
<1>4. pc'[k] \in {pc[k], "done"}
  BY <1>1, Zenon DEF ClientMove, Still
<1>5. pc'[k] # "idle" /\ pc'[k] \notin CommittedPc
  BY <1>2, <1>4 DEF CommittedPc
<1> QED
  BY <1>1, <1>3, <1>5, Zenon DEF Shown, Withheld, IsCurrent, Established, Evidence

\* Every phase that is shown after a step is true of the operation it is
\* shown for.
LEMMA ShownTrueKept ==
  ASSUME OneProcess, SendInv, ShownInv, Effects, TypeOK', [Next]_vars
  PROVE  ShownIsTrue'
<1>0. SUFFICES ASSUME NEW c \in Clients, snap'[c].op # Nobody
               PROVE  Shown(snap[c].op, snap[c].phase)'
  BY Zenon DEF ShownIsTrue
<1>1. /\ snap \in [Clients -> Snapshot]
      /\ \A k \in Calls : Home[k] = c
      /\ Ops \subseteq Calls
  BY CallsAssumption, Zenon DEF OneProcess, SendInv, TypeOK, ClientTypes, Calls
<1>2. ASSUME NEW k, NEW p, snap'[c].op = k, snap'[c].phase = p, Shown(k, p)'
      PROVE  Shown(snap[c].op, snap[c].phase)'
  BY <1>2, Zenon DEF Shown, Withheld, Established, Dead, IsCurrent
<1>3. ASSUME snap'[c] = snap[c]
      PROVE  Shown(snap[c].op, snap[c].phase)'
  <2>1. PICK k, p : k = snap[c].op /\ p = snap[c].phase
    OBVIOUS
  <2>2. Shown(k, p)
    BY <1>0, <1>3, <2>1, Zenon DEF ShownInv, ShownIsTrue
  <2> QED
    BY <1>2, <1>3, <2>1, <2>2, ShownStays, Zenon
<1>4. ASSUME NEW k, NEW p, Publish(c, k, p), Shown(k, p)'
      PROVE  Shown(snap[c].op, snap[c].phase)'
  <2>1. snap'[c].op = k /\ snap'[c].phase = p
    BY <1>1, <1>4 DEF Publish
  <2> QED
    BY <1>2, <1>4, <2>1, Zenon
<1>5. ASSUME NEW k \in Calls, Frame(k), Showing(k)
      PROVE  Shown(snap[c].op, snap[c].phase)'
  <2>1. CASE UNCHANGED snap
    BY <1>3, <2>1, Zenon
  <2>2. ASSUME NEW p \in Phase, k \in Ops, Publish(Home[k], k, p), pc'[k] # "idle",
               p \notin Evidence \cup {"Cancelled"},
               p = "Failed" => k \notin network' /\ pc'[k] \in {"terminal", "done"}
        PROVE  Shown(snap[c].op, snap[c].phase)'
    <3>1. Shown(k, p)'
      BY <2>2, Zenon DEF Shown, Withheld, Established, Evidence
    <3> QED
      BY <1>1, <1>4, <2>2, <3>1, Zenon
  <2>3. ASSUME NEW q \in Ops, NEW p \in Phase, Publish(Home[k], q, p),
               pc[q] \in RecordedPc, Established(q, p), p # "Cancelled",
               p = "Failed" => q \notin network' /\ pc[q] = "done"
        PROVE  Shown(snap[c].op, snap[c].phase)'
    <3>1. Shown(q, p)
      BY <1>5, <2>3, Zenon DEF Shown, Withheld, RecordedPc, Frame
    <3> QED
      BY <1>1, <1>4, <2>3, <3>1, ShownStays, Zenon
  <2> QED
    BY <1>5, <2>1, <2>2, <2>3, Zenon DEF Showing
<1>6. CASE ClientMove
  <2>1. CASE /\ snap'[c] = [op |-> active_send[c], phase |-> "Cancelled"]
             /\ active_send[c] # Nobody /\ active_send'[c] = Nobody
             /\ c \notin send_commit_started
    <3>1. PICK k : k = active_send[c]
      OBVIOUS
    <3>2. snap'[c].op = k /\ snap'[c].phase = "Cancelled"
      BY <2>1, <3>1
    <3>3. Shown(k, "Cancelled")'
      BY <1>6, <2>1, <3>1, CancelledIsWithheld, Zenon
    <3> QED
      BY <1>2, <3>2, <3>3, Zenon
  <2> QED
    BY <1>0, <1>3, <1>6, <2>1, Zenon DEF ClientMove
<1>7. CASE UNCHANGED snap
  BY <1>3, <1>7, Zenon
<1> QED
  BY <1>5, <1>6, <1>7, StepKinds, Zenon

\* While a send holds the slot, no other call shows anything on its client.
LEMMA ShownOwnKept ==
  ASSUME OneProcess, SendInv, ShownInv, [Next]_vars, NEW j \in Calls
  PROVE  ShownIsOwn(j)'
<1>0. SUFFICES ASSUME j \in Ops, IsCurrent(j)', pc'[j] # "journal_loaded"
               PROVE  snap'[Home[j]].op = j
  BY Zenon DEF ShownIsOwn
<1> DEFINE c == Home[j]
<1>1. /\ snap \in [Clients -> Snapshot] /\ ClientTypes
      /\ c \in Clients /\ j # Nobody /\ j \notin Resolvers
      /\ \A k \in Calls : Home[k] = c
      /\ SlotHeld(c) /\ ShownIsOwn(j)
  BY <1>0, CallsAssumption, Zenon
  DEF OneProcess, SendInv, TypeOK, ClientTypes, Calls, ShownInv
<1>2. active_send'[c] = j /\ pc'[j] \notin {"idle", "done"}
  BY <1>0, <1>1, SlotHeldKept, Zenon DEF IsCurrent, SlotHeld
<1>3. ASSUME IsCurrent(j), pc[j] # "journal_loaded", snap'[c] = snap[c]
      PROVE  snap'[c].op = j
  BY <1>0, <1>1, <1>3, Zenon DEF ShownIsOwn
<1>4. ASSUME NEW k \in Calls, Frame(k), SlotMove(k), Showing(k)
      PROVE  snap'[c].op = j
  <2>1. CASE k = j
    <3>1. CASE /\ UNCHANGED snap
               /\ k \in Ops /\ active_send'[Home[k]] = k =>
                    IsCurrent(k) /\ pc[k] # "journal_loaded"
      BY <1>0, <1>2, <1>3, <2>1, <3>1, Zenon
    <3>2. ASSUME NEW p, Publish(Home[k], k, p)
          PROVE  snap'[c].op = j
      BY <1>1, <2>1, <3>2 DEF Publish
    <3> QED
      BY <1>0, <1>2, <1>4, <2>1, <3>1, <3>2, Zenon DEF Showing
  <2>2. CASE k # j
    <3>1. pc'[j] = pc[j] /\ active_send[c] = j
      <4>1. pc'[j] = pc[j]
        BY <1>4, <2>2, Zenon DEF Frame, Still
      <4> QED
        BY <1>0, <1>1, <1>2, <4>1, CurrentKept, Zenon DEF IsCurrent
    <3>2. ~IsCurrent(k) /\ ~SlotsFree(Home[k])
      <4>1. k \notin Resolvers \/ active_resolution[c] # k
        BY <1>1, <3>1, CallsAssumption, Zenon DEF SlotHeld
      <4> QED
        BY <1>1, <2>2, <3>1, <4>1, Zenon DEF IsCurrent, SlotsFree
    <3>3. UNCHANGED snap
      BY <1>4, <3>2, Zenon DEF Showing
    <3> QED
      BY <1>0, <1>1, <1>3, <3>1, <3>3, Zenon DEF IsCurrent
  <2> QED
    BY <2>1, <2>2, Zenon
<1>5. CASE ClientMove
  <2>1. active_send[c] = j /\ Still(j)
    BY <1>1, <1>2, <1>5, Zenon DEF ClientMove
  <2>2. snap'[c] = snap[c]
    BY <1>1, <1>2, <1>5, Zenon DEF ClientMove
  <2> QED
    BY <1>0, <1>1, <1>3, <2>1, <2>2, Zenon DEF Still, IsCurrent
<1>6. CASE UNCHANGED <<active_send, active_resolution, snap, pc>>
  BY <1>0, <1>1, <1>2, <1>3, <1>6, Zenon DEF IsCurrent
<1> QED
  BY <1>4, <1>5, <1>6, StepKinds, Zenon

\* The journal changes under a call that holds its slot only by the verdict of
\* a call that lost its own: everyone else who writes holds a slot too.
LEMMA UndisturbedKept ==
  ASSUME OneProcess, SendInv, ShownInv, [Next]_vars, NEW k \in Calls
  PROVE  Undisturbed(k)'
<1>0. SUFFICES ASSUME IsCurrent(k)', pc'[k] \in {"account"} \cup ResolvingPc
               PROVE  \/ journal' = seen'[k]
                      \/ journal'.op = seen'[k].op /\ journal'.stage \in Evidence
  BY Zenon DEF Undisturbed
<1>1. /\ CallTypes /\ CommittedSendKeepsSlot /\ Undisturbed(k) /\ SlotHeld(Home[k])
      /\ Home[k] \in Clients /\ k # Nobody
      /\ \A i \in Calls : Home[i] = Home[k] /\ (i \in Ops <=> i \notin Resolvers)
  BY CallsAssumption, Zenon DEF OneProcess, SendInv, TypeOK, ShownInv, Calls
<1>2. ASSUME pc'[k] = pc[k], seen'[k] = seen[k]
      PROVE  \/ journal = seen'[k]
             \/ journal.op = seen'[k].op /\ journal.stage \in Evidence
  <2>1. pc[k] # "idle"
    BY <1>0, <1>2 DEF ResolvingPc, EvidencePc
  <2> QED
    BY <1>0, <1>1, <1>2, <2>1, CurrentKept, Zenon DEF Undisturbed
<1>3. ASSUME CallStep(k)
      PROVE  \/ journal' = seen'[k]
             \/ journal'.op = seen'[k].op /\ journal'.stage \in Evidence
  <2>1. ASSUME pc'[k] \notin {"account"} \cup ResolvingPc
        PROVE  FALSE
    BY <1>0, <2>1, Zenon
  <2>2. ASSUME Return(k)
        PROVE  FALSE
    <3>1. pc'[k] \in {"idle", "done"}
      BY <1>1, <2>2, Zenon DEF Return, Goto, CallTypes
    <3> QED
      BY <2>1, <3>1 DEF ResolvingPc, EvidencePc
  <2>3. ASSUME UNCHANGED <<journal, seen>>, IsCurrent(k),
               pc[k] \in {"account"} \cup ResolvingPc
        PROVE  \/ journal' = seen'[k]
               \/ journal'.op = seen'[k].op /\ journal'.stage \in Evidence
    BY <1>1, <2>3, Zenon DEF Undisturbed
  <2>4. CASE StartStep(k)
    <3>1. \/ Return(k)
          \/ pc'[k] \in {"load", "seqno", "prepared", "secret", "commit", "submit",
                         "handoff", "reply", "terminal"}
      BY <1>1, <2>4, Zenon
      DEF StartStep, StartSend, SendStep, StartResolve, NothingPending, JournalLoaded,
          FetchSeqno, ReadSecret, begin_send_commit, PreparedApplied, PreparedConflict,
          PreparedHostError, Submit, ReceiveReply, TerminalApplied,
          TerminalNotRecorded, HandOff, Goto, CallTypes
    <3> QED
      BY <2>1, <2>2, <3>1, Zenon DEF ResolvingPc, EvidencePc
  <2>5. CASE LoadJournal(k) \/ RetryResolution(k)
    BY <1>1, <2>5, Zenon DEF LoadJournal, RetryResolution, Conflict, CallTypes
  <2>6. CASE \/ ReadAccount(k) \/ LookupExecuted(k) \/ LookupPending(k)
             \/ LookupWalletSeqno(k) \/ RecheckExecuted(k)
    BY <2>3, <2>6, Zenon
    DEF ReadAccount, LookupExecuted, LookupPending, LookupWalletSeqno, RecheckExecuted,
        ResolvingPc, EvidencePc
  <2>7. CASE ResolutionApplied(k) \/ AdoptResolution(k) \/ ConcludeForSend(k)
    <3>1. pc'[k] \in {"conclude", "journal_loaded"}
      BY <1>1, <2>7, Zenon
      DEF ResolutionApplied, AdoptResolution, ConcludeForSend, Goto, CallTypes
    <3> QED
      BY <2>1, <3>1, Zenon DEF ResolvingPc, EvidencePc
  <2>8. CASE \/ AbandonResolution(k) \/ ResolutionHostError(k) \/ HostFailure(k)
             \/ ConcludeCall(k) \/ LateResult(k)
    BY <2>2, <2>8, Zenon
    DEF AbandonResolution, ResolutionHostError, HostFailure, ConcludeCall, LateResult
  <2> QED
    BY <1>3, <2>4, <2>5, <2>6, <2>7, <2>8, Zenon DEF CallStep, ResolutionStep
<1>4. ASSUME NEW i \in Calls, CallStep(i), Frame(i), i # k
      PROVE  \/ journal' = seen'[k]
             \/ journal'.op = seen'[k].op /\ journal'.stage \in Evidence
  <2>1. pc'[k] = pc[k] /\ seen'[k] = seen[k] /\ pc[k] # "idle"
    <3>1. pc'[k] = pc[k] /\ seen'[k] = seen[k]
      BY <1>4, Zenon DEF Frame, Still
    <3> QED
      BY <1>0, <3>1 DEF ResolvingPc, EvidencePc
  <2>2. CASE UNCHANGED journal
    BY <1>2, <2>1, <2>2, Zenon
  <2>3. CASE Writes(i)
    <3>1. pc[i] \notin CommittedPc \/ i \notin Ops
      <4>1. SUFFICES ASSUME pc[i] \in CommittedPc, i \in Ops
                     PROVE  FALSE
        BY Zenon
      <4>2. active_send[Home[k]] = i
        BY <1>1, <4>1, Zenon DEF CommittedSendKeepsSlot, IsCurrent
      <4>3. IsCurrent(k)
        BY <2>1, <1>0, CurrentKept, Zenon
      <4> QED
        BY <1>1, <1>4, <4>2, <4>3, CallsAssumption, Zenon DEF IsCurrent, SlotHeld
    <3>2. /\ PendingRecord(journal) /\ journal'.op = journal.op
          /\ journal'.stage \in Evidence
      BY <2>3, <3>1, Zenon DEF Writes, CommittedPc
    <3>3. journal.stage \notin Evidence
      BY <3>2, Zenon DEF PendingRecord, permits_replacement, Evidence, SettledStage
    <3> QED
      BY <1>2, <2>1, <3>2, <3>3, Zenon
  <2> QED
    BY <1>4, <2>2, <2>3, WriteStep, Zenon
<1>5. CASE ClientMove
  <2>1. Still(k) /\ UNCHANGED journal
    BY <1>0, <1>1, <1>5, Zenon DEF ClientMove, IsCurrent
  <2> QED
    BY <1>2, <2>1, Zenon DEF Still
<1>6. ASSUME Still(k), UNCHANGED journal
      PROVE  \/ journal' = seen'[k]
             \/ journal'.op = seen'[k].op /\ journal'.stage \in Evidence
  BY <1>2, <1>6, Zenon DEF Still
<1> QED
  BY <1>3, <1>4, <1>5, <1>6, StepKinds, Zenon

\* A step to the conclusion of a resolution rests on what the call has read or
\* written, or on the evidence it adopts: that is about the message it
\* inspects, because the slot was not given to another one meanwhile.
LEMMA ConclusionStep ==
  ASSUME SendInv, ShownInv, NEW k \in Calls, CallStep(k)
  PROVE  Conclusion(k)'
<1>0. /\ CallTypes /\ Resolving(k) /\ Undisturbed(k) /\ Concluded /\ SeenIsPast
      /\ journal \in JournalRecord /\ seen[k] \in JournalRecord
  BY Zenon DEF SendInv, TypeOK, CallTypes, ShownInv
<1>1. ASSUME pc'[k] # "conclude"
      PROVE  Conclusion(k)'
  BY <1>1, Zenon DEF Conclusion
<1>2. ASSUME Return(k)
      PROVE  Conclusion(k)'
  <2>1. pc'[k] \in {"idle", "done"}
    BY <1>0, <1>2, Zenon DEF Return, Goto, CallTypes
  <2> QED
    BY <1>1, <2>1, Zenon
<1>3. ASSUME NEW v, Decide(k, v), v \in Evidence \/ v = "StillPending",
             UNCHANGED <<seen, prior>>, pc[k] \in EvidencePc
      PROVE  Conclusion(k)'
  <2>1. CASE v \in Evidence
    BY <1>0, <1>1, <1>3, <2>1, Zenon DEF Decide, Goto, CallTypes
  <2>2. CASE v = "StillPending"
    <3>1. verdict'[k] = "StillPending"
      BY <1>0, <1>3, <2>2, Zenon DEF Decide, CallTypes
    <3>2. prior'[k] = seen'[k].op /\ PendingRecord(seen'[k])
      BY <1>0, <1>3, Zenon DEF Resolving, ResolvingPc
    <3> QED
      BY <3>1, <3>2, Zenon DEF Conclusion, Established, PendingRecord
  <2> QED
    BY <1>3, <2>1, <2>2, Zenon
<1>4. ASSUME NEW q, NEW v \in Evidence, UNCHANGED <<msg, chainVars>>,
             prior'[k] = q, verdict'[k] = v, seen'[k].op = q, Established(q, v)
      PROVE  Conclusion(k)'
  <2>1. v # "StillPending"
    BY <1>4, Zenon DEF Evidence
  <2> QED
    BY <1>4, <2>1, Zenon DEF Conclusion, Established, Dead, chainVars
<1>5. CASE StartStep(k)
  <2>1. \/ Return(k)
        \/ pc'[k] \in {"load", "seqno", "prepared", "secret", "commit", "submit",
                       "handoff", "reply", "terminal"}
    BY <1>0, <1>5, Zenon
    DEF StartStep, StartSend, SendStep, StartResolve, NothingPending, JournalLoaded,
        FetchSeqno, ReadSecret, begin_send_commit, PreparedApplied, PreparedConflict,
        PreparedHostError, Submit, ReceiveReply, TerminalApplied,
        TerminalNotRecorded, HandOff, Goto, CallTypes
  <2> QED
    BY <1>1, <1>2, <2>1, Zenon
<1>6. CASE ResolutionStep(k)
  <2>1. CASE \/ LoadJournal(k) \/ ReadAccount(k) \/ RetryResolution(k)
             \/ ConcludeForSend(k)
    BY <1>0, <1>1, <2>1, Zenon
    DEF LoadJournal, ReadAccount, RetryResolution, ConcludeForSend, Conflict, Goto,
        CallTypes
  <2>2. CASE LookupExecuted(k) \/ LookupPending(k)
    <3>1. CASE pc'[k] = "conclude"
      BY <1>0, <1>3, <2>2, <3>1, Zenon
      DEF LookupExecuted, LookupPending, Goto, CallTypes, EvidencePc, Evidence
    <3> QED
      BY <1>1, <3>1, Zenon
  <2>3. CASE LookupWalletSeqno(k)
    <3>1. \/ pc'[k] = "recheck"
          \/ \E v \in Evidence \cup {"StillPending"} :
               Decide(k, v) /\ UNCHANGED <<seen, prior>>
      BY <1>0, <2>3, Zenon DEF LookupWalletSeqno, Goto, CallTypes, Evidence
    <3> QED
      BY <1>1, <1>3, <2>3, <3>1, Zenon DEF LookupWalletSeqno, EvidencePc
  <2>4. CASE RecheckExecuted(k)
    <3>1. \E v \in Evidence : Decide(k, v) /\ UNCHANGED <<seen, prior>>
      BY <2>4, Zenon DEF RecheckExecuted, Evidence
    <3> QED
      BY <1>3, <2>4, <3>1, Zenon DEF RecheckExecuted, EvidencePc
  <2>5. CASE ResolutionApplied(k)
    <3>1. PICK q, v : q = prior[k] /\ v = verdict[k]
      OBVIOUS
    <3>2. v \in Evidence /\ Established(q, v)
      BY <1>0, <2>5, <3>1, Zenon DEF Resolving, ResolvingPc, ResolutionApplied
    <3>3. UNCHANGED <<msg, chainVars>> /\ prior'[k] = q /\ verdict'[k] = v
      BY <2>5, <3>1, Zenon DEF ResolutionApplied
    <3>4. seen'[k].op = q
      BY <1>0, <2>5, <3>1 DEF ResolutionApplied, CompareExchange, CallTypes
    <3> QED
      BY <1>4, <3>2, <3>3, <3>4, Zenon
  <2>6. CASE AdoptResolution(k)
    <3>1. PICK q, v : q = journal.op /\ v = journal.stage
      OBVIOUS
    <3>2. /\ pc[k] = "persist" /\ IsCurrent(k) /\ v \in Evidence
          /\ journal.version # seen[k].version
          /\ UNCHANGED <<msg, chainVars, prior>>
      BY <2>6, <3>1, Zenon DEF AdoptResolution, Conflict
    <3>3. prior[k] = q
      BY <1>0, <3>1, <3>2, Zenon DEF Undisturbed, Resolving, ResolvingPc
    <3>4. journal.version > 0
      BY <1>0, <3>2 DEF SeenIsPast, JournalRecord
    <3>5. Established(q, v)
      BY <1>0, <3>1, <3>4, Zenon DEF Concluded
    <3>6. prior'[k] = q /\ verdict'[k] = v /\ seen'[k].op = q
      BY <1>0, <2>6, <3>1, <3>2, <3>3, Zenon DEF AdoptResolution, CallTypes
    <3> QED
      BY <1>4, <3>2, <3>5, <3>6, Zenon
  <2>7. CASE \/ AbandonResolution(k) \/ ResolutionHostError(k) \/ HostFailure(k)
             \/ ConcludeCall(k) \/ LateResult(k)
    BY <1>2, <2>7, Zenon
    DEF AbandonResolution, ResolutionHostError, HostFailure, ConcludeCall, LateResult
  <2> QED
    BY <1>6, <2>1, <2>2, <2>3, <2>4, <2>5, <2>6, <2>7, Zenon DEF ResolutionStep
<1> QED
  BY <1>5, <1>6, Zenon DEF CallStep

\* What a call is about to show stays true until it shows it.
LEMMA ConclusionKept ==
  ASSUME SendInv, ShownInv, Effects, TypeOK', [Next]_vars, NEW k \in Calls
  PROVE  Conclusion(k)'
<1>1. CASE CallStep(k)
  BY <1>1, ConclusionStep, Zenon
<1>2. CASE pc'[k] # "conclude"
  BY <1>2, Zenon DEF Conclusion
<1>3. CASE Still(k) /\ pc'[k] = "conclude"
  <2>1. PICK q, v : q = prior[k] /\ v = verdict[k]
    OBVIOUS
  <2>2. /\ pc[k] = "conclude" /\ Conclusion(k) /\ Recorded(seen[k])
        /\ seen[k].version > 0
    BY <1>3, Zenon DEF Still, ShownInv, SendInv, Slot, Building
  <2>3. q = seen[k].op /\ q \in Ops /\ pc[q] \in RecordedPc /\ Established(q, v)
    BY <2>1, <2>2 DEF Conclusion, Recorded, NoRecord
  <2>4. Established(q, v)'
    BY <2>3, Stability, Zenon
  <2>5. prior'[k] = q /\ verdict'[k] = v /\ seen'[k] = seen[k]
    BY <1>3, <2>1, Zenon DEF Still
  <2>6. (v = "StillPending" => PendingRecord(seen[k])) /\ seen[k].op = q
    BY <2>1, <2>2, <2>3, Zenon DEF Conclusion
  <2> QED
    BY <2>4, <2>5, <2>6, Zenon DEF Conclusion, Established, Dead, PendingRecord
<1>4. CallStep(k) \/ Still(k) \/ pc'[k] # "conclude"
  <2>1. ASSUME NEW i \in Calls, CallStep(i), Frame(i)
        PROVE  CallStep(k) \/ Still(k)
    BY <2>1, Zenon DEF Frame
  <2>2. ASSUME ClientMove
        PROVE  Still(k) \/ pc'[k] # "conclude"
    BY <2>2, Zenon DEF ClientMove
  <2> QED
    BY <2>1, <2>2, StepKinds, Zenon
<1> QED
  BY <1>1, <1>2, <1>3, <1>4, Zenon

\* In the initial state nothing is shown, held or concluded.
LEMMA ShownInit == Init => ShownInv
<1> SUFFICES ASSUME Init PROVE ShownInv
  OBVIOUS
<1>1. \A c \in Clients : /\ active_send[c] = Nobody /\ active_resolution[c] = Nobody
                         /\ snap[c] = NewSnapshot
  BY Zenon DEF Init
<1>2. \A k \in Calls : pc[k] = "idle" /\ k # Nobody /\ Home[k] \in Clients
  BY CallsAssumption, Zenon DEF Init
<1>3. NewSnapshot.op = Nobody
  BY DEF NewSnapshot
<1>4. \A c \in Clients : SlotHeld(c)
  BY <1>1, Zenon DEF SlotHeld
<1>5. ShownIsTrue
  BY <1>1, <1>3, Zenon DEF ShownIsTrue
<1>6. \A k \in Calls : ~IsCurrent(k)
  BY <1>1, <1>2, Zenon DEF IsCurrent
<1>7. \A k \in Calls : ShownIsOwn(k) /\ Undisturbed(k) /\ Conclusion(k)
  BY <1>2, <1>6, Zenon DEF ShownIsOwn, Undisturbed, Conclusion
<1> QED
  BY <1>4, <1>5, <1>7, Zenon DEF ShownInv

\* Every step keeps what is shown true, when one process has the record open.
LEMMA ShownStep ==
  ASSUME OneProcess
  PROVE  SendInv /\ ShownInv /\ [Next]_vars => ShownInv'
<1> SUFFICES ASSUME SendInv, ShownInv, [Next]_vars
             PROVE  ShownInv'
  OBVIOUS
<1>1. Effects /\ TypeOK'
  BY StepEffects, TypeStep, Zenon
<1>2. \A c \in Clients : SlotHeld(c)'
  BY SlotHeldKept, Zenon
<1>3. ShownIsTrue'
  BY <1>1, ShownTrueKept, Zenon
<1>4. \A k \in Calls : ShownIsOwn(k)' /\ Undisturbed(k)' /\ Conclusion(k)'
  BY <1>1, ShownOwnKept, UndisturbedKept, ConclusionKept, Zenon
<1> QED
  BY <1>2, <1>3, <1>4, Zenon DEF ShownInv

\* SendSnapshot tells the truth: with one process per record, the phase that a
\* client shows for its current or last send is true of the message for good,
\* through cancellation, shutdown, crashes and calls that return late.  Two
\* processes on one record can show a verdict about another message.
THEOREM SnapshotTrue ==
  ASSUME OneProcess
  PROVE  Spec => []SnapshotIsTrue
<1>1. SendInv /\ ShownInv => SnapshotIsTrue
  <2> SUFFICES ASSUME SendInv, ShownInv, NEW c \in Clients, snap[c].op # Nobody
               PROVE  Claim(snap[c].op, snap[c].phase)
    BY Zenon DEF SnapshotIsTrue
  <2>1. PICK k, p : k = snap[c].op /\ p = snap[c].phase
    OBVIOUS
  <2>2. Shown(k, p) /\ executed \subseteq network
    BY <2>1, Zenon DEF ShownInv, ShownIsTrue, SendInv, TypeOK, ChainTypes
  <2>3. Claim(k, p)
    BY <2>2, Zenon DEF Shown, Established, Claim, CannotExecute, Withheld
  <2> QED
    BY <2>1, <2>3, Zenon
<1> QED
  BY <1>1, ShownInit, ShownStep, Invariance, PTL DEF Spec
=============================================================================
