------------------------- MODULE WalletSendEffects --------------------------
(***************************************************************************)
(* Type correctness of WalletSend, and what a step of it may do, whichever *)
(* it is: what it leaves alone, where it takes its call, and the effects   *)
(* that preserve the parts of the invariant.                               *)
(***************************************************************************)
EXTENDS WalletSendInv, TLAPS

-----------------------------------------------------------------------------
(* The reducer *)

\* Each event of the ordered workflow has the one successor that the table
\* of SendStage::transition gives it.
LEMMA Transitions ==
  /\ transition("Validating", "Begin") = "LoadingJournal"
  /\ transition("LoadingJournal", "JournalLoaded") = "FetchingFreshAccount"
  /\ transition("FetchingFreshAccount", "FreshAccountLoaded") = "Authorizing"
  /\ transition("FetchingFreshAccount", "PreparedAccountLoaded") = "Preparing"
  /\ transition("Authorizing", "AuthorizationSucceeded") = "Preparing"
  /\ transition("Preparing", "TransferPrepared") = "PersistingPrepared"
  /\ transition("PersistingPrepared", "PreparedJournalPersisted")
       = "ReadyToSubmit"
  /\ transition("PersistingPrepared", "InternalMessageJournalPersisted")
       = "HandedOff"
  /\ transition("PersistingPrepared", "JournalConflict") = "Failed"
  /\ transition("ReadyToSubmit", "SubmissionStarted") = "Submitting"
  /\ transition("Submitting", "SubmissionSucceeded") = "Submitted"
  /\ transition("Submitting", "SubmissionUnknown") = "SubmissionUnknown"
  /\ transition("Submitting", "SubmissionRejected") = "Failed"
BY Zenon DEF transition, Source, Target, is_terminal, SettledStage

\* The phases that the client publishes without asking the workflow exist.
LEMMA Phases ==
  /\ \A s \in SendStage : public_phase(s) \in Phase
  /\ {"Idle", "Failed", "Cancelled", "SubmissionUnknown"} \subseteq Phase
<1>1. \A s \in SendStage : public_phase(s) \in Phase
  BY Zenon DEF Phase
<1>2. /\ public_phase("Failed") = "Failed"
      /\ public_phase("Cancelled") = "Cancelled"
      /\ public_phase("SubmissionUnknown") = "SubmissionUnknown"
  BY Zenon DEF public_phase
<1>3. {"Failed", "Cancelled", "SubmissionUnknown"} \subseteq SendStage
  BY Zenon DEF SendStage, SettledStage, PendingStage
<1>4. "Idle" \in Phase
  BY Zenon DEF Phase
<1> QED
  BY <1>1, <1>2, <1>3, <1>4, Zenon

-----------------------------------------------------------------------------
(* Types *)

\* A call that returns has well-typed locals.
LEMMA ReturnTypes ==
  ASSUME CallTypes, NEW k \in Calls, Return(k)
  PROVE  CallTypes'
BY DEF CallTypes, Return, Goto, Pc, JournalRecord, NoRecord, Verdict

\* A call that only moves keeps its locals' types.
LEMMA GotoTypes ==
  ASSUME CallTypes, NEW k \in Calls, NEW p \in Pc, Goto(k, p), UNCHANGED locals
  PROVE  CallTypes'
BY Zenon DEF CallTypes, Goto, locals

\* Publishing a snapshot keeps the type of the snapshots.
LEMMA PublishTypes ==
  ASSUME ClientTypes, NEW c \in Clients, NEW op \in Ops \cup {Nobody},
         NEW phase \in Phase, Publish(c, op, phase)
  PROVE  snap' \in [Clients -> Snapshot]
BY Zenon DEF ClientTypes, Publish, Snapshot

\* publish_send_workflow keeps the types of the stage and the client.
LEMMA WorkflowTypes ==
  ASSUME TypeOK, NEW k \in Ops, NEW s \in SendStage, publish_send_workflow(k, s)
  PROVE  ClientTypes' /\ stage' \in [Ops -> SendStage]
<1>1. Home[k] \in Clients /\ public_phase(s) \in Phase
  BY CallsAssumption, Phases, Zenon DEF Calls
<1>2. snap' \in [Clients -> Snapshot]
  BY <1>1, PublishTypes, Zenon DEF publish_send_workflow, TypeOK
<1> QED
  BY <1>2, Zenon DEF publish_send_workflow, TypeOK, ClientTypes

\* fail_send and mark_send_unknown keep the types of the client.
LEMMA ReleaseTypes ==
  ASSUME ClientTypes, NEW k \in Ops, NEW phase \in Phase, ReleaseSend(k, phase)
  PROVE  ClientTypes'
<1>1. Home[k] \in Clients
  BY CallsAssumption, Zenon DEF Calls
<1>2. snap[Home[k]].op \in Ops \cup {Nobody}
  BY <1>1, Zenon DEF ClientTypes, Snapshot
<1>3. snap' \in [Clients -> Snapshot]
  BY <1>1, <1>2, PublishTypes, Zenon DEF ReleaseSend
<1> QED
  BY <1>1, <1>3, Zenon DEF ReleaseSend, EndSend, ClientTypes

\* A failed call, current or not, keeps the types of the client.
LEMMA FailTypes ==
  ASSUME ClientTypes, NEW k \in Calls, FailCall(k)
  PROVE  ClientTypes'
<1>1. CASE ~IsCurrent(k)
  BY <1>1, Zenon DEF FailCall, ClientTypes, clientVars
<1>2. CASE IsCurrent(k) /\ k \in Resolvers
  <2>1. Home[k] \in Clients
    BY CallsAssumption, Zenon
  <2> QED
    BY <1>2, <2>1, Zenon DEF FailCall, EndResolution, ClientTypes
<1>3. CASE IsCurrent(k) /\ k \notin Resolvers
  BY <1>3, ReleaseTypes, Phases, Zenon DEF FailCall, Calls
<1> QED
  BY <1>1, <1>2, <1>3, Zenon

\* compare_exchange_journal stores a well-formed record.
LEMMA ExchangeTypes ==
  ASSUME TypeOK, NEW k \in Calls, NEW op \in Ops, NEW s \in SendStage,
         CompareExchange(seen[k], op, s) \/ UNCHANGED journal
  PROVE  journal' \in JournalRecord
<1>1. CASE UNCHANGED journal
  BY <1>1, Zenon DEF TypeOK
<1>2. CASE CompareExchange(seen[k], op, s)
  <2>1. seen[k].version \in Nat
    BY Zenon DEF TypeOK, CallTypes, JournalRecord
  <2> QED
    BY <1>2, <2>1 DEF CompareExchange, next_journal_version, JournalRecord
<1> QED
  BY <1>1, <1>2, Zenon

\* The count of disruptions stays within its bound.
LEMMA DisruptTypes ==
  ASSUME TypeOK, Disrupt
  PROVE  disruptions' \in 0..MaxDisruptions
BY NumbersAssumption DEF TypeOK, Disrupt

\* A verdict of the resolver is a stage that a record can have.
LEMMA EvidenceStages ==
  Evidence \subseteq SendStage /\ Evidence \subseteq Verdict
BY Zenon DEF Evidence, Verdict, SendStage, SettledStage

\* Claiming a slot (send, resolve_pending) keeps the types.
LEMMA StartTypes ==
  ASSUME SendInv, NEW k \in Calls,
         \/ k \in Ops /\ StartSend(k)
         \/ k \in Resolvers /\ (StartResolve(k) \/ NothingPending(k))
  PROVE  TypeOK'
<1>0. TypeOK /\ Home[k] \in Clients
  BY CallsAssumption, Zenon DEF SendInv
<1>1. CASE k \in Ops /\ StartSend(k)
  <2>1. transition("Validating", "Begin") \in SendStage
    BY Transitions, Zenon DEF SendStage, VolatileStage
  <2>2. snap' \in [Clients -> Snapshot]
    BY <1>0, <1>1, <2>1, Phases, PublishTypes, Zenon DEF StartSend, TypeOK
  <2>3. CallTypes'
    BY <1>0, <1>1, GotoTypes, Zenon DEF StartSend, TypeOK, Pc, EarlyPc
  <2> QED
    BY <1>0, <1>1, <2>1, <2>2, <2>3, Zenon
    DEF StartSend, TypeOK, ClientTypes, ChainTypes, chainVars
<1>2. CASE k \in Resolvers /\ StartResolve(k)
  <2>1. CallTypes'
    BY <1>0, <1>2, GotoTypes, Zenon DEF StartResolve, TypeOK, Pc, EarlyPc
  <2> QED
    BY <1>0, <1>2, <2>1, Zenon
    DEF StartResolve, TypeOK, ClientTypes, ChainTypes, chainVars
<1>3. CASE k \in Resolvers /\ NothingPending(k)
  <2>1. CallTypes'
    BY <1>0, <1>3, ReturnTypes, Zenon DEF NothingPending, TypeOK
  <2>2. snap' \in [Clients -> Snapshot]
    <3>1. CASE journal.version = 0
      BY <1>0, <1>3, <3>1, Zenon DEF NothingPending, TypeOK, ClientTypes
    <3>2. CASE journal.version # 0
      <4>1. journal.op \in Ops /\ journal.stage \in SendStage
        BY <3>2, EvidenceStages
        DEF SendInv, Slot, Recorded, NoRecord, SendStage, SettledStage
      <4>2. public_phase(journal.stage) \in Phase
        BY <4>1, Phases, Zenon
      <4> QED
        BY <1>0, <1>3, <3>2, <4>1, <4>2, PublishTypes, Zenon
        DEF NothingPending, TypeOK
    <3> QED
      BY <3>1, <3>2, Zenon
  <2> QED
    BY <1>0, <1>3, <2>1, <2>2, Zenon
    DEF NothingPending, EndResolution, TypeOK, ClientTypes, ChainTypes, chainVars
<1> QED
  BY <1>1, <1>2, <1>3, Zenon

\* The verdicts and the next suspension points are within their types.
LEMMA EvidenceTypes ==
  ASSUME SendInv, NEW k \in Calls,
         \/ LoadJournal(k) \/ ReadAccount(k) \/ LookupExecuted(k)
         \/ LookupPending(k) \/ LookupWalletSeqno(k) \/ RecheckExecuted(k)
  PROVE  TypeOK'
<1> USE DEF SendInv, TypeOK, ClientTypes, ChainTypes, clientVars, chainVars
<1> DEFINE Rest == /\ UNCHANGED <<journal, clientVars, stage, msg, chainVars>>
                   /\ disruptions' \in 0..MaxDisruptions
<1>1. ASSUME CallTypes', Rest
      PROVE  TypeOK'
  BY <1>1, Zenon
<1>2. ASSUME NEW v \in Verdict, Decide(k, v)
      PROVE  /\ verdict' \in [Calls -> Verdict]
             /\ pc' \in [Calls -> Pc]
  BY <1>2, Zenon DEF Decide, Goto, CallTypes, Pc
<1>3. CASE LoadJournal(k)
  <2>1. Rest
    BY <1>3, Zenon DEF LoadJournal
  <2>2. CallTypes'
    BY <1>3, Zenon DEF LoadJournal, Goto, CallTypes, Pc, EarlyPc, JournalRecord
  <2> QED
    BY <1>1, <2>1, <2>2, Zenon
<1>4. CASE ReadAccount(k)
  <2>1. Rest
    BY <1>4, Zenon DEF ReadAccount
  <2>2. PICK t \in SyncTimes : time' = [time EXCEPT ![k] = t]
    BY <1>4, Zenon DEF ReadAccount
  <2>3. time' \in [Calls -> Nat]
    BY <2>2 DEF SyncTimes, CallTypes
  <2>4. pc' \in [Calls -> Pc]
    BY <1>4, Zenon DEF ReadAccount, Goto, CallTypes, Pc, EarlyPc, EvidencePc
  <2>5. CallTypes'
    BY <1>4, <2>3, <2>4, Zenon DEF ReadAccount, CallTypes
  <2> QED
    BY <1>1, <2>1, <2>5, Zenon
<1>5. CASE LookupExecuted(k)
  <2>1. Rest
    BY <1>5, Zenon DEF LookupExecuted
  <2>2. "Confirmed" \in Verdict
    BY Zenon DEF Verdict, Evidence
  <2>3. CASE Indexed(prior[k])
    <3>1. CallTypes'
      BY <1>5, <1>2, <2>2, <2>3, Zenon DEF LookupExecuted, CallTypes
    <3> QED
      BY <1>1, <2>1, <3>1
  <2>4. CASE ~Indexed(prior[k])
    <3>1. CallTypes'
      BY <1>5, <2>4, Zenon DEF LookupExecuted, Goto, CallTypes, Pc, EvidencePc
    <3> QED
      BY <1>1, <2>1, <3>1
  <2> QED
    BY <2>3, <2>4, Zenon
<1>6. CASE LookupPending(k)
  <2>1. Rest
    BY <1>6, DisruptTypes, Zenon DEF LookupPending
  <2>2. "StillPending" \in Verdict
    BY Zenon DEF Verdict
  <2>3. CASE Decide(k, "StillPending") /\ UNCHANGED observed
    <3>1. CallTypes'
      BY <1>6, <1>2, <2>2, <2>3, Zenon DEF LookupPending, CallTypes
    <3> QED
      BY <1>1, <2>1, <3>1
  <2>4. CASE /\ Goto(k, "wallet_seqno")
             /\ observed' \in {observed \cup {k}, observed \ {k}}
             /\ UNCHANGED verdict
    <3>1. CallTypes'
      BY <1>6, <2>4, Zenon DEF LookupPending, Goto, CallTypes, Pc, EvidencePc
    <3> QED
      BY <1>1, <2>1, <3>1
  <2> QED
    BY <1>6, <2>3, <2>4, Zenon DEF LookupPending
<1>7. CASE LookupWalletSeqno(k)
  <2>1. Rest
    BY <1>7, Zenon DEF LookupWalletSeqno
  <2>2. {"SequenceNumberConsumed", "Expired", "StillPending"} \subseteq Verdict
    BY Zenon DEF Verdict, Evidence
  <2>3. CASE \E v \in Verdict : Decide(k, v)
    <3>1. CallTypes'
      BY <1>7, <1>2, <2>3, Zenon DEF LookupWalletSeqno, CallTypes
    <3> QED
      BY <1>1, <2>1, <3>1
  <2>4. CASE Goto(k, "recheck") /\ UNCHANGED verdict
    <3>1. CallTypes'
      BY <1>7, <2>4, Zenon
      DEF LookupWalletSeqno, Goto, CallTypes, Pc, EvidencePc
    <3> QED
      BY <1>1, <2>1, <3>1
  <2> QED
    BY <1>7, <2>2, <2>3, <2>4, Zenon DEF LookupWalletSeqno
<1>8. CASE RecheckExecuted(k)
  <2>1. Rest
    BY <1>8, Zenon DEF RecheckExecuted
  <2>2. {"Confirmed", "Replaced"} \subseteq Verdict
    BY Zenon DEF Verdict, Evidence
  <2>3. CallTypes'
    BY <1>8, <1>2, <2>2, Zenon DEF RecheckExecuted, CallTypes
  <2> QED
    BY <1>1, <2>1, <2>3
<1> QED
  BY <1>3, <1>4, <1>5, <1>6, <1>7, <1>8, Zenon

\* Persisting and publishing a resolution keeps the types.
LEMMA ConclusionTypes ==
  ASSUME SendInv, NEW k \in Calls,
         \/ ResolutionApplied(k) \/ AdoptResolution(k) \/ RetryResolution(k)
         \/ AbandonResolution(k) \/ ResolutionHostError(k)
         \/ ConcludeForSend(k) \/ ConcludeCall(k)
         \/ HostFailure(k) \/ LateResult(k)
  PROVE  TypeOK'
<1> USE DEF chainVars
<1>0. /\ TypeOK /\ ClientTypes /\ CallTypes /\ ChainTypes
      /\ Home[k] \in Clients
  BY CallsAssumption, Zenon DEF SendInv, TypeOK
<1>1. ASSUME pc[k] = "persist"
      PROVE  prior[k] \in Ops /\ verdict[k] \in Evidence
  BY <1>1
  DEF SendInv, Resolving, ResolvingPc, Slot, Recorded, PendingRecord, NoRecord
<1>2. CASE ResolutionApplied(k)
  <2>1. journal' \in JournalRecord
    BY <1>0, <1>1, <1>2, EvidenceStages, ExchangeTypes, Zenon
    DEF ResolutionApplied
  <2>2. CallTypes'
    BY <1>0, <1>2, <2>1, Zenon DEF ResolutionApplied, Goto, CallTypes, Pc
  <2> QED
    BY <1>0, <1>2, <2>1, <2>2, Zenon
    DEF ResolutionApplied, TypeOK, ClientTypes, ChainTypes, clientVars
<1>3. CASE AdoptResolution(k)
  <2>1. journal \in JournalRecord /\ journal.stage \in Verdict
    BY <1>0, <1>3, EvidenceStages, Zenon DEF AdoptResolution, TypeOK
  <2>2. CallTypes'
    BY <1>0, <1>3, <2>1, Zenon DEF AdoptResolution, Goto, CallTypes, Pc
  <2> QED
    BY <1>0, <1>3, <2>2, Zenon
    DEF AdoptResolution, Conflict, TypeOK, ClientTypes, ChainTypes, clientVars
<1>4. CASE RetryResolution(k)
  <2>1. journal \in JournalRecord
    BY <1>0, Zenon DEF TypeOK
  <2>2. CallTypes'
    BY <1>0, <1>4, <2>1 DEF RetryResolution, CallTypes
  <2> QED
    BY <1>0, <1>4, <2>2, Zenon
    DEF RetryResolution, Conflict, TypeOK, ClientTypes, ChainTypes, clientVars
<1>5. CASE AbandonResolution(k)
  <2>1. CallTypes' /\ ClientTypes'
    BY <1>0, <1>5, ReturnTypes, FailTypes, Zenon DEF AbandonResolution
  <2> QED
    BY <1>0, <1>5, <2>1, Zenon
    DEF AbandonResolution, Conflict, TypeOK, ChainTypes
<1>6. CASE ResolutionHostError(k)
  <2>1. CallTypes' /\ ClientTypes'
    BY <1>0, <1>6, ReturnTypes, FailTypes, Zenon DEF ResolutionHostError
  <2>2. disruptions' \in 0..MaxDisruptions
    BY <1>0, <1>6, DisruptTypes, Zenon
    DEF ResolutionHostError, AmbiguousExchange
  <2>3. journal' \in JournalRecord
    BY <1>0, <1>1, <1>6, EvidenceStages, ExchangeTypes, Zenon
    DEF ResolutionHostError, AmbiguousExchange
  <2> QED
    BY <1>0, <1>6, <2>1, <2>2, <2>3, Zenon
    DEF ResolutionHostError, TypeOK, ChainTypes
<1>7. ASSUME pc[k] = "conclude", PublishPrior(k)
      PROVE  snap' \in [Clients -> Snapshot]
  <2>1. (IF verdict[k] = "StillPending" THEN seen[k].stage ELSE verdict[k])
           \in SendStage
    BY <1>0, <1>7, EvidenceStages
    DEF SendInv, Building, Slot, Recorded, NoRecord, SendStage, SettledStage,
        CallTypes, Verdict
  <2>2. prior[k] \in Ops \cup {Nobody}
    BY <1>0, Zenon DEF CallTypes
  <2> QED
    BY <1>0, <1>7, <2>1, <2>2, Phases, PublishTypes, Zenon DEF PublishPrior
<1>8. CASE ConcludeForSend(k)
  <2>1. CallTypes'
    BY <1>0, <1>8, GotoTypes, Zenon DEF ConcludeForSend, Pc, EarlyPc
  <2> QED
    BY <1>0, <1>7, <1>8, <2>1, Zenon
    DEF ConcludeForSend, TypeOK, ClientTypes, ChainTypes
<1>9. CASE ConcludeCall(k)
  <2>1. CallTypes'
    BY <1>0, <1>9, ReturnTypes, Zenon DEF ConcludeCall
  <2>2. ClientTypes'
    BY <1>0, <1>7, <1>9, Zenon
    DEF ConcludeCall, EndSend, EndResolution, ClientTypes
  <2> QED
    BY <1>0, <1>9, <2>1, <2>2, Zenon DEF ConcludeCall, TypeOK, ChainTypes
<1>10. CASE HostFailure(k)
  <2>1. CallTypes' /\ ClientTypes'
    BY <1>0, <1>10, ReturnTypes, FailTypes, Zenon DEF HostFailure
  <2> QED
    BY <1>0, <1>10, <2>1, DisruptTypes, Zenon
    DEF HostFailure, TypeOK, ChainTypes
<1>11. CASE LateResult(k)
  <2>1. CallTypes'
    BY <1>0, <1>11, ReturnTypes, Zenon DEF LateResult
  <2> QED
    BY <1>0, <1>11, <2>1, Zenon
    DEF LateResult, TypeOK, ClientTypes, ChainTypes, clientVars
<1> QED
  BY <1>2, <1>3, <1>4, <1>5, <1>6, <1>8, <1>9, <1>10, <1>11, Zenon

-----------------------------------------------------------------------------
(* The steps of a send, of the clients and of the chain, and every step *)

\* Each event is applied at a stage that accepts it.
LEMMA SendTypes ==
  ASSUME SendInv, NEW k \in Ops, SendStep(k)
  PROVE  TypeOK'
<1> USE DEF chainVars
<1>0. /\ TypeOK /\ ClientTypes /\ CallTypes /\ ChainTypes
      /\ k \in Calls /\ Home[k] \in Clients
      /\ stage[k] \in SendStage
  BY CallsAssumption, Zenon DEF SendInv, TypeOK, Calls
<1>s. StageOf(k)
  BY Zenon DEF SendInv, Control, ControlOf, Calls
<1>1. CASE JournalLoaded(k)
  <2>1. transition(stage[k], "JournalLoaded") \in SendStage
    BY <1>1, <1>s, Transitions, Zenon
    DEF JournalLoaded, StageOf, SendStage, VolatileStage
  <2>2. ClientTypes' /\ stage' \in [Ops -> SendStage]
    BY <1>0, <1>1, <2>1, WorkflowTypes, Zenon DEF JournalLoaded
  <2>3. pc' \in [Calls -> Pc]
    BY <1>0, <1>1, Zenon DEF JournalLoaded, Goto, CallTypes, Pc, EarlyPc
  <2>4. prior' \in [Calls -> Ops \cup {Nobody}] /\ observed' \subseteq Calls
    BY <1>0, <1>1, Zenon DEF JournalLoaded, CallTypes
  <2>5. verdict' \in [Calls -> Verdict] /\ tries' \in [Calls -> 1..3]
    BY <1>0, <1>1 DEF JournalLoaded, CallTypes, Verdict
  <2>6. CallTypes'
    BY <1>0, <1>1, <2>3, <2>4, <2>5, Zenon DEF JournalLoaded, CallTypes
  <2> QED
    BY <1>0, <1>1, <2>2, <2>6, Zenon DEF JournalLoaded, TypeOK, ChainTypes
<1>2. CASE FetchSeqno(k)
  <2>1. /\ transition(stage[k], "FreshAccountLoaded") \in SendStage
        /\ transition(transition(stage[k], "PreparedAccountLoaded"),
                      "TransferPrepared") \in SendStage
    BY <1>2, <1>s, Transitions, Zenon
    DEF FetchSeqno, StageOf, SendStage, VolatileStage
  <2>2. ClientTypes' /\ stage' \in [Ops -> SendStage]
    BY <1>0, <1>2, <2>1, WorkflowTypes, Zenon DEF FetchSeqno
  <2>3. CallTypes'
    BY <1>0, <1>2, Zenon DEF FetchSeqno, Goto, CallTypes, Pc, EarlyPc
  <2>4. PICK s \in 0..seqno, e \in SendExpirations(time[k]) :
          msg' = [msg EXCEPT ![k] = [seqno |-> s, validUntil |-> e]]
    BY <1>2, Zenon DEF FetchSeqno
  <2>5. time[k] \in Nat /\ seqno \in Nat
    <3>1. time[k] \in Nat
      BY <1>0, Zenon DEF CallTypes
    <3>2. seqno \in Nat
      BY <1>0, NumbersAssumption DEF ChainTypes
    <3> QED
      BY <3>1, <3>2, Zenon
  <2>6. s \in Nat /\ e \in Nat
    BY <2>5, NumbersAssumption DEF SendExpirations
  <2>7. msg' \in [Ops -> Message]
    BY <1>0, <2>4, <2>6, Zenon DEF TypeOK, Message
  <2> QED
    BY <1>0, <1>2, <2>2, <2>3, <2>7, Zenon DEF FetchSeqno, TypeOK, ChainTypes
<1>3. CASE ReadSecret(k)
  <2>1. transition(transition(stage[k], "AuthorizationSucceeded"),
                   "TransferPrepared") \in SendStage
    BY <1>3, <1>s, Transitions, Zenon
    DEF ReadSecret, StageOf, SendStage, VolatileStage
  <2>2. ClientTypes' /\ stage' \in [Ops -> SendStage]
    BY <1>0, <1>3, <2>1, WorkflowTypes, Zenon DEF ReadSecret
  <2>3. CallTypes'
    BY <1>0, <1>3, GotoTypes, Zenon DEF ReadSecret, Pc, EarlyPc
  <2> QED
    BY <1>0, <1>3, <2>2, <2>3, Zenon DEF ReadSecret, TypeOK, ChainTypes
<1>4. CASE begin_send_commit(k)
  <2>1. CallTypes'
    BY <1>0, <1>4, GotoTypes, Zenon DEF begin_send_commit, Pc, CommittedPc
  <2> QED
    BY <1>0, <1>4, <2>1, Zenon
    DEF begin_send_commit, TypeOK, ClientTypes, ChainTypes
<1>5. ASSUME pc[k] = "commit"
      PROVE  PreparedStage(k) \in SendStage
  BY <1>5, <1>s, Zenon
  DEF StageOf, PreparedStage, durable_stage, SendStage, PendingStage
<1>6. CASE PreparedApplied(k)
  <2>1. journal' \in JournalRecord
    BY <1>0, <1>5, <1>6, ExchangeTypes, Zenon DEF PreparedApplied
  <2>2. CallTypes'
    BY <1>0, <1>6, <2>1, Zenon
    DEF PreparedApplied, Goto, CallTypes, Pc, CommittedPc
  <2>3. stage' \in [Ops -> SendStage]
    BY <1>0, <1>6, <1>s, Transitions, Zenon
    DEF PreparedApplied, StageOf, TypeOK, SendStage, PendingStage
  <2> QED
    BY <1>0, <1>6, <2>1, <2>2, <2>3, Zenon
    DEF PreparedApplied, TypeOK, ClientTypes, ChainTypes, clientVars
<1>7. CASE PreparedConflict(k)
  <2>1. CallTypes' /\ ClientTypes'
    BY <1>0, <1>7, ReturnTypes, ReleaseTypes, Phases, Zenon DEF PreparedConflict
  <2>2. stage' \in [Ops -> SendStage]
    BY <1>0, <1>7, <1>s, Transitions, Zenon
    DEF PreparedConflict, StageOf, TypeOK, SendStage, SettledStage
  <2> QED
    BY <1>0, <1>7, <2>1, <2>2, Zenon DEF PreparedConflict, TypeOK, ChainTypes
<1>8. CASE PreparedHostError(k)
  <2>1. CallTypes' /\ ClientTypes'
    BY <1>0, <1>8, ReturnTypes, ReleaseTypes, Phases, Zenon
    DEF PreparedHostError
  <2>2. journal' \in JournalRecord /\ disruptions' \in 0..MaxDisruptions
    BY <1>0, <1>5, <1>8, ExchangeTypes, DisruptTypes, Zenon
    DEF PreparedHostError, AmbiguousExchange
  <2> QED
    BY <1>0, <1>8, <2>1, <2>2, Zenon DEF PreparedHostError, TypeOK, ChainTypes
<1>9. CASE Submit(k)
  <2>1. transition(stage[k], "SubmissionStarted") \in SendStage
    BY <1>9, <1>s, Transitions, Zenon
    DEF Submit, StageOf, SendStage, PendingStage
  <2>2. ClientTypes' /\ stage' \in [Ops -> SendStage]
    BY <1>0, <1>9, <2>1, WorkflowTypes, Zenon DEF Submit
  <2>3. CallTypes'
    BY <1>0, <1>9, GotoTypes, Zenon DEF Submit, Pc, CommittedPc
  <2> QED
    BY <1>0, <1>9, <2>2, <2>3, Zenon DEF Submit, TypeOK, ChainTypes
<1>10. CASE ReceiveReply(k)
  <2>1. PICK e \in Replies(k) : publish_send_workflow(k, transition(stage[k], e))
    BY <1>10, Zenon DEF ReceiveReply
  <2>2. e \in {"SubmissionUnknown", "SubmissionSucceeded", "SubmissionRejected"}
    BY Zenon DEF Replies
  <2>3. transition(stage[k], e) \in SendStage
    BY <1>10, <1>s, <2>2, Transitions, Zenon
    DEF ReceiveReply, StageOf, SendStage, PendingStage, SettledStage
  <2>4. ClientTypes' /\ stage' \in [Ops -> SendStage]
    BY <1>0, <2>1, <2>3, WorkflowTypes, Zenon
  <2>5. CallTypes'
    BY <1>0, <1>10, GotoTypes, Zenon DEF ReceiveReply, Pc, CommittedPc
  <2> QED
    BY <1>0, <1>10, <2>4, <2>5, Zenon DEF ReceiveReply, TypeOK, ChainTypes
<1>11. CASE TerminalApplied(k)
  <2>1. CallTypes' /\ ClientTypes'
    BY <1>0, <1>11, ReturnTypes, ReleaseTypes, Phases, Zenon DEF TerminalApplied
  <2>2. journal' \in JournalRecord
    BY <1>0, <1>11, ExchangeTypes, Zenon DEF TerminalApplied
  <2> QED
    BY <1>0, <1>11, <2>1, <2>2, Zenon DEF TerminalApplied, TypeOK, ChainTypes
<1>12. CASE TerminalNotRecorded(k)
  <2>1. CallTypes' /\ ClientTypes'
    BY <1>0, <1>12, ReturnTypes, ReleaseTypes, Phases, Zenon
    DEF TerminalNotRecorded
  <2>2. journal' \in JournalRecord
    BY <1>0, <1>12, ExchangeTypes, Zenon
    DEF TerminalNotRecorded, AmbiguousExchange
  <2>3. disruptions' \in 0..MaxDisruptions
    BY <1>0, <1>12, DisruptTypes, Zenon
    DEF TerminalNotRecorded, AmbiguousExchange, TypeOK
  <2> QED
    BY <1>0, <1>12, <2>1, <2>2, <2>3, Zenon
    DEF TerminalNotRecorded, TypeOK, ChainTypes
<1>13. CASE HandOff(k)
  <2>1. CallTypes' /\ ClientTypes'
    BY <1>0, <1>13, ReturnTypes, ReleaseTypes, Phases, Zenon DEF HandOff
  <2> QED
    BY <1>0, <1>13, <2>1, Zenon DEF HandOff, TypeOK, ChainTypes
<1> QED
  BY <1>1, <1>2, <1>3, <1>4, <1>6, <1>7, <1>8, <1>9, <1>10, <1>11, <1>12, <1>13, Zenon
  DEF SendStep

\* cancel_send, shutdown, reopening and a crash keep the types.
LEMMA ClientStepTypes ==
  ASSUME SendInv, NEW c \in Clients, ClientStep(c)
  PROVE  TypeOK'
<1> USE DEF chainVars
<1>0. TypeOK /\ ClientTypes /\ CallTypes /\ ChainTypes
  BY Zenon DEF SendInv, TypeOK
<1>1. ASSUME NEW op \in Ops \cup {Nobody},
             \/ Publish(c, op, "Cancelled")
             \/ Publish(c, op, "Idle")
      PROVE  snap' \in [Clients -> Snapshot]
  BY <1>0, <1>1, Phases, PublishTypes, Zenon
<1>2. active_send[c] \in Ops \cup {Nobody}
  BY <1>0, Zenon DEF ClientTypes
<1>3. CASE cancel_send(c)
  <2>1. snap' \in [Clients -> Snapshot]
    BY <1>1, <1>2, <1>3, Zenon DEF cancel_send, CancelActive
  <2> QED
    BY <1>0, <1>3, <2>1, Zenon
    DEF cancel_send, CancelActive, EndSend, TypeOK, ClientTypes, CallTypes,
        ChainTypes, locals
<1>4. ASSUME prepare_shutdown(c)
      PROVE  ClientTypes'
  <2>1. snap' \in [Clients -> Snapshot]
    BY <1>0, <1>1, <1>2, <1>4, Zenon DEF prepare_shutdown, ClientTypes
  <2> QED
    BY <1>0, <1>4, <2>1, Zenon
    DEF prepare_shutdown, EndSend, EndResolution, ClientTypes
<1>5. CASE BeginShutdown(c) \/ FinishShutdown(c)
  <2>1. ClientTypes'
    <3>1. CASE prepare_shutdown(c)
      BY <1>4, <3>1, Zenon
    <3>2. CASE /\ mode' = [mode EXCEPT ![c] = "closing"]
               /\ UNCHANGED <<active_send, active_resolution,
                              send_commit_started, snap>>
      BY <1>0, <3>2, Zenon DEF ClientTypes
    <3> QED
      BY <1>5, <3>1, <3>2, Zenon DEF BeginShutdown, FinishShutdown
  <2>2. disruptions' \in 0..MaxDisruptions
    <3>1. Disrupt \/ UNCHANGED disruptions
      BY <1>5, Zenon DEF BeginShutdown, FinishShutdown
    <3> QED
      BY <1>0, <3>1, DisruptTypes, Zenon DEF TypeOK
  <2>3. UNCHANGED <<journal, pc, stage, locals, msg, chainVars>>
    BY <1>5, Zenon DEF BeginShutdown, FinishShutdown
  <2> QED
    BY <1>0, <2>1, <2>2, <2>3, Zenon DEF TypeOK, CallTypes, ChainTypes, locals
<1>6. ASSUME NewState(c)
      PROVE  ClientTypes'
  <2>1. snap' \in [Clients -> Snapshot]
    BY <1>1, <1>6, Zenon DEF NewState
  <2> QED
    BY <1>0, <1>6, <2>1, Zenon DEF NewState, EndSend, EndResolution, ClientTypes
<1>7. CASE Reopen(c)
  BY <1>0, <1>6, <1>7, Zenon DEF Reopen, TypeOK, CallTypes, ChainTypes, locals
<1>8. CASE Crash(c)
  <2>1. CallTypes'
    BY <1>0, <1>8 DEF Crash, CallTypes, Pc, JournalRecord, NoRecord, Verdict
  <2> QED
    BY <1>0, <1>6, <1>8, <2>1, DisruptTypes, Zenon DEF Crash, TypeOK, ChainTypes
<1> QED
  BY <1>3, <1>5, <1>7, <1>8, Zenon DEF ClientStep

\* Transactions, indexing and time keep the types.
LEMMA ChainStepTypes ==
  ASSUME SendInv, ChainStep
  PROVE  TypeOK'
<1> USE NumbersAssumption
    DEF SendInv, TypeOK, ClientTypes, CallTypes, clientVars, locals
<1>1. ASSUME Commit PROVE /\ seqno' \in 0..MaxSeqno
                          /\ blockTime' \in [0..(MaxSeqno - 1) -> Nat]
  BY <1>1 DEF Commit, ChainTypes
<1>2. ASSUME NEW k \in Ops, Execute(k) PROVE TypeOK'
  BY <1>1, <1>2 DEF Execute, Commit, ChainTypes
<1>3. CASE ExecuteForeign
  BY <1>1, <1>3 DEF ExecuteForeign, Commit, ChainTypes
<1>4. CASE Index
  BY <1>4 DEF Index, ChainTypes
<1>5. CASE Tick
  BY <1>5 DEF Tick, ChainTypes
<1> QED
  BY <1>2, <1>3, <1>4, <1>5, Zenon DEF ChainStep

\* Every step keeps the variables within their types.  The workflow stages
\* and the recorded resolution need more than TypeOK: the event applied at a
\* point of the future is one its stage accepts (Control), and the verdict
\* that is persisted is evidence (Resolving).
LEMMA TypeStep ==
  ASSUME SendInv, [Next]_vars
  PROVE  TypeOK'
<1>1. CASE UNCHANGED vars
  BY <1>1, Zenon DEF SendInv, TypeOK, ClientTypes, CallTypes, ChainTypes, vars,
     clientVars, locals, chainVars
<1>2. ASSUME NEW k \in Ops, StartSend(k) \/ SendStep(k) PROVE TypeOK'
  BY <1>2, StartTypes, SendTypes, Zenon DEF Calls
<1>3. ASSUME NEW k \in Resolvers, StartResolve(k) \/ NothingPending(k)
      PROVE  TypeOK'
  BY <1>3, StartTypes, Zenon DEF Calls
<1>4. ASSUME NEW k \in Calls, ResolutionStep(k) PROVE TypeOK'
  BY <1>4, EvidenceTypes, ConclusionTypes, Zenon DEF ResolutionStep
<1>5. ASSUME NEW c \in Clients, ClientStep(c) PROVE TypeOK'
  BY <1>5, ClientStepTypes, Zenon
<1>6. CASE ChainStep
  BY <1>6, ChainStepTypes, Zenon
<1> QED
  BY <1>1, <1>2, <1>3, <1>4, <1>5, <1>6, Zenon DEF Next

-----------------------------------------------------------------------------
(* What a step of one call leaves alone *)

StartStep(k) ==
  \/ k \in Ops /\ (StartSend(k) \/ SendStep(k))
  \/ k \in Resolvers /\ (StartResolve(k) \/ NothingPending(k))

CallStep(k) == StartStep(k) \/ ResolutionStep(k)

Still(j) ==
  /\ pc'[j] = pc[j]
  /\ seen'[j] = seen[j]
  /\ prior'[j] = prior[j]
  /\ time'[j] = time[j]
  /\ verdict'[j] = verdict[j]
  /\ tries'[j] = tries[j]

\* The other calls keep their place and their locals, and only the call's own
\* message can be signed or leave the engine.
Frame(k) ==
  /\ \A j \in Calls \ {k} : Still(j)
  /\ \A j \in Ops \ {k} : stage'[j] = stage[j] /\ msg'[j] = msg[j]
  /\ network \subseteq network' /\ network' \subseteq network \cup {k}
  /\ UNCHANGED <<executed, seqno, blockTime, indexed, now>>

\* A future that completes leaves the other futures alone.
LEMMA ReturnFrame ==
  ASSUME CallTypes, NEW k \in Calls, Return(k)
  PROVE  \A j \in Calls \ {k} : Still(j)
BY Zenon DEF Return, Goto, Still, CallTypes

\* A step of one call leaves the locals of every other call alone.
LEMMA FrameLemma ==
  ASSUME TypeOK, NEW k \in Calls, CallStep(k)
  PROVE  Frame(k)
<1> USE DEF TypeOK, CallTypes, Frame, Still, chainVars, locals
<1>1. CASE k \in Ops /\ StartSend(k)
  BY <1>1, Zenon DEF StartSend, Goto
<1>2. CASE k \in Resolvers /\ StartResolve(k)
  BY <1>2, Zenon DEF StartResolve, Goto
<1>3. CASE k \in Resolvers /\ NothingPending(k)
  BY <1>3, ReturnFrame, Zenon DEF NothingPending
<1>4. CASE k \in Ops /\ SendStep(k)
  <2>1. CASE JournalLoaded(k)
    BY <1>4, <2>1, Zenon DEF JournalLoaded, Goto, publish_send_workflow
  <2>2. CASE FetchSeqno(k)
    BY <1>4, <2>2, Zenon DEF FetchSeqno, Goto, publish_send_workflow
  <2>3. CASE ReadSecret(k)
    BY <1>4, <2>3, Zenon DEF ReadSecret, Goto, publish_send_workflow
  <2>4. CASE begin_send_commit(k)
    BY <1>4, <2>4, Zenon DEF begin_send_commit, Goto
  <2>5. CASE PreparedApplied(k)
    BY <1>4, <2>5, Zenon DEF PreparedApplied, Goto
  <2>6. CASE PreparedConflict(k)
    BY <1>4, <2>6, ReturnFrame, Zenon DEF PreparedConflict
  <2>7. CASE PreparedHostError(k)
    BY <1>4, <2>7, ReturnFrame, Zenon DEF PreparedHostError
  <2>8. CASE Submit(k)
    BY <1>4, <2>8, Zenon DEF Submit, Goto, publish_send_workflow
  <2>9. CASE ReceiveReply(k)
    BY <1>4, <2>9, Zenon DEF ReceiveReply, Goto, publish_send_workflow
  <2>10. CASE TerminalApplied(k)
    BY <1>4, <2>10, ReturnFrame, Zenon DEF TerminalApplied
  <2>11. CASE TerminalNotRecorded(k)
    BY <1>4, <2>11, ReturnFrame, Zenon DEF TerminalNotRecorded
  <2>12. CASE HandOff(k)
    BY <1>4, <2>12, ReturnFrame, Zenon DEF HandOff
  <2> HIDE DEF TypeOK, CallTypes, Frame, Still, chainVars, locals
  <2> QED
    BY <1>4, <2>1, <2>2, <2>3, <2>4, <2>5, <2>6, <2>7, <2>8, <2>9, <2>10,
       <2>11, <2>12, Zenon DEF SendStep
<1>5. CASE ResolutionStep(k)
  <2>1. CASE LoadJournal(k)
    BY <2>1, Zenon DEF LoadJournal, Goto
  <2>2. CASE ReadAccount(k)
    BY <2>2, Zenon DEF ReadAccount, Goto
  <2>3. CASE LookupExecuted(k)
    BY <2>3, Zenon DEF LookupExecuted, Decide, Goto
  <2>4. CASE LookupPending(k)
    BY <2>4, Zenon DEF LookupPending, Decide, Goto
  <2>5. CASE LookupWalletSeqno(k)
    BY <2>5, Zenon DEF LookupWalletSeqno, Decide, Goto
  <2>6. CASE RecheckExecuted(k)
    BY <2>6, Zenon DEF RecheckExecuted, Decide, Goto
  <2>7. CASE ResolutionApplied(k)
    BY <2>7, Zenon DEF ResolutionApplied, Goto
  <2>8. CASE AdoptResolution(k)
    BY <2>8, Zenon DEF AdoptResolution, Conflict, Goto
  <2>9. CASE RetryResolution(k)
    BY <2>9, Zenon DEF RetryResolution, Conflict
  <2>10. CASE AbandonResolution(k)
    BY <2>10, ReturnFrame, Zenon DEF AbandonResolution, Conflict
  <2>11. CASE ResolutionHostError(k)
    BY <2>11, ReturnFrame, Zenon DEF ResolutionHostError
  <2>12. CASE ConcludeForSend(k)
    BY <2>12, Zenon DEF ConcludeForSend, Goto
  <2>13. CASE ConcludeCall(k)
    BY <2>13, ReturnFrame, Zenon DEF ConcludeCall
  <2>14. CASE HostFailure(k)
    BY <2>14, ReturnFrame, Zenon DEF HostFailure
  <2>15. CASE LateResult(k)
    BY <2>15, ReturnFrame, Zenon DEF LateResult
  <2> HIDE DEF TypeOK, CallTypes, Frame, Still, chainVars, locals
  <2> QED
    BY <1>5, <2>1, <2>2, <2>3, <2>4, <2>5, <2>6, <2>7, <2>8, <2>9, <2>10,
       <2>11, <2>12, <2>13, <2>14, <2>15, Zenon DEF ResolutionStep
<1> HIDE DEF TypeOK, CallTypes, Frame, Still, chainVars, locals
<1> QED
  BY <1>1, <1>2, <1>3, <1>4, <1>5, Zenon DEF CallStep, StartStep

-----------------------------------------------------------------------------
(* Where a step takes the call itself *)

\* A message that is recorded stays recorded and unchanged; it leaves the
\* engine only on the way from its record to its reply or its hand-off.
Moves(k) ==
  /\ pc[k] \in RecordedPc => pc'[k] \in RecordedPc /\ msg'[k] = msg[k]
  /\ pc[k] \in {"reply", "terminal", "done"} =>
       pc'[k] \in {"reply", "terminal", "done"}
  /\ pc[k] = "done" => pc'[k] = "done"
  /\ k \in network' \ network =>
       pc[k] \in {"submit", "handoff"} /\ pc'[k] \in {"reply", "done"}
  /\ pc'[k] = "terminal" =>
       \/ pc[k] = "terminal" /\ stage'[k] = stage[k]
       \/ pc[k] = "reply" /\ (stage'[k] = "Failed" => k \notin network)
  /\ pc'[k] \in {"submit", "handoff"} =>
       \/ pc'[k] = pc[k]
       \/ journal'.op = k /\ PendingRecord(journal')

\* A future that completes is where a call may move to.
LEMMA ReturnMoves ==
  ASSUME CallTypes, NEW k \in Calls, Return(k)
  PROVE  /\ ControlOf(k)'
         /\ k \in Ops => pc'[k] = "done"
BY CallsAssumption, Zenon
DEF Return, Goto, CallTypes, ControlOf, StageOf, ResolverPc, ResolvingPc,
    EvidencePc, Calls

\* The events of an operation and the points at which its future suspends
\* stay in step.
LEMMA SendMoves ==
  ASSUME SendInv, NEW k \in Ops, StartSend(k) \/ SendStep(k)
  PROVE  ControlOf(k)' /\ Moves(k)
<1>0. /\ k \in Calls /\ k \notin Resolvers
      /\ TypeOK /\ CallTypes
      /\ ControlOf(k)
  BY CallsAssumption, Zenon DEF SendInv, TypeOK, Control, Calls
<1> USE <1>0 DEF TypeOK, CallTypes, chainVars, Goto, publish_send_workflow,
    ControlOf, StageOf, ResolvingPc, EvidencePc, Moves, RecordedPc
<1>1. CASE StartSend(k)
  BY <1>1, Transitions, Zenon DEF StartSend
<1>2. CASE JournalLoaded(k)
  BY <1>2, Transitions, Zenon DEF JournalLoaded
<1>3. CASE FetchSeqno(k)
  BY <1>3, Transitions DEF FetchSeqno
<1>4. CASE ReadSecret(k)
  BY <1>4, Transitions DEF ReadSecret
<1>5. CASE begin_send_commit(k)
  BY <1>5, Zenon DEF begin_send_commit
<1>6. CASE PreparedApplied(k)
  <2>1. k \notin Signs => k \in Sends
    BY Zenon DEF Ops
  <2>2. journal'.op = k /\ PendingRecord(journal')
    <3>1. PreparedStage(k) \in {"ReadyToSubmit", "HandedOff"}
      BY <1>6, Zenon DEF PreparedApplied, PreparedStage, durable_stage
    <3>2. seen[k].version \in Nat
      BY Zenon DEF JournalRecord
    <3> QED
      BY <1>6, <3>1, <3>2
      DEF PreparedApplied, CompareExchange, next_journal_version, PendingRecord,
          permits_replacement, SettledStage
  <2> QED
    BY <1>6, <2>1, <2>2, Transitions, Zenon DEF PreparedApplied
<1>7. CASE PreparedConflict(k)
  BY <1>7, ReturnMoves, Zenon DEF PreparedConflict
<1>8. CASE PreparedHostError(k)
  BY <1>8, ReturnMoves, Zenon DEF PreparedHostError
<1>9. CASE Submit(k)
  BY <1>9, Transitions, Zenon DEF Submit
<1>10. CASE ReceiveReply(k)
  <2>1. PICK e \in Replies(k) : publish_send_workflow(k, transition(stage[k], e))
    BY <1>10, Zenon DEF ReceiveReply
  <2>2. stage'[k] = transition("Submitting", e)
    BY <1>10, <2>1, Zenon DEF ReceiveReply
  <2>3. /\ stage'[k] \in {"Submitted", "SubmissionUnknown", "Failed"}
        /\ stage'[k] = "Failed" => k \notin network
    BY <2>2, Transitions, Zenon DEF Replies
  <2> QED
    BY <1>10, <2>3, Zenon DEF ReceiveReply
<1>11. CASE TerminalApplied(k)
  BY <1>11, ReturnMoves, Zenon DEF TerminalApplied
<1>12. CASE TerminalNotRecorded(k)
  BY <1>12, ReturnMoves, Zenon DEF TerminalNotRecorded
<1>13. CASE HandOff(k)
  BY <1>13, ReturnMoves, Zenon DEF HandOff
<1> HIDE DEF TypeOK, CallTypes, chainVars, Goto, publish_send_workflow,
    ControlOf, StageOf, ResolvingPc, EvidencePc, Moves, RecordedPc
<1> QED
  BY <1>1, <1>2, <1>3, <1>4, <1>5, <1>6, <1>7, <1>8, <1>9, <1>10, <1>11, <1>12,
     <1>13, Zenon DEF SendStep

\* The moves of a resolver: how its stage and position change.
LEMMA ResolverMoves ==
  ASSUME SendInv, NEW k \in Calls,
         \/ ResolutionStep(k)
         \/ k \in Resolvers /\ (StartResolve(k) \/ NothingPending(k))
  PROVE  ControlOf(k)' /\ (k \in Ops => Moves(k))
<1>0. /\ TypeOK /\ CallTypes
      /\ ControlOf(k)
      /\ k \in Resolvers => k \notin Ops /\ k \notin Forced
  BY CallsAssumption, Zenon DEF SendInv, TypeOK, Control
<1> USE <1>0 DEF TypeOK, CallTypes, chainVars, Goto, ControlOf, StageOf,
    ResolverPc, ResolvingPc, EvidencePc, Moves, RecordedPc
<1>1. CASE k \in Resolvers /\ StartResolve(k)
  BY <1>1, Zenon DEF StartResolve
<1>2. CASE k \in Resolvers /\ NothingPending(k)
  BY <1>2, ReturnMoves, Zenon DEF NothingPending
<1>3. CASE LoadJournal(k)
  BY <1>3, Zenon DEF LoadJournal
<1>4. CASE ReadAccount(k)
  <2>1. k \in Resolvers => MustResolve(k)
    BY <1>4, Zenon DEF ReadAccount, SendInv, Building, MustResolve
  <2> QED
    BY <1>4, <2>1, Zenon DEF ReadAccount
<1>5. CASE LookupExecuted(k)
  BY <1>5, Zenon DEF LookupExecuted, Decide
<1>6. CASE LookupPending(k)
  BY <1>6, Zenon DEF LookupPending, Decide
<1>7. CASE LookupWalletSeqno(k)
  BY <1>7, Zenon DEF LookupWalletSeqno, Decide
<1>8. CASE RecheckExecuted(k)
  BY <1>8, Zenon DEF RecheckExecuted, Decide
<1>9. CASE ResolutionApplied(k)
  BY <1>9, Zenon DEF ResolutionApplied
<1>10. CASE AdoptResolution(k)
  BY <1>10, Zenon DEF AdoptResolution, Conflict
<1>11. CASE RetryResolution(k)
  BY <1>11, Zenon DEF RetryResolution, Conflict
<1>12. CASE AbandonResolution(k)
  BY <1>12, ReturnMoves, Zenon DEF AbandonResolution, Conflict
<1>13. CASE ResolutionHostError(k)
  BY <1>13, ReturnMoves, Zenon DEF ResolutionHostError
<1>14. CASE ConcludeForSend(k)
  BY <1>14, Zenon DEF ConcludeForSend
<1>15. CASE ConcludeCall(k)
  BY <1>15, ReturnMoves, Zenon DEF ConcludeCall
<1>16. CASE HostFailure(k)
  BY <1>16, ReturnMoves, Zenon DEF HostFailure
<1>17. CASE LateResult(k)
  BY <1>17, ReturnMoves, Zenon DEF LateResult, EarlyPc
<1> HIDE DEF TypeOK, CallTypes, chainVars, Goto, ControlOf, StageOf,
    ResolverPc, ResolvingPc, EvidencePc, Moves, RecordedPc
<1> QED
  BY <1>1, <1>2, <1>3, <1>4, <1>5, <1>6, <1>7, <1>8, <1>9, <1>10, <1>11, <1>12,
     <1>13, <1>14, <1>15, <1>16, <1>17, Zenon DEF ResolutionStep

-----------------------------------------------------------------------------
(* The slot of a committed send *)

\* A step that ends or starts a send on a client leaves the others their slot.
LEMMA SlotStep ==
  ASSUME SendInv, NEW k \in Calls, CallStep(k), Frame(k), ControlOf(k)'
  PROVE  CommittedSendKeepsSlot'
<1>0. /\ TypeOK /\ ClientTypes /\ CallTypes /\ Home[k] \in Clients
      /\ k \in Ops <=> k \notin Resolvers
  BY CallsAssumption, Zenon DEF SendInv, TypeOK, Calls
<1>1. \A j \in Ops : j \in Calls /\ j \notin Resolvers /\ j # Nobody
                     /\ Home[j] \in Clients
  BY CallsAssumption, Zenon DEF Calls
<1>2. \A j \in Ops : pc[j] \in CommittedPc =>
        active_send[Home[j]] = j /\ Home[j] \in send_commit_started
  BY <1>1, Zenon DEF SendInv, CommittedSendKeepsSlot, IsCurrent
<1>3. SUFFICES ASSUME NEW j \in Ops, pc'[j] \in CommittedPc
               PROVE  active_send'[Home[j]] = j /\ Home[j] \in send_commit_started'
  BY <1>1, Zenon DEF CommittedSendKeepsSlot, IsCurrent
<1>4. j # k => pc[j] \in CommittedPc /\ j \in Calls
  BY <1>1, <1>3, Zenon DEF Frame, Still
<1>5. CASE UNCHANGED <<active_send, send_commit_started>> /\ pc[j] \in CommittedPc
  BY <1>2, <1>5, Zenon
<1>6. ASSUME EndSend(Home[k]), active_send[Home[k]] = k, j # k
      PROVE  active_send'[Home[j]] = j /\ Home[j] \in send_commit_started'
  BY <1>0, <1>1, <1>2, <1>4, <1>6, Zenon DEF EndSend, ClientTypes
<1>7. ASSUME Return(k)
      PROVE  j # k
  BY <1>0, <1>3, <1>7, Zenon DEF Return, Goto, CallTypes, CommittedPc
<1>8. ASSUME FailCall(k), Return(k)
      PROVE  active_send'[Home[j]] = j /\ Home[j] \in send_commit_started'
  BY <1>0, <1>2, <1>4, <1>6, <1>7, <1>8, Zenon
  DEF FailCall, ReleaseSend, IsCurrent, clientVars
<1>9. CASE k \in Ops /\ StartSend(k)
  <2>1. j # k
    BY <1>0, <1>3, <1>9, Zenon DEF StartSend, Goto, CallTypes, CommittedPc
  <2> QED
    BY <1>0, <1>1, <1>2, <1>4, <1>9, <2>1 DEF StartSend, SlotsFree, ClientTypes
<1>10. CASE k \in Resolvers /\ (StartResolve(k) \/ NothingPending(k))
  BY <1>0, <1>2, <1>4, <1>10, Zenon DEF StartResolve, NothingPending
<1>11. CASE k \in Ops /\ SendStep(k)
  <2>1. CASE JournalLoaded(k) \/ FetchSeqno(k) \/ ReadSecret(k)
    <3>1. j # k
      BY <1>0, <1>3, <1>11, <2>1, Zenon
      DEF JournalLoaded, FetchSeqno, ReadSecret, Goto, CallTypes, CommittedPc
    <3> QED
      BY <1>2, <1>4, <2>1, <3>1, Zenon
      DEF JournalLoaded, FetchSeqno, ReadSecret, publish_send_workflow
  <2>2. CASE begin_send_commit(k)
    BY <1>0, <1>2, <1>4, <2>2, Zenon DEF begin_send_commit, IsCurrent
  <2>3. CASE PreparedApplied(k) \/ Submit(k) \/ ReceiveReply(k)
    <3>1. pc[k] \in CommittedPc
      BY <2>3, Zenon DEF PreparedApplied, Submit, ReceiveReply, CommittedPc
    <3> QED
      BY <1>2, <1>4, <1>11, <2>3, <3>1, Zenon
      DEF PreparedApplied, Submit, ReceiveReply, publish_send_workflow, clientVars
  <2>4. CASE \/ PreparedConflict(k) \/ PreparedHostError(k)
             \/ TerminalApplied(k) \/ TerminalNotRecorded(k) \/ HandOff(k)
    <3>1. pc[k] \in CommittedPc
      BY <2>4, Zenon DEF PreparedConflict, PreparedHostError, TerminalApplied,
         TerminalNotRecorded, HandOff, CommittedPc
    <3>2. Return(k) /\ EndSend(Home[k])
      BY <2>4, Zenon DEF PreparedConflict, PreparedHostError, TerminalApplied,
         TerminalNotRecorded, HandOff, ReleaseSend
    <3> QED
      BY <1>2, <1>6, <1>7, <1>11, <3>1, <3>2, Zenon
  <2> QED
    BY <1>11, <2>1, <2>2, <2>3, <2>4, Zenon DEF SendStep
<1>12. CASE ResolutionStep(k)
  <2>1. CASE \/ LoadJournal(k) \/ ReadAccount(k) \/ LookupExecuted(k)
             \/ LookupPending(k) \/ LookupWalletSeqno(k) \/ RecheckExecuted(k)
             \/ ResolutionApplied(k) \/ AdoptResolution(k) \/ RetryResolution(k)
             \/ ConcludeForSend(k)
    <3>1. pc'[k] \notin CommittedPc
      BY <1>0, <2>1, Zenon
      DEF LoadJournal, ReadAccount, LookupExecuted, LookupPending,
          LookupWalletSeqno, RecheckExecuted, ResolutionApplied, AdoptResolution,
          RetryResolution, ConcludeForSend, Decide, Conflict, Goto, CallTypes,
          CommittedPc
    <3>2. UNCHANGED <<active_send, send_commit_started>>
      BY <2>1, Zenon
      DEF LoadJournal, ReadAccount, LookupExecuted, LookupPending,
          LookupWalletSeqno, RecheckExecuted, ResolutionApplied, AdoptResolution,
          RetryResolution, ConcludeForSend, clientVars
    <3> QED
      BY <1>2, <1>3, <1>4, <3>1, <3>2, Zenon
  <2>2. CASE AbandonResolution(k) \/ ResolutionHostError(k) \/ HostFailure(k)
    BY <1>8, <2>2, Zenon DEF AbandonResolution, ResolutionHostError, HostFailure
  <2>3. CASE ConcludeCall(k)
    BY <1>0, <1>2, <1>4, <1>6, <1>7, <2>3, Zenon DEF ConcludeCall, IsCurrent
  <2>4. CASE LateResult(k)
    BY <1>2, <1>4, <1>7, <2>4, Zenon DEF LateResult, clientVars
  <2> QED
    BY <1>12, <2>1, <2>2, <2>3, <2>4, Zenon DEF ResolutionStep
<1> QED
  BY <1>9, <1>10, <1>11, <1>12, Zenon DEF CallStep, StartStep

-----------------------------------------------------------------------------
(* Writes of the journal *)

\* Who writes the slot, on which record, and what.
Writes(k) ==
  /\ seen[k] = journal
  /\ journal'.version = journal.version + 1
  /\ \/ /\ pc[k] = "persist"
        /\ PendingRecord(journal)
        /\ journal'.op = journal.op
        /\ journal'.stage = verdict[k]
        /\ verdict[k] \in Evidence
        /\ Established(journal.op, verdict[k])
     \/ /\ pc[k] = "commit"
        /\ k \in Ops
        /\ ~MustResolve(k)
        /\ journal'.op = k
        /\ journal'.stage \in {"ReadyToSubmit", "HandedOff"}
        /\ pc'[k] \in RecordedPc
     \/ /\ pc[k] = "terminal"
        /\ k \in Ops
        /\ PendingRecord(journal)
        /\ journal.op = k
        /\ journal'.op = k
        /\ journal'.stage = stage[k]
        /\ pc'[k] = "done"

\* Every exchange that applies does so on the record the call has seen.
LEMMA WriteStep ==
  ASSUME SendInv, NEW k \in Calls, CallStep(k)
  PROVE  /\ UNCHANGED journal \/ Writes(k)
         /\ seen'[k] \in {seen[k], NoRecord, journal'}
<1>0. TypeOK /\ CallTypes
  BY Zenon DEF SendInv, TypeOK
<1>1. ASSUME NEW op, NEW s, CompareExchange(seen[k], op, s)
      PROVE  /\ seen[k] = journal
             /\ journal'.version = journal.version + 1
             /\ journal'.op = op
             /\ journal'.stage = s
  BY <1>1, Zenon DEF SendInv, SeenIsPast, CompareExchange, next_journal_version
<1>2. ASSUME pc[k] = "persist", CompareExchange(seen[k], prior[k], verdict[k])
      PROVE  Writes(k)
  BY <1>1, <1>2, Zenon DEF Writes, SendInv, Resolving, ResolvingPc
<1>3. ASSUME k \in Ops, pc[k] = "commit",
             CompareExchange(seen[k], k, PreparedStage(k)), pc'[k] \in RecordedPc
      PROVE  Writes(k)
  <2>1. PreparedStage(k) \in {"ReadyToSubmit", "HandedOff"}
    BY <1>3, Zenon
    DEF SendInv, Control, ControlOf, StageOf, PreparedStage, durable_stage
  <2>2. ~MustResolve(k)
    BY <1>3, Zenon DEF SendInv, Building
  <2> QED
    BY <1>1, <1>3, <2>1, <2>2, Zenon DEF Writes
<1>4. ASSUME k \in Ops, pc[k] = "terminal",
             CompareExchange(seen[k], k, stage[k]), Return(k)
      PROVE  Writes(k)
  <2>1. seen[k].op = k /\ PendingRecord(seen[k])
    BY <1>4, Zenon DEF SendInv, Building
  <2>2. pc'[k] = "done"
    BY <1>0, <1>4, ReturnMoves, Zenon
  <2> QED
    BY <1>1, <1>4, <2>1, <2>2, Zenon DEF Writes
<1>5. ASSUME Return(k)
      PROVE  seen'[k] = NoRecord
  BY <1>0, <1>5, Zenon DEF Return, CallTypes
<1>6. CASE k \in Ops /\ StartSend(k)
  BY <1>6, Zenon DEF StartSend, locals
<1>7. CASE k \in Resolvers /\ (StartResolve(k) \/ NothingPending(k))
  BY <1>5, <1>7, Zenon DEF StartResolve, NothingPending, locals
<1>8. CASE k \in Ops /\ SendStep(k)
  <2>1. CASE \/ JournalLoaded(k) \/ FetchSeqno(k) \/ ReadSecret(k)
             \/ begin_send_commit(k) \/ Submit(k) \/ ReceiveReply(k)
    BY <2>1, Zenon
    DEF JournalLoaded, FetchSeqno, ReadSecret, begin_send_commit, Submit,
       ReceiveReply, locals
  <2>2. CASE PreparedConflict(k) \/ HandOff(k)
    BY <1>5, <2>2, Zenon DEF PreparedConflict, HandOff
  <2>3. CASE PreparedApplied(k)
    <3>1. pc'[k] \in RecordedPc
      BY <1>0, <2>3, Zenon DEF PreparedApplied, Goto, CallTypes, RecordedPc
    <3> QED
      BY <1>0, <1>3, <1>8, <2>3, <3>1, Zenon DEF PreparedApplied, CallTypes
  <2>4. CASE PreparedHostError(k)
    <3>1. pc'[k] \in RecordedPc
      BY <1>0, <1>8, <2>4, ReturnMoves, Zenon DEF PreparedHostError, RecordedPc
    <3> QED
      BY <1>3, <1>5, <1>8, <2>4, <3>1, Zenon
      DEF PreparedHostError, AmbiguousExchange
  <2>5. CASE TerminalApplied(k) \/ TerminalNotRecorded(k)
    BY <1>4, <1>5, <1>8, <2>5, Zenon
    DEF TerminalApplied, TerminalNotRecorded, AmbiguousExchange
  <2> QED
    BY <1>8, <2>1, <2>2, <2>3, <2>4, <2>5, Zenon DEF SendStep
<1>9. CASE ResolutionStep(k)
  <2>1. CASE \/ ReadAccount(k) \/ LookupExecuted(k) \/ LookupPending(k)
             \/ LookupWalletSeqno(k) \/ RecheckExecuted(k) \/ ConcludeForSend(k)
    BY <2>1, Zenon
    DEF ReadAccount, LookupExecuted, LookupPending, LookupWalletSeqno,
       RecheckExecuted, ConcludeForSend, locals
  <2>2. CASE LoadJournal(k) \/ AdoptResolution(k) \/ RetryResolution(k)
    BY <1>0, <2>2, Zenon
    DEF LoadJournal, AdoptResolution, RetryResolution, Conflict, CallTypes
  <2>3. CASE ResolutionApplied(k)
    BY <1>0, <1>2, <2>3, Zenon DEF ResolutionApplied, CallTypes
  <2>4. CASE ResolutionHostError(k)
    BY <1>2, <1>5, <2>4, Zenon DEF ResolutionHostError, AmbiguousExchange
  <2>5. CASE \/ AbandonResolution(k) \/ ConcludeCall(k)
             \/ HostFailure(k) \/ LateResult(k)
    BY <1>5, <2>5, Zenon
    DEF AbandonResolution, Conflict, ConcludeCall, HostFailure,
       LateResult
  <2> QED
    BY <1>9, <2>1, <2>2, <2>3, <2>4, <2>5, Zenon DEF ResolutionStep
<1> QED
  BY <1>6, <1>7, <1>8, <1>9, Zenon DEF CallStep, StartStep

-----------------------------------------------------------------------------
(* What any step does *)

\* The chain only moves on, and executes a message only while it is acceptable.
Monotone ==
  /\ executed \subseteq executed'
  /\ seqno <= seqno'
  /\ indexed <= indexed'
  /\ now <= now'
  /\ \A j \in executed' \ executed : j \in network /\ Acceptable(j)

Effects ==
  /\ Monotone
  /\ \A j \in Ops : Moves(j)
  /\ UNCHANGED journal \/ \E k \in Calls : Writes(k)
  /\ \A j \in Calls : seen'[j] \in {seen[j], NoRecord, journal'}
  /\ Control'
  /\ CommittedSendKeepsSlot'

\* What a step of a call may do to the slot, the chain and the clients.
LEMMA CallEffects ==
  ASSUME SendInv, NEW k \in Calls, CallStep(k)
  PROVE  Effects
<1>0. TypeOK /\ CallTypes /\ ChainTypes /\ Control
  BY Zenon DEF SendInv, TypeOK
<1>1. Frame(k)
  BY <1>0, FrameLemma, Zenon
<1>2. ControlOf(k)' /\ (k \in Ops => Moves(k))
  BY SendMoves, ResolverMoves, Zenon DEF CallStep, StartStep
<1>3. Monotone
  BY <1>0, <1>1, NumbersAssumption DEF Frame, Monotone, ChainTypes
<1>4. ASSUME NEW j \in Ops \ {k}
      PROVE  Moves(j)
  BY <1>1, Zenon DEF Frame, Still, Moves, Calls
<1>5. ASSUME NEW j \in Calls \ {k}
      PROVE  ControlOf(j)'
  <2>1. pc'[j] = pc[j] /\ (j \in Ops => stage'[j] = stage[j])
    BY <1>1, Zenon DEF Frame, Still
  <2>2. ControlOf(j)
    BY <1>0, Zenon DEF Control
  <2> QED
    BY <2>1, <2>2, Zenon DEF ControlOf, StageOf
<1>6. Control'
  BY <1>2, <1>5, Zenon DEF Control
<1>7. CommittedSendKeepsSlot'
  BY <1>1, <1>2, SlotStep, Zenon
<1>8. \A j \in Calls : seen'[j] \in {seen[j], NoRecord, journal'}
  BY <1>1, WriteStep, Zenon DEF Frame, Still
<1>9. UNCHANGED journal \/ \E i \in Calls : Writes(i)
  BY WriteStep, Zenon
<1> QED
  BY <1>2, <1>3, <1>4, <1>6, <1>7, <1>8, <1>9, Zenon DEF Effects

\* What cancellation, shutdown, reopening and a crash may do.
LEMMA ClientEffects ==
  ASSUME SendInv, NEW c \in Clients, ClientStep(c)
  PROVE  Effects
<1>0. TypeOK /\ ClientTypes /\ CallTypes /\ ChainTypes /\ Control
  BY Zenon DEF SendInv, TypeOK
<1>h. \A j \in Ops : j \in Calls /\ j \notin Resolvers /\ Home[j] \in Clients
                     /\ j # Nobody
  BY CallsAssumption, Zenon DEF Calls
<1>s. \A j \in Ops : pc[j] \in CommittedPc =>
        active_send[Home[j]] = j /\ Home[j] \in send_commit_started
  BY <1>h, Zenon DEF SendInv, CommittedSendKeepsSlot, IsCurrent
<1>1. Monotone /\ UNCHANGED journal /\ UNCHANGED <<stage, msg, network>>
  BY <1>0, NumbersAssumption
  DEF ClientStep, cancel_send, BeginShutdown, FinishShutdown, Reopen, Crash,
      Monotone, ChainTypes, chainVars
<1>2. CASE cancel_send(c) \/ BeginShutdown(c) \/ FinishShutdown(c) \/ Reopen(c)
  <2>1. UNCHANGED <<pc, seen>>
    BY <1>2, Zenon
    DEF cancel_send, BeginShutdown, FinishShutdown, Reopen, locals
  <2>2. \A j \in Ops : Moves(j)
    BY <1>1, <2>1, Zenon DEF Moves
  <2>3. Control'
    BY <1>0, <1>1, <2>1, Zenon DEF Control, ControlOf, StageOf
  <2>4. ASSUME NEW j \in Ops, pc[j] \in CommittedPc
        PROVE  active_send'[Home[j]] = j /\ Home[j] \in send_commit_started'
    <3>1. CASE cancel_send(c)
      BY <1>0, <1>h, <1>s, <2>4, <3>1, Zenon
      DEF cancel_send, CancelActive, EndSend, ClientTypes
    <3>2. CASE BeginShutdown(c) \/ FinishShutdown(c)
      <4>1. \/ UNCHANGED <<active_send, send_commit_started>>
            \/ ~CommitInFlight(c) /\ EndSend(c)
        BY <3>2, Zenon DEF BeginShutdown, FinishShutdown, prepare_shutdown
      <4>2. CASE UNCHANGED <<active_send, send_commit_started>>
        BY <1>s, <2>4, <4>2, Zenon
      <4>3. CASE ~CommitInFlight(c) /\ EndSend(c)
        <5>1. Home[j] # c
          BY <1>h, <1>s, <2>4, <4>3, Zenon DEF CommitInFlight
        <5> QED
          BY <1>0, <1>h, <1>s, <2>4, <4>3, <5>1, Zenon DEF EndSend, ClientTypes
      <4> QED
        BY <4>1, <4>2, <4>3
    <3>3. CASE Reopen(c)
      <4>1. Home[j] # c
        BY <1>h, <2>4, <3>3, Zenon DEF Reopen, CommittedPc
      <4> QED
        BY <1>0, <1>h, <1>s, <2>4, <3>3, <4>1, Zenon
        DEF Reopen, NewState, EndSend, ClientTypes
    <3> QED
      BY <1>2, <3>1, <3>2, <3>3, Zenon
  <2>5. CommittedSendKeepsSlot'
    BY <1>h, <2>1, <2>4, Zenon DEF CommittedSendKeepsSlot, IsCurrent
  <2> QED
    BY <1>1, <2>1, <2>2, <2>3, <2>5, Zenon DEF Effects
<1>3. CASE Crash(c)
  <2>1. \A j \in Calls :
          /\ seen'[j] \in {seen[j], NoRecord}
          /\ \/ pc'[j] = pc[j] /\ Home[j] # c
             \/ pc'[j] = pc[j] /\ pc[j] \in {"idle", "done"}
             \/ pc'[j] = "idle" /\ j \in Resolvers
             \/ pc'[j] = "done" /\ j \notin Resolvers
    BY <1>0, <1>3, Zenon DEF Crash, CallTypes
  <2>2. \A j \in Ops : Moves(j)
    BY <1>1, <1>h, <2>1, Zenon DEF Moves, RecordedPc
  <2>3. ASSUME NEW j \in Calls
        PROVE  ControlOf(j)'
    <3>1. ControlOf(j) /\ (j \in Ops => j \notin Resolvers)
      BY <1>0, <1>h, Zenon DEF Control
    <3> QED
      BY <1>1, <2>1, <3>1, Zenon
      DEF ControlOf, StageOf, ResolverPc, ResolvingPc, EvidencePc
  <2>4. ASSUME NEW j \in Ops, pc'[j] \in CommittedPc
        PROVE  active_send'[Home[j]] = j /\ Home[j] \in send_commit_started'
    <3>1. pc[j] \in CommittedPc /\ Home[j] # c
      BY <1>h, <2>1, <2>4, Zenon DEF CommittedPc
    <3> QED
      BY <1>0, <1>h, <1>s, <1>3, <3>1, Zenon
      DEF Crash, NewState, EndSend, ClientTypes
  <2>5. CommittedSendKeepsSlot'
    BY <1>h, <2>4, Zenon DEF CommittedSendKeepsSlot, IsCurrent
  <2> QED
    BY <1>1, <2>1, <2>2, <2>3, <2>5, Zenon DEF Effects, Control
<1> QED
  BY <1>2, <1>3, Zenon DEF ClientStep

\* What a step of the chain may do.
LEMMA ChainEffects ==
  ASSUME SendInv, ChainStep \/ UNCHANGED vars
  PROVE  Effects
<1>1. UNCHANGED <<journal, clientVars, pc, stage, locals, msg, network>>
  BY Zenon
  DEF ChainStep, Execute, ExecuteForeign, Index, Tick, vars, clientVars, locals,
     chainVars
<1>2. Monotone
  BY NumbersAssumption
  DEF SendInv, TypeOK, ChainTypes, ChainStep, Execute, ExecuteForeign, Index, Tick,
      Commit, Monotone, vars, chainVars
<1>3. \A j \in Ops : Moves(j)
  BY <1>1, Zenon DEF Moves
<1>4. Control' /\ CommittedSendKeepsSlot'
  BY <1>1, Zenon
  DEF SendInv, Control, ControlOf, StageOf, CommittedSendKeepsSlot,
     IsCurrent, clientVars
<1> QED
  BY <1>1, <1>2, <1>3, <1>4, Zenon DEF Effects, locals

\* What any step may do to the state that the invariant is about.
LEMMA StepEffects ==
  ASSUME SendInv, [Next]_vars
  PROVE  Effects
BY CallEffects, ClientEffects, ChainEffects, Zenon
DEF Next, CallStep, StartStep, Calls
=============================================================================
