-------------------------- MODULE WalletSendProofs --------------------------
(***************************************************************************)
(* The inductive invariant SendInv is preserved by every step with the     *)
(* effects of WalletSendEffects (the slot, the messages and the chain, and *)
(* the evidence that supports the verdict of a resolving call), and the    *)
(* guarantees of the durable send follow from it, for any number of        *)
(* clients, calls and transactions.  As long as no caller sets `force`,    *)
(* the durable send implements PaymentSlot.                                *)
(***************************************************************************)
EXTENDS WalletSendEffects, WalletSendSlot

-----------------------------------------------------------------------------
(* What follows from the effects of a step, whichever it is *)

\* Facts about a recorded message that no later step can undo.
LEMMA Stability ==
  ASSUME SendInv, Effects, TypeOK', NEW p \in Ops, pc[p] \in RecordedPc
  PROVE  /\ msg'[p] = msg[p]
         /\ pc'[p] \in RecordedPc
         /\ Dead(p) => Dead(p)'
         /\ p \notin executed /\ Dead(p) => p \notin executed'
         /\ \A v : Established(p, v) => Established(p, v)'
<1>1. msg'[p] = msg[p] /\ pc'[p] \in RecordedPc
  BY Zenon DEF Effects, Moves
<1>2. msg[p].seqno \in Nat /\ msg[p].validUntil \in Nat
  BY Zenon DEF SendInv, TypeOK, Message
<1>3. /\ seqno \in Nat /\ seqno' \in Nat /\ now \in Nat /\ now' \in Nat
      /\ seqno <= seqno' /\ now <= now' /\ executed \subseteq executed'
  BY NumbersAssumption DEF SendInv, TypeOK, ChainTypes, Effects, Monotone
<1>4. Dead(p) => Dead(p)'
  BY <1>1, <1>2, <1>3 DEF Dead
<1>5. p \notin executed /\ Dead(p) => p \notin executed'
  BY <1>2, <1>3 DEF Dead, Effects, Monotone, Acceptable
<1> QED
  BY <1>1, <1>3, <1>4, <1>5, Zenon DEF Established

\* The slot holds records of operations that wrote them, versions only grow.
LEMMA SlotKept ==
  ASSUME SendInv, Effects, TypeOK'
  PROVE  Slot' /\ SeenIsPast'
<1>0. TypeOK /\ CallTypes /\ journal \in JournalRecord /\ Slot /\ SeenIsPast
  BY Zenon DEF SendInv, TypeOK
<1>1. ASSUME NEW r, Recorded(r)
      PROVE  \/ r = NoRecord
             \/ /\ r.version > 0
                /\ r.op \in Ops
                /\ pc'[r.op] \in RecordedPc
                /\ r.stage \in PendingStage \cup Evidence \cup {"Failed"}
  BY <1>1, Stability, Zenon DEF Recorded
<1>2. ASSUME NEW k \in Calls, Writes(k)
      PROVE  Recorded(journal)'
  <2>1. journal'.version > 0
    BY <1>0, <1>2 DEF Writes, JournalRecord
  <2>2. journal'.stage \in PendingStage \cup Evidence \cup {"Failed"}
    BY <1>2, Zenon
    DEF Writes, PendingStage, SendInv, Control, ControlOf, StageOf
  <2>3. journal'.op \in Ops /\ pc'[journal'.op] \in RecordedPc
    <3>1. CASE pc[k] \in {"commit", "terminal"}
      BY <1>2, <3>1, Zenon DEF Writes, RecordedPc
    <3>2. CASE pc[k] = "persist"
      <4>1. journal.op \in Ops /\ pc[journal.op] \in RecordedPc
        BY <1>0, <1>2, <3>2 DEF Writes, PendingRecord, Slot, Recorded, NoRecord
      <4> QED
        BY <1>2, <3>2, <4>1, Stability, Zenon DEF Writes
    <3> QED
      BY <1>2, <3>1, <3>2, Zenon DEF Writes
  <2> QED
    BY <2>1, <2>2, <2>3, Zenon DEF Recorded
<1>3. Recorded(journal)'
  <2>1. CASE UNCHANGED journal
    BY <1>0, <1>1, <2>1, Zenon DEF Slot, Recorded
  <2> QED
    BY <1>2, <2>1, Zenon DEF Effects
<1>4. ASSUME NEW k \in Calls
      PROVE  Recorded(seen[k])'
  <2>1. CASE seen'[k] = seen[k]
    BY <1>0, <1>1, <2>1, Zenon DEF Slot, Recorded
  <2>2. CASE seen'[k] = NoRecord
    BY <2>2, Zenon DEF Recorded
  <2>3. CASE seen'[k] = journal'
    BY <1>3, <2>3, Zenon DEF Recorded
  <2> QED
    BY <2>1, <2>2, <2>3, Zenon DEF Effects
<1>5. /\ journal.version \in Nat /\ journal'.version \in Nat
      /\ journal' = journal \/ journal'.version = journal.version + 1
  BY <1>0, Zenon DEF Effects, Writes, TypeOK, JournalRecord
<1>6. ASSUME NEW k \in Calls
      PROVE  /\ seen'[k].version <= journal'.version
             /\ seen'[k].version = journal'.version => seen'[k] = journal'
  <2>1. seen[k].version \in Nat
    BY <1>0, Zenon DEF CallTypes, JournalRecord
  <2>2. CASE seen'[k] = seen[k]
    BY <1>0, <1>5, <2>1, <2>2 DEF SeenIsPast
  <2>3. CASE seen'[k] = NoRecord
    <3>1. journal'.version = 0 => journal' = NoRecord
      BY <1>3, <1>5 DEF Recorded
    <3>2. seen'[k].version = 0
      BY <2>3 DEF NoRecord
    <3> QED
      BY <1>5, <2>3, <3>1, <3>2
  <2>4. CASE seen'[k] = journal'
    BY <1>5, <2>4
  <2> QED
    BY <2>2, <2>3, <2>4, Zenon DEF Effects
<1> QED
  BY <1>3, <1>4, <1>6, Zenon DEF Slot, SeenIsPast

\* A message leaves the engine only after its record was written.
LEMMA CustodyKept ==
  ASSUME SendInv, Effects, TypeOK'
  PROVE  Custody'
<1>0. Custody /\ network' \subseteq Ops
  BY Zenon DEF SendInv, TypeOK, ChainTypes
<1>1. ASSUME NEW k \in network'
      PROVE  pc'[k] \in {"reply", "terminal", "done"}
  BY <1>0, <1>1, Zenon DEF Custody, Effects, Moves
<1>2. ASSUME NEW k \in Ops, pc'[k] = "terminal", stage'[k] = "Failed"
      PROVE  k \notin network'
  BY <1>0, <1>2, Zenon DEF Custody, Effects, Moves
<1> QED
  BY <1>1, <1>2, Zenon DEF Custody

\* The record that a step leaves is as true as the one it found.
LEMMA ConcludedKept ==
  ASSUME SendInv, Effects, TypeOK'
  PROVE  Concluded'
<1>0. /\ journal \in JournalRecord /\ Slot /\ Concluded /\ Custody
      /\ \A j \in Ops : Moves(j)
  BY Zenon DEF SendInv, TypeOK, Effects
<1>1. SUFFICES ASSUME journal'.version > 0
               PROVE  /\ Established(journal.op, journal.stage)'
                      /\ journal'.stage = "Failed" =>
                           /\ journal'.op \notin network'
                           /\ pc'[journal'.op] = "done"
  BY Zenon DEF Concluded
<1>2. CASE UNCHANGED journal
  <2>1. journal.op \in Ops /\ pc[journal.op] \in RecordedPc
    BY <1>0, <1>1, <1>2 DEF Slot, Recorded, NoRecord
  <2>2. Established(journal.op, journal.stage)'
    BY <1>0, <1>1, <1>2, <2>1, Stability, Zenon DEF Concluded, Established
  <2>3. ASSUME journal.stage = "Failed"
        PROVE  journal.op \notin network' /\ pc'[journal.op] = "done"
    <3>1. journal.op \notin network /\ pc[journal.op] = "done"
      BY <1>0, <1>1, <1>2, <2>3, Zenon DEF Concluded
    <3> QED
      BY <1>0, <2>1, <3>1, Zenon DEF Moves, RecordedPc
  <2> QED
    BY <1>2, <2>2, <2>3, Zenon
<1>3. ASSUME NEW k \in Calls, Writes(k), pc[k] = "persist"
      PROVE  Concluded'
  <2>1. journal.op \in Ops /\ pc[journal.op] \in RecordedPc
    BY <1>0, <1>3 DEF Writes, PendingRecord, Slot, Recorded, NoRecord
  <2>2. Established(journal.op, verdict[k])
    BY <1>3, Zenon DEF Writes
  <2>3. verdict[k] # "Failed"
    BY <1>3, Zenon DEF Writes, Evidence
  <2> QED
    BY <1>3, <2>1, <2>2, <2>3, Stability, Zenon
    DEF Writes, Concluded, Established
<1>4. ASSUME NEW k \in Calls, Writes(k), pc[k] = "commit"
      PROVE  Concluded'
  BY <1>4, Zenon DEF Writes, Concluded, Established
<1>5. ASSUME NEW k \in Calls, Writes(k), pc[k] = "terminal"
      PROVE  Concluded'
  <2>1. stage[k] \in {"Submitted", "SubmissionUnknown", "Failed"}
    BY <1>5, Zenon DEF Writes, SendInv, Control, ControlOf, StageOf
  <2>2. stage[k] = "Failed" => k \notin network
    BY <1>0, <1>5, Zenon DEF Writes, Custody
  <2>3. stage[k] = "Failed" => k \notin network'
    BY <1>0, <1>5, <2>2, Zenon DEF Writes, Moves
  <2> QED
    BY <1>5, <2>1, <2>3, Zenon DEF Writes, Concluded, Established
<1> QED
  BY <1>1, <1>2, <1>3, <1>4, <1>5, Zenon DEF Effects, Writes, Concluded

\* A message that can still execute stays the pending one: the slot is only
\* taken over, or settled, when it no longer can.
LEMMA TrackedKept ==
  ASSUME SendInv, Effects, TypeOK'
  PROVE  Tracked'
<1>0. /\ Tracked /\ Slot /\ Custody
      /\ network \subseteq Ops /\ executed \subseteq network
      /\ executed' \subseteq network' /\ network' \subseteq Ops
      /\ executed \subseteq executed'
      /\ \A j \in Ops : Moves(j)
  BY Zenon DEF SendInv, TypeOK, ChainTypes, Effects, Monotone
<1>1. SUFFICES ASSUME Forced = {}, NEW k \in Ops,
                      k \in network' \ executed' \/ pc'[k] \in {"submit", "handoff"}
               PROVE  Dead(k)' \/ (journal'.op = k /\ PendingRecord(journal'))
  BY Zenon DEF Tracked
<1>2. CASE journal'.op = k /\ PendingRecord(journal')
  BY <1>2, Zenon
<1>3. CASE ~(journal'.op = k /\ PendingRecord(journal'))
  <2>1. /\ k \in network \ executed \/ pc[k] \in {"submit", "handoff"}
        /\ k \notin executed
        /\ pc[k] \in RecordedPc
    BY <1>0, <1>1, <1>3, Zenon DEF Moves, Custody, RecordedPc
  <2>2. Dead(k) => Dead(k)'
    BY <2>1, Stability, Zenon
  <2>3. CASE Dead(k)
    BY <2>2, <2>3, Zenon
  <2>4. CASE journal.op = k /\ PendingRecord(journal)
    <3>1. PICK i \in Calls : Writes(i)
      BY <1>3, <2>4, Zenon DEF Effects
    <3>2. CASE pc[i] = "persist"
      BY <2>1, <2>2, <2>4, <3>1, <3>2, Zenon DEF Writes, Evidence, Established
    <3>3. CASE pc[i] = "commit"
      BY <1>1, <2>4, <3>1, <3>3, Zenon DEF Writes, MustResolve
    <3>4. CASE pc[i] = "terminal"
      <4>1. i = k /\ journal'.op = k /\ journal'.stage = stage[k]
        BY <2>4, <3>1, <3>4, Zenon DEF Writes
      <4>2. stage[k] \in {"Submitted", "SubmissionUnknown", "Failed"}
        BY <3>4, <4>1, Zenon DEF SendInv, Control, ControlOf, StageOf, Calls
      <4>3. stage[k] # "Failed"
        BY <1>0, <2>1, <3>4, <4>1, Zenon DEF Custody
      <4>4. journal.version \in Nat /\ journal'.version = journal.version + 1
        BY <3>1, Zenon DEF Writes, SendInv, TypeOK, JournalRecord
      <4>5. PendingRecord(journal')
        BY <4>1, <4>2, <4>3, <4>4
        DEF PendingRecord, permits_replacement, SettledStage
      <4> QED
        BY <1>3, <4>1, <4>5, Zenon
    <3> QED
      BY <3>1, <3>2, <3>3, <3>4, Zenon DEF Writes
  <2> QED
    BY <1>0, <1>1, <2>1, <2>3, <2>4, Zenon DEF Tracked
<1> QED
  BY <1>2, <1>3, Zenon

\* Steps of the chain keep its transactions in time and the index within its
\* lag; other steps leave both alone.
LEMMA ChainKept ==
  ASSUME SendInv, [Next]_vars, Effects, TypeOK'
  PROVE  Chain'
<1>0. /\ TypeOK /\ ChainTypes /\ Chain
      /\ seqno \in Nat /\ indexed \in Nat /\ now \in Nat
      /\ seqno <= MaxSeqno /\ indexed <= seqno
      /\ \A k \in executed : k \in Ops
  BY NumbersAssumption DEF SendInv, TypeOK, ChainTypes
<1>1. \A k \in Ops : msg[k].seqno \in Nat /\ msg[k].validUntil \in Nat
  BY <1>0, Zenon DEF TypeOK, Message
<1>2. \A k \in executed : msg'[k] = msg[k]
  BY <1>0, Stability, Zenon DEF SendInv, Custody, RecordedPc, ChainTypes
<1>3. CASE UNCHANGED <<executed, seqno, blockTime, indexed, now>>
  BY <1>0, <1>2, <1>3, Zenon DEF Chain
<1>4. ASSUME Commit, UNCHANGED <<msg, indexed, now>>
      PROVE  /\ seqno' = seqno + 1
             /\ blockTime'[seqno] = now
             /\ \A i \in 0..(seqno - 1) : blockTime'[i] = blockTime[i]
             /\ \A i \in indexed'..(seqno' - 1) : now' <= blockTime'[i] + IndexLag
  <2>1. seqno \in 0..(MaxSeqno - 1)
    BY <1>0, <1>4, NumbersAssumption DEF Commit
  <2>2. /\ seqno' = seqno + 1
        /\ blockTime'[seqno] = now
        /\ \A i \in 0..(seqno - 1) : blockTime'[i] = blockTime[i]
    BY <1>0, <1>4, <2>1, NumbersAssumption DEF Commit, ChainTypes
  <2>3. ASSUME NEW i \in indexed'..(seqno' - 1)
        PROVE  now' <= blockTime'[i] + IndexLag
    <3>1. CASE i = seqno
      BY <1>0, <1>4, <2>2, <3>1, NumbersAssumption
    <3>2. CASE i # seqno
      <4>1. i \in indexed..(seqno - 1) /\ i \in 0..(seqno - 1)
        BY <1>0, <1>4, <2>2, <3>2
      <4> QED
        BY <1>0, <1>4, <2>2, <4>1, Zenon DEF Chain
    <3> QED
      BY <3>1, <3>2, Zenon
  <2> QED
    BY <2>2, <2>3, Zenon
<1>5. ASSUME NEW k \in Ops, Execute(k)
      PROVE  Chain'
  <2>1. /\ executed' = executed \cup {k}
        /\ UNCHANGED <<msg, indexed, now>>
        /\ Commit
        /\ msg[k].seqno = seqno /\ now <= msg[k].validUntil
    BY <1>5, Zenon DEF Execute, Acceptable
  <2>2. \A j \in executed' : msg'[j].seqno < seqno'
    BY <1>0, <1>1, <1>4, <2>1 DEF Chain
  <2>3. ASSUME NEW j \in executed', msg'[j].seqno >= indexed'
        PROVE  blockTime'[msg'[j].seqno] <= msg'[j].validUntil
    <3>1. CASE j = k
      BY <1>4, <2>1, <3>1, Zenon
    <3>2. CASE j # k
      <4>1. j \in executed /\ msg[j].seqno \in 0..(seqno - 1)
        BY <1>0, <1>1, <2>1, <3>2 DEF Chain
      <4> QED
        BY <1>0, <1>4, <2>1, <2>3, <4>1, Zenon DEF Chain
    <3> QED
      BY <3>1, <3>2, Zenon
  <2> QED
    BY <1>4, <2>1, <2>2, <2>3, Zenon DEF Chain
<1>6. CASE ExecuteForeign
  <2>1. UNCHANGED <<executed, msg, indexed, now>> /\ Commit
    BY <1>6, Zenon DEF ExecuteForeign
  <2>2. \A j \in executed' : msg'[j].seqno < seqno'
    BY <1>0, <1>1, <1>4, <2>1 DEF Chain
  <2>3. ASSUME NEW j \in executed', msg'[j].seqno >= indexed'
        PROVE  blockTime'[msg'[j].seqno] <= msg'[j].validUntil
    <3>1. j \in executed /\ msg[j].seqno \in 0..(seqno - 1)
      BY <1>0, <1>1, <2>1 DEF Chain
    <3> QED
      BY <1>0, <1>4, <2>1, <2>3, <3>1, Zenon DEF Chain
  <2> QED
    BY <1>4, <2>1, <2>2, <2>3, Zenon DEF Chain
<1>7. CASE Index
  <2>1. /\ UNCHANGED <<executed, msg, seqno, now>>
        /\ indexed' = indexed + 1
        /\ \A i \in 0..(MaxSeqno - 1) : i # indexed => blockTime'[i] = blockTime[i]
    BY <1>0, <1>7, Zenon DEF Index, ChainTypes
  <2>2. ASSUME NEW j \in executed', msg'[j].seqno >= indexed'
        PROVE  blockTime'[msg'[j].seqno] <= msg'[j].validUntil
    <3>1. /\ j \in executed /\ msg[j].seqno < seqno
          /\ msg[j].seqno >= indexed + 1 /\ msg[j].seqno \in Nat
      BY <1>0, <1>1, <2>1, <2>2, Zenon DEF Chain
    <3>2. /\ msg[j].seqno \in 0..(MaxSeqno - 1)
          /\ msg[j].seqno # indexed /\ msg[j].seqno >= indexed
      BY <1>0, <3>1, NumbersAssumption
    <3> QED
      BY <1>0, <2>1, <3>1, <3>2, Zenon DEF Chain
  <2>3. ASSUME NEW i \in indexed'..(seqno' - 1)
        PROVE  now' <= blockTime'[i] + IndexLag
    <3>1. /\ i \in indexed..(seqno - 1) /\ i # indexed
          /\ i \in 0..(MaxSeqno - 1)
      BY <1>0, <2>1, NumbersAssumption
    <3> QED
      BY <1>0, <2>1, <3>1, Zenon DEF Chain
  <2> QED
    BY <1>0, <2>1, <2>2, <2>3, Zenon DEF Chain
<1>8. CASE Tick
  BY <1>0, <1>8, Zenon DEF Tick, Chain
<1>9. ASSUME NEW k \in Calls, CallStep(k)
      PROVE  Chain'
  BY <1>0, <1>3, <1>9, FrameLemma, Zenon DEF Frame
<1>10. ASSUME NEW c \in Clients, ClientStep(c)
       PROVE  Chain'
  BY <1>3, <1>10, Zenon
  DEF ClientStep, cancel_send, BeginShutdown, FinishShutdown,
     Reopen, Crash, chainVars
<1>11. CASE UNCHANGED vars
  BY <1>3, <1>11, Zenon DEF vars, chainVars
<1> QED
  BY <1>5, <1>6, <1>7, <1>8, <1>9, <1>10, <1>11, Zenon
  DEF Next, ChainStep, CallStep, StartStep, Calls

-----------------------------------------------------------------------------
(* Evidence *)

\* What a call has read stays valid while other calls, clients and the chain
\* move on.
LEMMA EvidenceKept ==
  ASSUME SendInv, Effects, TypeOK', NEW k \in Calls, Still(k)
  PROVE  Resolving(k)' /\ Building(k)'
<1>0. Resolving(k) /\ Building(k) /\ Slot /\ Effects /\ Monotone
  BY Zenon DEF SendInv, Effects
<1>1. Building(k)'
  BY <1>0, Zenon DEF Building, Still, MustResolve
<1>2. ASSUME pc[k] \in ResolvingPc
      PROVE  Resolving(k)'
  <2>1. PICK p \in Ops : p = prior[k] /\ pc[p] \in RecordedPc
    BY <1>0, <1>2 DEF Resolving, Slot, Recorded, NoRecord, PendingRecord
  <2>2. PICK v \in Verdict : v = verdict[k]
    BY Zenon DEF SendInv, TypeOK, CallTypes
  <2>3. /\ msg'[p] = msg[p]
        /\ Established(p, v) => Established(p, v)'
    BY <2>1, Stability, Zenon
  <2>4. /\ now \in Nat /\ now' \in Nat /\ indexed \in Nat /\ indexed' \in Nat
        /\ now <= now' /\ indexed <= indexed'
        /\ seqno \in Nat /\ seqno' \in Nat
        /\ time[k] \in Nat
        /\ msg[p].validUntil \in Nat /\ msg[p].seqno \in Nat
    <3>1. /\ ChainTypes /\ ChainTypes' /\ CallTypes
          /\ msg \in [Ops -> Message]
      BY Zenon DEF SendInv, TypeOK
    <3>2. msg[p].validUntil \in Nat /\ msg[p].seqno \in Nat
      BY <3>1, Zenon DEF Message
    <3>3. time[k] \in Nat
      BY <3>1, Zenon DEF CallTypes
    <3> QED
      BY <1>0, <3>1, <3>2, <3>3, NumbersAssumption DEF ChainTypes, Monotone
  <2>5. time[k] <= now /\ time[k] <= now'
    BY <1>0, <1>2, <2>4 DEF Resolving
  <2>6. resolution_window_expired(time[k], msg[p].validUntil) /\ p \notin executed
        => p \notin executed'
    BY <1>0, <2>4, <2>5, NumbersAssumption
    DEF Monotone, Acceptable, resolution_window_expired
  <2>7. pc[k] = "persist" => v \in Evidence /\ Established(p, v)'
    BY <1>0, <1>2, <2>1, <2>2, <2>3, Zenon DEF Resolving
  <2>8. pc[k] = "recheck" => indexed' > msg[p].seqno
    BY <1>0, <1>2, <2>1, <2>4 DEF Resolving
  <2>9. /\ Still(k) /\ prior'[k] = p /\ verdict'[k] = v
    BY <2>1, <2>2, Zenon DEF Still
  <2>10. Established(p, v)' => Established(prior[k], verdict[k])'
    BY <2>9, Zenon DEF Established, Dead
  <2> QED
    BY <1>0, <1>2, <2>1, <2>3, <2>5, <2>6, <2>7, <2>8, <2>9, <2>10, Zenon
    DEF Resolving, Still, resolution_window_expired
<1> QED
  BY <1>1, <1>2, Zenon DEF Resolving, Still

\* The heart of the argument for Expired: a message that the index does not
\* show once the window has passed by the provider's clock was never executed.
LEMMA UnindexedAfterWindow ==
  ASSUME SendInv, NEW p \in Ops, NEW t \in Nat, t <= now,
         resolution_window_expired(t, msg[p].validUntil),
         ~Indexed(p)
  PROVE  p \notin executed
<1> SUFFICES ASSUME p \in executed PROVE FALSE
  OBVIOUS
<1>1. /\ msg[p].seqno \in Nat /\ msg[p].validUntil \in Nat
      /\ now \in Nat /\ seqno \in Nat /\ indexed \in Nat
      /\ seqno <= MaxSeqno
  BY NumbersAssumption DEF SendInv, TypeOK, ChainTypes, Message
<1>2. msg[p].seqno >= indexed /\ msg[p].seqno < seqno
  BY <1>1 DEF Indexed, SendInv, Chain
<1>3. blockTime[msg[p].seqno] <= msg[p].validUntil
  BY <1>2, Zenon DEF SendInv, Chain
<1>4. now <= blockTime[msg[p].seqno] + IndexLag
  <2>1. msg[p].seqno \in indexed..(seqno - 1)
    BY <1>1, <1>2
  <2> QED
    BY <2>1, Zenon DEF SendInv, Chain
<1>5. blockTime[msg[p].seqno] \in Nat
  <2>1. msg[p].seqno \in 0..(MaxSeqno - 1)
    BY <1>1, <1>2, NumbersAssumption
  <2> QED
    BY <2>1, Zenon DEF SendInv, TypeOK, ChainTypes
<1> QED
  BY <1>1, <1>3, <1>4, <1>5, NumbersAssumption, MarginCoversIndexLag
  DEF resolution_window_expired

\* Each lookup supports the verdict it yields and the lookups that follow.
LEMMA EvidenceStep ==
  ASSUME SendInv, TypeOK', NEW k \in Calls,
         \/ LoadJournal(k) \/ ReadAccount(k) \/ LookupExecuted(k)
         \/ LookupPending(k) \/ LookupWalletSeqno(k) \/ RecheckExecuted(k)
  PROVE  Resolving(k)' /\ Building(k)'
<1>0. TypeOK /\ CallTypes /\ ChainTypes /\ Resolving(k) /\ Building(k) /\ Slot
  BY Zenon DEF SendInv, TypeOK
<1>1. /\ now \in Nat /\ seqno \in Nat /\ indexed \in Nat /\ indexed <= seqno
      /\ time[k] \in Nat
  BY <1>0, NumbersAssumption DEF CallTypes, ChainTypes
<1>2. ASSUME PendingRecord(seen[k]), seen[k].op = prior[k]
      PROVE  /\ prior[k] \in Ops
             /\ msg[prior[k]].seqno \in Nat /\ msg[prior[k]].validUntil \in Nat
             /\ seen[k].version > 0
  BY <1>0, <1>2 DEF PendingRecord, Slot, Recorded, NoRecord, TypeOK, Message
<1>3. ASSUME pc[k] \in EvidencePc
      PROVE  /\ PendingRecord(seen[k]) /\ seen[k].op = prior[k]
             /\ time[k] <= now
  BY <1>0, <1>3, Zenon DEF Resolving, ResolvingPc
<1> DEFINE p == prior[k]
           Open == resolution_window_expired(time[k], msg[p].validUntil)
<1>4. CASE LoadJournal(k)
  <2>1. pc'[k] = "account" /\ seen'[k] = journal /\ prior'[k] = journal.op
    BY <1>0, <1>4, Zenon DEF LoadJournal, Goto, CallTypes
  <2> QED
    BY <1>4, <2>1, Zenon
    DEF LoadJournal, Resolving, Building, ResolvingPc, EvidencePc
<1>5. CASE ReadAccount(k)
  <2>1. PICK t \in SyncTimes : time' = [time EXCEPT ![k] = t]
    BY <1>5, Zenon DEF ReadAccount
  <2>2. time'[k] <= now
    BY <1>0, <2>1 DEF SyncTimes, CallTypes
  <2>3. UNCHANGED <<seen, prior, msg, executed, indexed, now>> /\ p = seen[k].op
    BY <1>0, <1>5, Zenon DEF ReadAccount, Building, chainVars
  <2>4. CASE ~MustResolve(k)
    <3>1. pc'[k] = "journal_loaded"
      BY <1>0, <1>5, <2>4, Zenon DEF ReadAccount, Goto, CallTypes
    <3> QED
      BY <2>3, <2>4, <3>1, Zenon
      DEF Resolving, Building, ResolvingPc, EvidencePc, MustResolve
  <2>5. CASE MustResolve(k)
    <3>1. pc'[k] = IF p \in Signs THEN "wallet_seqno" ELSE "executed"
      BY <1>0, <1>5, <2>5, Zenon DEF ReadAccount, Goto, CallTypes
    <3> QED
      BY <2>2, <2>3, <2>5, <3>1, Zenon DEF Resolving, Building, MustResolve
  <2> QED
    BY <2>4, <2>5, Zenon
<1>6. CASE LookupExecuted(k)
  <2>1. /\ pc[k] = "executed" /\ pc[k] \in EvidencePc
        /\ UNCHANGED <<seen, prior, time, msg, executed, seqno, indexed, now>>
    BY <1>6, Zenon DEF LookupExecuted, chainVars, EvidencePc
  <2>2. p \notin Signs
    BY <1>0, <2>1, Zenon DEF Resolving, ResolvingPc
  <2>3. CASE Indexed(p)
    <3>1. pc'[k] = "persist" /\ verdict'[k] = "Confirmed" /\ p \in executed
      BY <1>0, <1>6, <2>3, Zenon
      DEF LookupExecuted, Decide, Goto, CallTypes, Evidence, Indexed
    <3> QED
      BY <1>3, <2>1, <3>1, Zenon
      DEF Resolving, Building, Evidence, Established
  <2>4. CASE ~Indexed(p)
    <3>1. pc'[k] = "pending"
      BY <1>0, <1>6, <2>4, Zenon DEF LookupExecuted, Goto, CallTypes
    <3>2. Open => p \notin executed
      BY <1>1, <1>2, <1>3, <2>1, <2>4, UnindexedAfterWindow, Zenon
    <3> QED
      BY <1>3, <2>1, <2>2, <3>1, <3>2, Zenon
      DEF Resolving, Building, resolution_window_expired
  <2> QED
    BY <2>3, <2>4, Zenon
<1>7. CASE LookupPending(k)
  <2>1. /\ pc[k] = "pending" /\ pc[k] \in EvidencePc
        /\ UNCHANGED <<seen, prior, time, msg, executed, seqno, indexed, now>>
    BY <1>7, Zenon DEF LookupPending, chainVars, EvidencePc
  <2>2. Open /\ p \notin Signs => p \notin executed
    BY <1>0, <2>1, Zenon DEF Resolving, ResolvingPc
  <2>3. CASE Decide(k, "StillPending")
    <3>1. pc'[k] = "conclude" /\ verdict'[k] = "StillPending"
      BY <1>0, <2>3, Zenon DEF Decide, Goto, CallTypes, Evidence
    <3> QED
      BY <1>2, <1>3, <2>1, <3>1, Zenon
      DEF Resolving, Building, ResolvingPc, EvidencePc, Evidence
  <2>4. CASE Goto(k, "wallet_seqno")
    <3>1. pc'[k] = "wallet_seqno"
      BY <1>0, <2>4, Zenon DEF Goto, CallTypes
    <3> QED
      BY <1>3, <2>1, <2>2, <3>1, Zenon
      DEF Resolving, Building, resolution_window_expired
  <2> QED
    BY <1>7, <2>3, <2>4, Zenon DEF LookupPending
<1>8. CASE LookupWalletSeqno(k)
  <2>1. /\ pc[k] = "wallet_seqno" /\ pc[k] \in EvidencePc
        /\ UNCHANGED <<seen, prior, time, msg, executed, seqno, indexed, now>>
    BY <1>8, Zenon DEF LookupWalletSeqno, chainVars, EvidencePc
  <2>2. /\ p \in Ops /\ msg[p].seqno \in Nat /\ msg[p].validUntil \in Nat
        /\ seen[k].version > 0
    BY <1>2, <1>3, <2>1, Zenon
  <2>3. CASE indexed > msg[p].seqno
    <3>1. Dead(p)
      BY <1>1, <2>2, <2>3 DEF Dead
    <3>2. CASE p \in Signs
      <4>1. pc'[k] = "persist" /\ verdict'[k] = "SequenceNumberConsumed"
        BY <1>0, <1>8, <2>3, <3>2, Zenon
        DEF LookupWalletSeqno, Decide, Goto, CallTypes, Evidence
      <4> QED
        BY <1>3, <2>1, <3>1, <4>1, Zenon
        DEF Resolving, Building, Evidence, Established, Dead
    <3>3. CASE p \notin Signs
      <4>1. pc'[k] = "recheck"
        BY <1>0, <1>8, <2>3, <3>3, Zenon DEF LookupWalletSeqno, Goto, CallTypes
      <4> QED
        BY <1>3, <2>1, <2>3, <3>3, <4>1, Zenon DEF Resolving, Building
    <3> QED
      BY <3>2, <3>3, Zenon
  <2>4. CASE ~(indexed > msg[p].seqno)
    <3>1. CASE Open /\ (p \in Signs \/ k \in observed)
      <4>1. pc'[k] = "persist" /\ verdict'[k] = "Expired"
        BY <1>0, <1>8, <2>4, <3>1, Zenon
        DEF LookupWalletSeqno, Decide, Goto, CallTypes, Evidence
      <4>2. Dead(p)
        BY <1>1, <1>3, <2>1, <2>2, <3>1, NumbersAssumption
        DEF Dead, resolution_window_expired
      <4>3. ~Indexed(p)
        BY <1>1, <2>2, <2>4, Zenon DEF Indexed
      <4>4. p \notin executed
        BY <1>1, <1>3, <2>1, <2>2, <3>1, <4>3, UnindexedAfterWindow, Zenon
      <4> QED
        BY <1>3, <2>1, <4>1, <4>2, <4>4, Zenon
        DEF Resolving, Building, Evidence, Established, Dead
    <3>2. CASE ~(Open /\ (p \in Signs \/ k \in observed))
      <4>1. pc'[k] = "conclude" /\ verdict'[k] = "StillPending"
        BY <1>0, <1>8, <2>4, <3>2, Zenon
        DEF LookupWalletSeqno, Decide, Goto, CallTypes, Evidence
      <4> QED
        BY <2>1, <2>2, <4>1, Zenon
        DEF Resolving, Building, ResolvingPc, EvidencePc, Evidence
    <3> QED
      BY <3>1, <3>2, Zenon
  <2> QED
    BY <2>3, <2>4, Zenon
<1>9. CASE RecheckExecuted(k)
  <2>1. /\ pc[k] = "recheck" /\ pc[k] \in EvidencePc
        /\ UNCHANGED <<seen, prior, time, msg, executed, seqno, indexed, now>>
    BY <1>9, Zenon DEF RecheckExecuted, chainVars, EvidencePc
  <2>2. indexed > msg[p].seqno
    BY <1>0, <2>1, Zenon DEF Resolving, ResolvingPc
  <2>3. Dead(p) /\ (~Indexed(p) => p \notin executed)
    BY <1>1, <1>2, <1>3, <2>1, <2>2 DEF Dead, Indexed
  <2>4. /\ pc'[k] = "persist"
        /\ verdict'[k] = IF Indexed(p) THEN "Confirmed" ELSE "Replaced"
    BY <1>0, <1>9, Zenon DEF RecheckExecuted, Decide, Goto, CallTypes, Evidence
  <2>5. Indexed(p) => p \in executed
    BY Zenon DEF Indexed
  <2> QED
    BY <1>3, <2>1, <2>3, <2>4, <2>5, Zenon
    DEF Resolving, Building, Evidence, Established, Dead
<1> QED
  BY <1>4, <1>5, <1>6, <1>7, <1>8, <1>9, Zenon

\* The other steps of a call: what it builds on next.
LEMMA BuildingStep ==
  ASSUME SendInv, Effects, TypeOK', NEW k \in Calls, CallStep(k)
  PROVE  Resolving(k)' /\ Building(k)'
<1>0. /\ TypeOK /\ CallTypes /\ Resolving(k) /\ Building(k) /\ Slot
      /\ seen[k].version \in Nat /\ journal.version \in Nat
  BY Zenon DEF SendInv, TypeOK, CallTypes, JournalRecord
<1>1. ASSUME pc'[k] \in {"idle", "done", "load"}
      PROVE  Resolving(k)' /\ Building(k)'
  BY <1>1, Zenon DEF Resolving, Building, ResolvingPc, EvidencePc
<1>2. ASSUME Return(k)
      PROVE  Resolving(k)' /\ Building(k)'
  <2>1. pc'[k] \in {"idle", "done"}
    BY <1>0, <1>2, Zenon DEF Return, Goto, CallTypes
  <2> QED
    BY <1>1, <2>1, Zenon
<1>3. CASE k \in Ops /\ StartSend(k)
  BY <1>0, <1>1, <1>3, Zenon DEF StartSend, Goto, CallTypes
<1>4. CASE k \in Resolvers /\ (StartResolve(k) \/ NothingPending(k))
  BY <1>0, <1>1, <1>2, <1>4, Zenon
  DEF StartResolve, NothingPending, Goto, CallTypes
<1>5. CASE k \in Ops /\ SendStep(k)
  <2>1. CASE \/ JournalLoaded(k) \/ FetchSeqno(k) \/ ReadSecret(k)
             \/ begin_send_commit(k)
    <3>1. /\ pc[k] \in {"journal_loaded", "seqno", "secret", "prepared"}
          /\ pc'[k] \in {"seqno", "secret", "prepared", "commit"}
          /\ UNCHANGED seen
      BY <1>0, <2>1, Zenon
      DEF JournalLoaded, FetchSeqno, ReadSecret, begin_send_commit, Goto, CallTypes,
          locals
    <3> QED
      BY <1>0, <3>1, Zenon
      DEF Resolving, Building, ResolvingPc, EvidencePc, MustResolve
  <2>2. CASE PreparedApplied(k)
    <3>1. /\ pc'[k] \in {"submit", "handoff"} /\ pc[k] = "commit"
          /\ seen'[k] = journal'
      BY <1>0, <2>2, Zenon DEF PreparedApplied, Goto, CallTypes
    <3>2. journal'.op = k /\ PendingRecord(journal')
      BY <1>5, <3>1, Zenon DEF Effects, Moves
    <3> QED
      BY <3>1, <3>2, Zenon DEF Resolving, Building, ResolvingPc, EvidencePc
  <2>3. CASE Submit(k) \/ ReceiveReply(k)
    <3>1. /\ pc[k] \in {"submit", "reply"} /\ pc'[k] \in {"reply", "terminal"}
          /\ UNCHANGED seen
      BY <1>0, <2>3, Zenon DEF Submit, ReceiveReply, Goto, CallTypes, locals
    <3> QED
      BY <1>0, <3>1, Zenon DEF Resolving, Building, ResolvingPc, EvidencePc
  <2>4. CASE \/ PreparedConflict(k) \/ PreparedHostError(k)
             \/ TerminalApplied(k) \/ TerminalNotRecorded(k) \/ HandOff(k)
    BY <1>2, <2>4, Zenon
    DEF PreparedConflict, PreparedHostError, TerminalApplied,
       TerminalNotRecorded, HandOff
  <2> QED
    BY <1>5, <2>1, <2>2, <2>3, <2>4, Zenon DEF SendStep
<1>6. CASE ResolutionStep(k)
  <2>1. CASE \/ LoadJournal(k) \/ ReadAccount(k) \/ LookupExecuted(k)
             \/ LookupPending(k) \/ LookupWalletSeqno(k) \/ RecheckExecuted(k)
    BY <2>1, EvidenceStep, Zenon
  <2>2. CASE ResolutionApplied(k)
    <3>1. /\ pc[k] = "persist" /\ pc'[k] = "conclude" /\ seen'[k] = journal'
          /\ journal'.stage = verdict[k] /\ UNCHANGED verdict
          /\ journal'.version = seen[k].version + 1
      BY <1>0, <2>2, Zenon
      DEF ResolutionApplied, CompareExchange, next_journal_version,
         Goto, CallTypes
    <3> QED
      BY <1>0, <3>1 DEF Resolving, Building, ResolvingPc, EvidencePc
  <2>3. CASE AdoptResolution(k)
    <3>1. /\ pc'[k] = "conclude" /\ seen'[k] = journal
          /\ journal.stage \in Evidence
      BY <1>0, <2>3, Zenon DEF AdoptResolution, Goto, CallTypes
    <3>2. journal.version > 0
      BY <1>0, <3>1 DEF Slot, Recorded, NoRecord, NoStage, Evidence
    <3> QED
      BY <3>1, <3>2, Zenon DEF Resolving, Building, ResolvingPc, EvidencePc
  <2>4. CASE RetryResolution(k)
    <3>1. /\ pc[k] = "persist" /\ seen'[k] = journal
          /\ UNCHANGED <<pc, prior, time, verdict, msg, executed, seqno, now>>
          /\ PendingRecord(journal) /\ journal.op = prior[k]
      BY <1>0, <2>4, Zenon
      DEF RetryResolution, Conflict, SamePending, CallTypes, chainVars
    <3> QED
      BY <1>0, <3>1, Zenon
      DEF Resolving, Building, ResolvingPc, EvidencePc, Established, Dead
  <2>5. CASE ConcludeForSend(k)
    <3>1. /\ pc[k] = "conclude" /\ pc'[k] = "journal_loaded" /\ UNCHANGED seen
          /\ verdict[k] \in Evidence
      BY <1>0, <2>5, Zenon DEF ConcludeForSend, Goto, CallTypes, locals
    <3>2. ~PendingRecord(seen[k])
      BY <1>0, <3>1, Zenon
      DEF Building, PendingRecord, permits_replacement, SettledStage, Evidence
    <3> QED
      BY <3>1, <3>2, Zenon
      DEF Resolving, Building, ResolvingPc, EvidencePc, MustResolve
  <2>6. CASE \/ AbandonResolution(k) \/ ResolutionHostError(k) \/ ConcludeCall(k)
             \/ HostFailure(k) \/ LateResult(k)
    BY <1>2, <2>6, Zenon
    DEF AbandonResolution, ResolutionHostError, ConcludeCall, HostFailure, LateResult
  <2> QED
    BY <1>6, <2>1, <2>2, <2>3, <2>4, <2>5, <2>6, Zenon DEF ResolutionStep
<1> QED
  BY <1>3, <1>4, <1>5, <1>6, Zenon DEF CallStep, StartStep

\* Every call keeps what its conclusion rests on, whoever takes the step.
LEMMA CallsKept ==
  ASSUME SendInv, [Next]_vars, Effects, TypeOK'
  PROVE  \A k \in Calls : (Resolving(k) /\ Building(k))'
<1>0. TypeOK /\ CallTypes
  BY Zenon DEF SendInv, TypeOK
<1>1. ASSUME NEW k \in Calls, CallStep(k), NEW j \in Calls
      PROVE  (Resolving(j) /\ Building(j))'
  <2>1. CASE j = k
    BY <1>1, <2>1, BuildingStep, Zenon
  <2>2. CASE j # k
    BY <1>0, <1>1, <2>2, FrameLemma, EvidenceKept, Zenon DEF Frame
  <2> QED
    BY <2>1, <2>2, Zenon
<1>2. ASSUME NEW c \in Clients, ClientStep(c), NEW j \in Calls
      PROVE  (Resolving(j) /\ Building(j))'
  <2>1. CASE Still(j)
    BY <2>1, EvidenceKept, Zenon
  <2>2. CASE ~Still(j)
    <3>1. Crash(c) /\ Home[j] = c
      BY <1>0, <1>2, <2>2, Zenon
      DEF ClientStep, cancel_send, BeginShutdown, FinishShutdown, Reopen, Crash,
          locals, Still, CallTypes
    <3>2. pc'[j] \in {"idle", "done"}
      BY <1>0, <3>1, Zenon DEF Crash, CallTypes
    <3> QED
      BY <3>2, Zenon DEF Resolving, Building, ResolvingPc, EvidencePc
  <2> QED
    BY <2>1, <2>2, Zenon
<1>3. ASSUME ChainStep \/ UNCHANGED vars, NEW j \in Calls
      PROVE  (Resolving(j) /\ Building(j))'
  <2>1. UNCHANGED <<pc, locals>>
    BY <1>3, Zenon DEF ChainStep, Execute, ExecuteForeign, Index, Tick, vars
  <2> QED
    BY <2>1, EvidenceKept, Zenon DEF Still, locals
<1> QED
  BY <1>1, <1>2, <1>3, Zenon DEF Next, CallStep, StartStep, Calls

-----------------------------------------------------------------------------
(* The theorems *)

\* The inductive invariant holds when the first client is created.
LEMMA InitInv == Init => SendInv
<1> SUFFICES ASSUME Init PROVE SendInv
  OBVIOUS
<1> USE CallsAssumption, NumbersAssumption DEF Init
<1>1. TypeOK
  <2>1. journal \in JournalRecord /\ NoRecord \in JournalRecord
    BY Zenon DEF JournalRecord, NoRecord
  <2>2. ClientTypes
    BY Phases, Zenon DEF ClientTypes, Snapshot, NewSnapshot
  <2>3. CallTypes
    BY <2>1 DEF CallTypes, Pc, Verdict
  <2>4. stage \in [Ops -> SendStage] /\ msg \in [Ops -> Message]
    BY Zenon DEF SendStage, VolatileStage, Message
  <2> QED
    BY <2>1, <2>2, <2>3, <2>4 DEF TypeOK, ChainTypes
<1>2. Control
  BY Zenon
  DEF Control, ControlOf, StageOf, ResolverPc, ResolvingPc, EvidencePc, Calls
<1>3. Slot /\ SeenIsPast
  BY DEF Slot, Recorded, SeenIsPast, NoRecord
<1>4. Custody /\ Chain
  BY DEF Custody, Chain, Calls
<1>5. \A k \in Calls : Resolving(k) /\ Building(k)
  BY Zenon DEF Resolving, Building, ResolvingPc, EvidencePc
<1>6. Concluded /\ Tracked /\ CommittedSendKeepsSlot
  BY DEF Concluded, Tracked, CommittedSendKeepsSlot, CommittedPc, NoRecord, Calls
<1> QED
  BY <1>1, <1>2, <1>3, <1>4, <1>5, <1>6, Zenon DEF SendInv

\* Every step preserves the inductive invariant.
LEMMA StepInv == SendInv /\ [Next]_vars => SendInv'
<1> SUFFICES ASSUME SendInv, [Next]_vars PROVE SendInv'
  OBVIOUS
<1>1. TypeOK'
  BY TypeStep, Zenon
<1>2. Effects
  BY StepEffects, Zenon
<1>3. Slot' /\ SeenIsPast'
  BY <1>1, <1>2, SlotKept, Zenon
<1>4. Custody' /\ Chain'
  BY <1>1, <1>2, CustodyKept, ChainKept, Zenon
<1>5. (\A k \in Calls : Resolving(k) /\ Building(k))'
  BY <1>1, <1>2, CallsKept, Zenon
<1>6. Concluded' /\ Tracked'
  BY <1>1, <1>2, ConcludedKept, TrackedKept, Zenon
<1> QED
  BY <1>1, <1>2, <1>3, <1>4, <1>5, <1>6, Zenon DEF SendInv, Effects

\* The inductive invariant of the durable send holds in every reachable state,
\* for any number of clients, calls and transactions.
THEOREM Invariance == Spec => []SendInv
BY InitInv, StepInv, PTL DEF Spec

\* The variables of the durable send keep their types.
THEOREM TypeCorrect == Spec => []TypeOK
<1>1. SendInv => TypeOK
  BY Zenon DEF SendInv
<1> QED
  BY <1>1, Invariance, PTL

\* The conclusion in the journal is true: Confirmed means executed, and
\* Replaced, Expired and Failed mean that the message was not executed and
\* never will be (resolve_pending_with_owner, submit_prepared_send).
THEOREM JournalTrue == Spec => []JournalIsTrue
<1>1. SendInv => JournalIsTrue
  <2> SUFFICES ASSUME SendInv, journal.version > 0
               PROVE  Claim(journal.op, journal.stage)
    BY Zenon DEF JournalIsTrue
  <2>1. /\ Established(journal.op, journal.stage)
        /\ journal.stage = "Failed" =>
             journal.op \notin network /\ pc[journal.op] = "done"
    BY Zenon DEF SendInv, Concluded
  <2>2. executed \subseteq network
    BY Zenon DEF SendInv, TypeOK, ChainTypes
  <2>3. journal.stage # "Cancelled"
    BY DEF SendInv, Slot, Recorded, NoRecord, PendingStage, Evidence
  <2> QED
    BY <2>1, <2>2, <2>3, Zenon DEF Established, Claim, CannotExecute, Withheld
<1> QED
  BY <1>1, Invariance, PTL

\* A committed send is never cancelled: cancel_send, prepare_shutdown and
\* other calls leave it its slot.
THEOREM CommittedKeepsSlot == Spec => []CommittedSendKeepsSlot
<1>1. SendInv => CommittedSendKeepsSlot
  BY Zenon DEF SendInv
<1> QED
  BY <1>1, Invariance, PTL

\* Without `force`, a message that can still execute is the one that the
\* journal holds as pending, whatever crashes in between.
THEOREM LiveRecorded == Spec => []LiveMessageIsRecorded
<1>1. SendInv => LiveMessageIsRecorded
  BY Zenon DEF SendInv, TypeOK, ChainTypes, Tracked, LiveMessageIsRecorded
<1> QED
  BY <1>1, Invariance, PTL

\* A settled record is final for its operation: the compare-and-swap only
\* applies to the pending record the writer has read.
THEOREM EvidenceFinal == Spec => EvidenceIsFinal
<1>1. SendInv /\ [Next]_vars =>
        [journal.stage \in SettledStage /\ journal'.op = journal.op =>
           journal' = journal]_vars
  <2> SUFFICES ASSUME SendInv, [Next]_vars, journal.stage \in SettledStage,
                      journal'.op = journal.op
               PROVE  journal' = journal
    OBVIOUS
  <2>1. Effects
    BY StepEffects, Zenon
  <2>2. ~PendingRecord(journal)
    BY Zenon DEF PendingRecord, permits_replacement
  <2>3. ASSUME NEW k \in Calls, Writes(k)
        PROVE  FALSE
    <3>1. pc[k] = "commit" /\ k \in Ops /\ journal'.op = k
      BY <2>2, <2>3, Zenon DEF Writes
    <3>2. journal.op = k /\ pc[k] \in RecordedPc
      BY <3>1 DEF SendInv, Slot, Recorded, NoRecord, NoStage, SettledStage
    <3> QED
      BY <3>1, <3>2, Zenon DEF RecordedPc
  <2> QED
    BY <2>1, <2>3, Zenon DEF Effects
<1> QED
  BY <1>1, Invariance, PTL DEF Spec, EvidenceIsFinal

\* Another message takes the slot only when the one it held can no longer
\* execute, or when the caller set `force`.
THEOREM SafeReplacement == Spec => ReplacementIsSafe
<1>1. SendInv /\ [Next]_vars =>
        [journal'.op # journal.op /\ journal.version > 0 =>
           \/ journal'.op \in Forced
           \/ journal.op \in executed
           \/ CannotExecute(journal.op)]_vars
  <2> SUFFICES ASSUME SendInv, [Next]_vars, journal'.op # journal.op,
                      journal.version > 0
               PROVE  \/ journal'.op \in Forced
                      \/ journal.op \in executed
                      \/ CannotExecute(journal.op)
    OBVIOUS
  <2>1. PICK k \in Calls : Writes(k)
    BY StepEffects, Zenon DEF Effects
  <2>2. seen[k] = journal /\ journal'.op = k /\ ~MustResolve(k)
    BY <2>1, Zenon DEF Writes
  <2>3. CASE k \in Forced
    BY <2>2, <2>3, Zenon
  <2>4. CASE k \notin Forced
    <3>1. journal.stage \in SettledStage
      BY <2>2, <2>4, Zenon DEF MustResolve, PendingRecord, permits_replacement
    <3>2. journal.stage \in Evidence \cup {"Failed"}
      BY <3>1 DEF SendInv, Slot, Recorded, NoRecord, NoStage, SettledStage,
         PendingStage, Evidence
    <3>3. /\ Established(journal.op, journal.stage)
          /\ journal.stage = "Failed" =>
               journal.op \notin network /\ pc[journal.op] = "done"
      BY Zenon DEF SendInv, Concluded
    <3> QED
      BY <3>2, <3>3, Zenon DEF Evidence, Established, CannotExecute, Withheld
  <2> QED
    BY <2>3, <2>4, Zenon
<1> QED
  BY <1>1, Invariance, PTL DEF Spec, ReplacementIsSafe

-----------------------------------------------------------------------------
(* The abstract slot *)

\* A recorded stage is pending or settled, and decides the status of the slot.
LEMMA StatusOfRecord ==
  ASSUME SendInv
  PROVE  SlotStatus = "Open" <=> PendingRecord(journal)
<1>1. CASE journal = NoRecord
  <2>1. journal.version = 0
    BY <1>1, Zenon DEF NoRecord
  <2> QED
    BY <2>1 DEF SlotStatus, PendingRecord
<1>2. CASE /\ journal.version > 0
           /\ journal.stage \in PendingStage \cup Evidence \cup {"Failed"}
  <2>1. journal.version # 0
    BY <1>2 DEF SendInv, TypeOK, JournalRecord
  <2> QED
    BY <1>2, <2>1
    DEF SlotStatus, PendingRecord, permits_replacement, SettledStage,
        PendingStage, Evidence
<1> QED
  BY <1>1, <1>2, Zenon DEF SendInv, Slot, Recorded

\* Only the pending message is live.
LEMMA OnlyPendingIsLive ==
  ASSUME SendInv, Forced = {}
  PROVE  \A k \in Live : k = journal.op /\ PendingRecord(journal)
BY Zenon DEF SendInv, TypeOK, ChainTypes, Tracked, Live

\* A message that is in the network keeps its content, so it is live after a
\* step only if it was before.
LEMMA LiveShrinks ==
  ASSUME SendInv, Effects, TypeOK'
  PROVE  \A k \in Live' : k \in network => k \in Live
<1> SUFFICES ASSUME NEW k \in Live', k \in network
             PROVE  k \in Live
  OBVIOUS
<1>1. k \in Ops /\ pc[k] \in RecordedPc
  BY Zenon DEF SendInv, TypeOK, ChainTypes, Custody, RecordedPc
<1>2. Dead(k) => Dead(k)'
  BY <1>1, Stability, Zenon
<1> QED
  BY <1>2, Zenon DEF Live, Effects, Monotone

\* Nothing ends twice.
LEMMA EndedGrows ==
  ASSUME Effects
  PROVE  Ended \subseteq Ended' /\ Ended' \in SUBSET Ops
BY Zenon DEF Ended, Effects, Moves

\* When the chain and the messages stand still, so does what is live.
LEMMA LiveStands ==
  ASSUME SendInv, Effects, UNCHANGED <<network, executed, seqno, now>>
  PROVE  Live' = Live
<1>1. \A k \in network : msg'[k] = msg[k]
  BY Zenon DEF SendInv, TypeOK, ChainTypes, Custody, RecordedPc, Effects, Moves
<1>2. \A k \in network : Dead(k)' <=> Dead(k)
  BY <1>1, Zenon DEF Dead
<1> QED
  BY <1>2, Zenon DEF Live

-----------------------------------------------------------------------------
(* Every step is a step of the slot, or leaves it alone *)

\* A step that writes no record, releases no message and leaves the chain
\* alone only ends operations.
LEMMA QuietStep ==
  ASSUME SendInv, Effects, UNCHANGED <<journal, network, executed, seqno, now>>
  PROVE  P!Next
<1>1. Live' = Live
  BY LiveStands, Zenon
<1>2. Ended' = Ended \cup Ended' /\ Ended' \in SUBSET Ops
  BY EndedGrows, Zenon
<1>3. SlotStatus' = SlotStatus
  BY Zenon DEF SlotStatus
<1>4. P!GiveUp(Ended')
  BY <1>1, <1>2, <1>3, Zenon DEF P!GiveUp
<1> QED
  BY <1>2, <1>4, Zenon DEF P!Next

\* submit_prepared_send and sign_message let a message go only while it is the
\* pending one, or dead by now.
LEMMA ReleaseStep ==
  ASSUME SendInv, Forced = {}, Effects, TypeOK', NEW k \in Ops, Frame(k),
         k \in network' \ network, UNCHANGED journal
  PROVE  [P!Next]_(P!vars)
<1>1. pc[k] \in {"submit", "handoff"} /\ pc'[k] \in RecordedPc
  BY Zenon DEF Effects, Moves, RecordedPc
<1>2. Ended' = Ended
  BY <1>1, Zenon DEF Ended, Frame, Still, Calls, RecordedPc
<1>3. SlotStatus' = SlotStatus
  BY Zenon DEF SlotStatus
<1>4. Dead(k)' <=> Dead(k)
  BY <1>1, Zenon DEF Dead, Frame, Effects, Moves, RecordedPc
<1>5. \A j \in network : j \in Live' <=> j \in Live
  BY Zenon DEF Live, Frame, Dead, SendInv, TypeOK, ChainTypes
<1>6. k \notin executed /\ k \notin Live
  BY Zenon DEF SendInv, TypeOK, ChainTypes, Live
<1>7. network' = network \cup {k} /\ executed' = executed
  BY Zenon DEF Frame
<1>8. CASE Dead(k)
  <2>1. Live' = Live
    BY <1>4, <1>5, <1>7, <1>8, Zenon DEF Live
  <2> QED
    BY <1>2, <1>3, <1>7, <2>1, Zenon DEF P!vars
<1>9. CASE ~Dead(k)
  <2>1. journal.op = k /\ PendingRecord(journal)
    BY <1>1, <1>9, Zenon DEF SendInv, Tracked
  <2>2. Live' = Live \cup {k}
    BY <1>4, <1>5, <1>6, <1>7, <1>9, Zenon DEF Live
  <2>3. P!Release
    BY <1>2, <1>3, <1>6, <1>7, <2>1, <2>2, StatusOfRecord, Zenon DEF P!Release
  <2> QED
    BY <2>3, Zenon DEF P!Next
<1> QED
  BY <1>8, <1>9, Zenon

\* The settled status of a stage is as true as the stage.
LEMMA SettleStep ==
  ASSUME SendInv, SendInv', Effects, PendingRecord(journal),
         ~PendingRecord(journal'), journal'.op = journal.op,
         journal'.version > 0, UNCHANGED <<network, executed, seqno, now>>
  PROVE  P!Next
<1>1. Live' = Live /\ Ended' = Ended \cup Ended' /\ Ended' \in SUBSET Ops
  BY LiveStands, EndedGrows, Zenon
<1>2. SlotStatus = "Open"
  BY StatusOfRecord, Zenon
<1>3. /\ journal.op \in Ops
      /\ journal'.stage \in Evidence \cup {"Failed"}
  BY DEF SendInv, Slot, Recorded, NoRecord, PendingRecord, permits_replacement,
     SettledStage, PendingStage, Evidence
<1>4. /\ Established(journal.op, journal.stage)'
      /\ journal'.stage = "Failed" => journal.op \notin network
  BY Zenon DEF SendInv, Concluded
<1>5. executed \subseteq network
  BY Zenon DEF SendInv, TypeOK, ChainTypes
<1>6. journal.op \notin Live'
  BY <1>3, <1>4, <1>5, Zenon DEF Evidence, Established, Live
<1>7. journal'.version # 0
  BY DEF SendInv, TypeOK, JournalRecord
<1>8. /\ SlotStatus' \in P!Settled
      /\ SlotStatus' = "Executed" => journal.op \in executed
      /\ SlotStatus' = "Void" => journal.op \notin executed
  BY <1>3, <1>4, <1>5, <1>7
  DEF SlotStatus, Evidence, Established, SettledStage, P!Settled
<1>9. P!Settle(SlotStatus', Ended')
  BY <1>1, <1>2, <1>6, <1>8, Zenon DEF P!Settle
<1> QED
  BY <1>1, <1>8, <1>9, Zenon DEF P!Next

\* A prepared record takes the slot only from a settled one.
LEMMA RecordStep ==
  ASSUME SendInv, SendInv', Forced = {}, Effects, NEW k \in Ops, Frame(k),
         Writes(k), pc[k] = "commit", UNCHANGED network
  PROVE  P!Next
<1>1. /\ journal'.op = k /\ pc'[k] \in RecordedPc
      /\ journal'.stage \in {"ReadyToSubmit", "HandedOff"}
      /\ ~PendingRecord(journal)
  BY Zenon DEF Writes, MustResolve
<1>2. PendingRecord(journal')
  <2>1. journal'.version > 0
    BY DEF Writes, SendInv, TypeOK, JournalRecord
  <2> QED
    BY <1>1, <2>1 DEF PendingRecord, permits_replacement, SettledStage
<1>3. SlotStatus # "Open" /\ SlotStatus' = "Open"
  <2>1. SlotStatus # "Open"
    BY <1>1, StatusOfRecord, Zenon
  <2>2. journal'.version # 0
    BY <1>2 DEF PendingRecord, SendInv, TypeOK, JournalRecord
  <2> QED
    BY <1>1, <2>1, <2>2 DEF SlotStatus, SettledStage
<1>4. k \notin Ended /\ Ended' = Ended \cup {k}
  BY <1>1, Zenon DEF Ended, Frame, Still, Calls, RecordedPc
<1>5. Live' = Live /\ executed' = executed
  BY LiveStands, Zenon DEF Frame
<1>6. P!Record(k)
  BY <1>1, <1>3, <1>4, <1>5, Zenon DEF P!Record
<1> QED
  BY <1>6, Zenon DEF P!Next

\* What a call does to the slot.
LEMMA CallRefines ==
  ASSUME SendInv, SendInv', Forced = {}, NEW k \in Calls, CallStep(k)
  PROVE  [P!Next]_(P!vars)
<1>1. Effects /\ TypeOK' /\ Frame(k)
  BY CallEffects, FrameLemma, Zenon DEF SendInv
<1>2. UNCHANGED journal \/ Writes(k)
  BY WriteStep, Zenon
<1>3. network' = network \/ k \in network' \ network
  BY <1>1, Zenon DEF Frame
<1>4. CASE k \in network' \ network
  <2>1. k \in Ops /\ pc[k] \in {"submit", "handoff"}
    BY <1>1, <1>4, Zenon DEF TypeOK, ChainTypes, Effects, Moves
  <2>2. UNCHANGED journal
    BY <1>2, <2>1, Zenon DEF Writes
  <2> QED
    BY <1>1, <1>4, <2>1, <2>2, ReleaseStep, Zenon
<1>5. CASE network' = network /\ UNCHANGED journal
  BY <1>1, <1>5, QuietStep, Zenon DEF Frame
<1>6. CASE network' = network /\ Writes(k) /\ pc[k] = "commit"
  BY <1>1, <1>6, RecordStep, Zenon DEF Writes
<1>7. CASE network' = network /\ Writes(k) /\ pc[k] \in {"persist", "terminal"}
  <2>1. PendingRecord(journal) /\ journal'.op = journal.op
    BY <1>7, Zenon DEF Writes
  <2>2. journal'.version > 0
    BY <1>7 DEF Writes, SendInv, TypeOK, JournalRecord
  <2>3. CASE ~PendingRecord(journal')
    BY <1>1, <1>7, <2>1, <2>2, <2>3, SettleStep, Zenon DEF Frame
  <2>4. CASE PendingRecord(journal')
    <3>1. pc[k] = "terminal" /\ k \in Ops /\ pc'[k] = "done"
      <4>1. pc[k] # "persist"
        BY <1>7, <2>4
        DEF Writes, PendingRecord, permits_replacement, Evidence, SettledStage
      <4> QED
        BY <1>7, <4>1, Zenon DEF Writes
    <3>2. Ended' = Ended
      BY <1>1, <3>1, Zenon DEF Ended, Frame, Still, Calls, RecordedPc
    <3>3. SlotStatus' = SlotStatus
      <4>1. SlotStatus = "Open"
        BY <2>1, StatusOfRecord, Zenon
      <4>2. /\ journal'.version # 0
            /\ journal'.stage \notin SettledStage
        BY <2>4 DEF PendingRecord, permits_replacement, SendInv, TypeOK,
           JournalRecord
      <4> QED
        BY <4>1, <4>2 DEF SlotStatus, SettledStage
    <3>4. Live' = Live /\ executed' = executed
      BY <1>1, <1>7, LiveStands, Zenon DEF Frame
    <3> QED
      BY <2>1, <3>2, <3>3, <3>4, Zenon DEF P!vars
  <2> QED
    BY <2>3, <2>4, Zenon
<1> QED
  BY <1>2, <1>3, <1>4, <1>5, <1>6, <1>7, Zenon DEF Writes

\* What the chain does to the slot.
LEMMA ChainRefines ==
  ASSUME SendInv, SendInv', Forced = {}, ChainStep
  PROVE  [P!Next]_(P!vars)
<1>1. Effects /\ TypeOK'
  BY ChainEffects, Zenon DEF SendInv
<1>2. UNCHANGED <<journal, pc, msg, network>>
  BY Zenon
  DEF ChainStep, Execute, ExecuteForeign, Index, Tick, clientVars, locals
<1>3. SlotStatus' = SlotStatus /\ Ended' = Ended
  BY <1>2, Zenon DEF SlotStatus, Ended
<1>4. Live' \subseteq Live
  BY <1>1, <1>2, LiveShrinks, Zenon DEF Live
<1>5. \A j \in Live : j = journal.op
  BY OnlyPendingIsLive, Zenon
<1>6. ASSUME NEW k \in Ops, Execute(k)
      PROVE  P!Next
  <2>1. k \in network \ executed /\ executed' = executed \cup {k} /\ Acceptable(k)
    BY <1>6, Zenon DEF Execute
  <2>2. ~Dead(k)
    BY <2>1 DEF Acceptable, Dead, SendInv, TypeOK, ChainTypes, Message
  <2>3. k \in Live
    BY <2>1, <2>2, Zenon DEF Live
  <2>4. Live' = Live \ {k}
    BY <1>4, <1>5, <2>1, <2>3, Zenon DEF Live
  <2>5. P!Execute(k)
    BY <1>2, <1>3, <2>1, <2>3, <2>4, Zenon DEF P!Execute
  <2> QED
    BY <2>5, Zenon DEF P!Next
<1>7. ASSUME ExecuteForeign \/ Index \/ Tick
      PROVE  [P!Next]_(P!vars)
  <2>1. executed' = executed
    BY <1>7, Zenon DEF ExecuteForeign, Index, Tick
  <2>2. Live' = Live \/ Live' = {}
    BY <1>4, <1>5, Zenon
  <2>3. CASE Live' = Live
    BY <1>2, <1>3, <2>1, <2>3, Zenon DEF P!vars
  <2>4. CASE Live' = {}
    <3>1. P!Lapse
      BY <1>2, <1>3, <2>1, <2>4, Zenon DEF P!Lapse
    <3> QED
      BY <3>1, Zenon DEF P!Next
  <2> QED
    BY <2>2, <2>3, <2>4, Zenon
<1> QED
  BY <1>6, <1>7, Zenon DEF ChainStep

\* The slot is empty at first.
LEMMA InitRefines == Init => P!Init
<1> SUFFICES ASSUME Init PROVE P!Init
  OBVIOUS
<1>1. journal.version = 0 /\ journal.op = Nobody
  BY Zenon DEF Init, NoRecord
<1>2. Ended = {} /\ Live = {} /\ executed = {}
  BY Zenon DEF Init, Ended, Live, RecordedPc, Calls
<1>3. SlotStatus = "Empty"
  BY <1>1, Zenon DEF SlotStatus
<1> QED
  BY <1>1, <1>2, <1>3, Zenon DEF P!Init

\* Every step of the durable send is a step of the slot or leaves it alone.
LEMMA StepRefines ==
  ASSUME SendInv, SendInv', Forced = {}, [Next]_vars
  PROVE  [P!Next]_(P!vars)
<1>1. CASE \E k \in Calls : CallStep(k)
  BY <1>1, CallRefines, Zenon
<1>2. CASE \E c \in Clients : ClientStep(c)
  <2>1. Effects
    BY <1>2, ClientEffects, Zenon
  <2>2. UNCHANGED <<journal, network, executed, seqno, now>>
    BY <1>2, Zenon
    DEF ClientStep, cancel_send, BeginShutdown, FinishShutdown, Reopen, Crash,
        chainVars
  <2> QED
    BY <2>1, <2>2, QuietStep, Zenon
<1>3. CASE ChainStep
  BY <1>3, ChainRefines, Zenon
<1>4. CASE UNCHANGED vars
  <2>1. Effects
    BY <1>4, ChainEffects, Zenon
  <2>2. UNCHANGED <<journal, network, executed, seqno, now>>
    BY <1>4, Zenon DEF vars, chainVars
  <2> QED
    BY <2>1, <2>2, QuietStep, Zenon
<1> QED
  BY <1>1, <1>2, <1>3, <1>4, Zenon DEF Next, CallStep, StartStep, Calls

\* As long as no caller sets `force`, the clients, their futures, crashes and
\* conflicting writes together behave as one slot that holds one payment at a
\* time and settles it truthfully (submit_prepared_send, sign_message,
\* resolve_pending_with_owner, persist_send_resolution).
THEOREM Refinement ==
  ASSUME Forced = {}
  PROVE  Spec => ImplementsPaymentSlot
<1>1. SendInv /\ SendInv' /\ [Next]_vars => [P!Next]_(P!vars)
  BY StepRefines, Zenon
<1> QED
  BY <1>1, InitRefines, Invariance, PTL DEF Spec, P!Spec, ImplementsPaymentSlot

\* The promise keeps payments apart, and so does the durable send: the only
\* message outside the engine that can still execute is the one that the journal
\* records as pending (pending_send_record, which every signature waits for).
THEOREM Exclusive ==
  ASSUME Forced = {}
  PROVE  Spec => []P!OneAtATime
<1>1. P!Init => P!OneAtATime
  BY Zenon DEF P!Init, P!OneAtATime
<1>2. P!OneAtATime /\ [P!Next]_(P!vars) => P!OneAtATime'
  BY Zenon
  DEF P!OneAtATime, P!Next, P!vars, P!Record, P!GiveUp, P!Release, P!Execute, P!Lapse,
      P!Settle
<1> QED
  BY <1>1, <1>2, Refinement, PTL DEF P!Spec, ImplementsPaymentSlot

\* A payment that the journal settled is never executed afterwards, and its
\* verdict stands until another payment takes the slot
\* (SendStage::permits_replacement).
THEOREM Final ==
  ASSUME Forced = {}
  PROVE  Spec => P!SettledIsFinal
<1>1. P!OneAtATime /\ [P!Next]_(P!vars) =>
        [(journal.op)' = journal.op /\ SlotStatus \in P!Settled /\ SlotStatus' # "Open" =>
           SlotStatus' = SlotStatus /\ executed' = executed]_(P!vars)
  BY Zenon
  DEF P!OneAtATime, P!Next, P!vars, P!Record, P!GiveUp, P!Release, P!Execute, P!Lapse,
      P!Settle, P!Settled
<1> QED
  BY <1>1, Exclusive, Refinement, PTL DEF P!Spec, P!SettledIsFinal, ImplementsPaymentSlot
=============================================================================
