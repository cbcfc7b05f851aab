---------------------------- MODULE MCWalletSend ----------------------------
(***************************************************************************)
(* Small instances of WalletSend.  A run has one or more plans: which of   *)
(* the calls the application makes, and how far the clock, the wallet and  *)
(* the disruptions go.  A behavior follows one plan from start to end.     *)
(***************************************************************************)
EXTENDS WalletSendSlot, TLC

CONSTANTS c1, c2, s1, s2, t2, f1, g1, r1, r2,
          Plans

VARIABLE plan

Plan(calls, faults, clock, transactions) ==
  [calls |-> calls, faults |-> faults, clock |-> clock, transactions |-> transactions]

\* Calls with a 2 in their name are made by the second process.
MCHome == [k \in Calls |-> IF k \in {t2, r2} THEN c2 ELSE c1]

\* Every call of the instance.
Everything == {Plan(Calls, MaxDisruptions, MaxTime, MaxSeqno)}

\* Two sends of one process, and a send of each of two processes; a message that is
\* signed for a relayer, beside a send, a resolver or both.  There is one transaction
\* while time passes, or two transactions in no time.
WaitOrHurry ==
  {Plan({s1, s2}, 1, 2, 1), Plan({s1, s2}, 0, 3, 1), Plan({s1, s2}, 1, 0, 2),
   Plan({s1, t2}, 0, 0, 2), Plan({s1, t2}, 0, 1, 1), Plan({s1, g1}, 0, 3, 1),
   Plan({g1, r1}, 0, 3, 1), Plan({s1, g1, r1}, 0, 0, 2), Plan({s1, g1, r1}, 0, 1, 1)}

\* A resolver of another process, under a lagging clock; a forced send.
RaceOrForce ==
  {Plan({s1, r2}, 1, 3, 1), Plan({s1, f1}, 0, 2, 2)}

\* A resolver beside a send, and beside a message that is handed off.
SentOrHandedOff ==
  {Plan({s1, r1}, 1, 3, 1), Plan({g1, r1}, 1, 3, 1)}

\* What the plan leaves out does not happen.
Planned ==
  /\ \A k \in Calls \ plan.calls : pc'[k] = "idle"
  /\ \A c \in Clients \ {Home[k] : k \in plan.calls} : mode'[c] = "running"
  /\ disruptions' <= plan.faults /\ now' <= plan.clock /\ seqno' <= plan.transactions
  /\ UNCHANGED plan

PlannedInit == Init /\ plan \in Plans

PlannedNext == Next /\ Planned

PlannedSpec == PlannedInit /\ [][PlannedNext]_<<vars, plan>>

PlannedFairSpec == PlannedSpec /\ Fairness

-----------------------------------------------------------------------------
\* What is sent comes to an end (resolve_pending and shutdown): a message that is
\* pending is settled within its window, and a client that is shut down stops.
SendsEnd == PendingIsSettled /\ ShutdownEnds
=============================================================================
