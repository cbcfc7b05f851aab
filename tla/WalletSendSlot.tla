--------------------------- MODULE WalletSendSlot ---------------------------
(***************************************************************************)
(* The durable send as an implementation of PaymentSlot: the journal is    *)
(* the slot, a pending stage is an open payment, and a message is live     *)
(* while it is outside the engine, unexecuted and not dead.                *)
(***************************************************************************)
EXTENDS WalletSendInv

SlotStatus ==
  IF journal.version = 0 THEN "Empty"
  ELSE IF journal.stage = "Confirmed" THEN "Executed"
  ELSE IF journal.stage = "SequenceNumberConsumed" THEN "Consumed"
  ELSE IF journal.stage \in SettledStage THEN "Void"
  ELSE "Open"

Ended == {k \in Ops : pc[k] \in RecordedPc}

Live == {k \in network \ executed : ~Dead(k)}

P == INSTANCE PaymentSlot WITH
       holder <- journal.op, status <- SlotStatus, ended <- Ended, live <- Live

\* Without `force`, the clients, their futures, crashes and conflicting writes
\* together behave as one slot that holds one payment at a time and settles it
\* truthfully (submit_prepared_send, sign_message, resolve_pending_with_owner,
\* persist_send_resolution).
ImplementsPaymentSlot == P!Spec
=============================================================================
