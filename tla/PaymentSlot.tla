---------------------------- MODULE PaymentSlot -----------------------------
(***************************************************************************)
(* What the durable send promises, without clients, futures, crashes,      *)
(* providers or clocks: one slot that holds one payment at a time.  A      *)
(* payment takes the slot before it can leave the engine, nothing else     *)
(* takes the slot while the payment is open, and a settled payment says    *)
(* what became of it for good.  WalletSend implements this specification   *)
(* as long as no caller sets `force`.                                      *)
(***************************************************************************)
CONSTANTS Ops, Nobody

VARIABLES
  holder,    \* the payment the slot holds, or held last
  status,    \* what the slot says of it
  ended,     \* the payments that can no longer take the slot
  live,      \* the payments outside the engine that can still execute
  executed   \* the payments that were executed

vars == <<holder, status, ended, live, executed>>

Settled == {"Executed", "Void", "Consumed"}

Init ==
  /\ holder = Nobody
  /\ status = "Empty"
  /\ ended = {}
  /\ live = {}
  /\ executed = {}

\* A payment takes the free slot, once.
Record(k) ==
  /\ status # "Open"
  /\ k \notin ended
  /\ holder' = k
  /\ status' = "Open"
  /\ ended' = ended \cup {k}
  /\ UNCHANGED <<live, executed>>

\* Operations end without having taken the slot.
GiveUp(K) ==
  /\ ended' = ended \cup K
  /\ UNCHANGED <<holder, status, live, executed>>

\* The open payment leaves the engine.
Release ==
  /\ status = "Open"
  /\ holder \notin executed
  /\ live' = live \cup {holder}
  /\ UNCHANGED <<holder, status, ended, executed>>

Execute(k) ==
  /\ k \in live
  /\ live' = live \ {k}
  /\ executed' = executed \cup {k}
  /\ UNCHANGED <<holder, status, ended>>

\* Time passes or another transaction takes the seqno.
Lapse ==
  /\ live' = {}
  /\ UNCHANGED <<holder, status, ended, executed>>

\* The slot is settled with what became of the payment; the operations that
\* find it out may end at once.
Settle(s, K) ==
  /\ status = "Open"
  /\ holder \notin live
  /\ s = "Executed" => holder \in executed
  /\ s = "Void" => holder \notin executed
  /\ status' = s
  /\ ended' = ended \cup K
  /\ UNCHANGED <<holder, live, executed>>

Next ==
  \/ \E k \in Ops : Record(k) \/ Execute(k)
  \/ \E K \in SUBSET Ops : GiveUp(K) \/ \E s \in Settled : Settle(s, K)
  \/ Release \/ Lapse

Spec == Init /\ [][Next]_vars

-----------------------------------------------------------------------------
(* What follows from the promise *)

\* Only the payment of the open slot can still execute (pending_send_record,
\* which every signature waits for).
OneAtATime == live # {} => live = {holder} /\ status = "Open"

\* What a settled slot says of its payment stays true: no later step executes
\* it or changes the record for it (SendStage::permits_replacement).
SettledIsFinal ==
  [][ holder' = holder /\ status \in Settled /\ status' # "Open" =>
        status' = status /\ executed' = executed ]_vars
=============================================================================
