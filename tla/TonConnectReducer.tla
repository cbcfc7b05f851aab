-------------------------- MODULE TonConnectReducer --------------------------
(***************************************************************************)
(* The pure part of one wallet-side TON Connect session: the reducer of    *)
(* ton-connect-core/src/session_state.rs, the rules for a stored session   *)
(* (http_session.rs, ton-connect-client/src/lib.rs), and the cursor that   *)
(* the dApp keeps over the wallet's events.                                *)
(*                                                                         *)
(* Request and event ids are naturals: the order of RpcRequestId is the    *)
(* order of the numbers its decimal text stands for.                       *)
(***************************************************************************)
EXTENDS Integers, FiniteSets

None == -1

Phase == {"PendingConnect", "Connected", "Disconnected"}

EventKind == {"Connect", "ConnectError", "Disconnect"}

\* A message that another peer encrypted.
Foreign == "foreign"

\* PhaseAfter[p, k]: the phase that an event of kind k leads to.
PhaseAfter ==
  [t \in {<<"PendingConnect", "Connect">>, <<"PendingConnect", "ConnectError">>,
          <<"Connected", "Disconnect">>} |->
     IF t[2] = "Connect" THEN "Connected" ELSE "Disconnected"]

\* A session before its connect request is answered.
pending_connect ==
  [phase |-> "PendingConnect", request |-> None, event |-> None,
   address |-> FALSE, cursor |-> 0, pending |-> {}, post |-> {}]

can_prepare_event(s, kind) == <<s.phase, kind>> \in DOMAIN PhaseAfter

next_event_id(s) == s.event + 1

prepare_event(s, kind) ==
  [s EXCEPT !.phase = PhaseAfter[s.phase, kind], !.event = next_event_id(s)]

\* The reducer takes a request only when connected and strictly newer.
is_fresh(s, m) == s.phase = "Connected" /\ m.id > s.request

prepare_request(s, m) ==
  [s EXCEPT !.request = m.id,
            !.phase = IF m.kind = "disconnect" THEN "Disconnected" ELSE @]

\* What a stored session must satisfy to be read back.
validate_account_binding(s) ==
  /\ s.phase = "PendingConnect" => ~s.address
  /\ s.phase = "Connected" => s.address

RestorableState(s) ==
  IF s.phase = "PendingConnect"
  THEN s.request = None /\ s.event = None
  ELSE s.event # None

Restorable(s) ==
  /\ RestorableState(s) /\ validate_account_binding(s)
  /\ \A m, n \in s.pending : m.id = n.id => m = n

-----------------------------------------------------------------------------
(* The dApp's side: the cursor over the wallet's events.                   *)

terminates_session(kind) == kind \in {"ConnectError", "Disconnect"}

new_cursor == [last |-> None, terminated |-> FALSE]

accepts_event(c, m) == ~c.terminated /\ m.id > c.last

advance_cursor(c, m) == [last |-> m.id, terminated |-> terminates_session(m.kind)]
=============================================================================
