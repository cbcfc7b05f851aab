-------------------------- MODULE TonConnectSession --------------------------
(***************************************************************************)
(* A native TON Connect session from link to disconnect: the Rust object   *)
(* TonConnectSession (src/ton_connect.rs over ton-connect-client), the     *)
(* Swift coordinator that drives it, its keychain, the HTTP bridge, and    *)
(* the dApp.                                                               *)
(*                                                                         *)
(* The coordinator runs on the main actor.  A user operation and the       *)
(* listener task interleave at every await: the keychain, a bridge POST,   *)
(* a proof, a preview, the event stream.  A superseded listener is         *)
(* cancelled and finishes the await it is in.  Nothing keeps two tasks     *)
(* from delivering the same staged message.  The keychain is an actor, so  *)
(* its writes happen in the order of the calls.  A crash loses everything  *)
(* but the keychain, the bridge and the dApp.                              *)
(***************************************************************************)
EXTENDS TonConnectReducer, Sequences, SequencesExt

CONSTANTS Kinds,       \* the kinds of messages that reach the bridge
          MaxWire,     \* bound on those messages
          MaxChunk,    \* bound on the events of one SSE chunk
          MaxFaults,   \* bound on failed posts, previews, streams and writes
          MaxCrashes   \* bound on crashes

Procs == {"ui", "cur", "old"}  \* the user, the listener, a superseded listener

VARIABLES
  sess,     \* the state behind the mutex of TonConnectSession
  held,     \* the coordinator's rustSession is not nil
  disk,     \* the stored session: at most one
  approval, \* the prompt that is shown: at most one
  loc,      \* where every task of the coordinator stands
  read,     \* the event that the open stream has reached
  wire,     \* bridge: the messages for the wallet, in order
  heard,    \* bridge: the messages that reached the dApp
  dapp,     \* the dApp's WalletEventCursor
  linked,   \* the user has opened the connect link
  lost,     \* history: the staged messages that the completion of another one
            \* dropped, and the consumed requests that were never listed
  refused,  \* history: the keychain has refused a write or a removal
  faults, crashes

vars == <<sess, held, disk, approval, loc, read, wire, heard, dapp, linked,
          lost, refused, faults, crashes>>
rust == <<sess, disk, lost>>
bridge == <<read, wire, heard, dapp>>
bounds == <<linked, refused, faults, crashes>>

Nothing == [at |-> "off", then |-> "end", msg |-> {}, terminal |-> FALSE,
            todo |-> <<>>]

ConnectPrompt == [kind |-> "connect", id |-> None]

Init ==
  /\ sess = pending_connect /\ held = FALSE /\ disk = {} /\ approval = {}
  /\ loc = [p \in Procs |-> Nothing]
  /\ read = 0 /\ wire = <<>> /\ heard = {} /\ dapp = new_cursor
  /\ linked = FALSE /\ lost = {} /\ refused = FALSE /\ faults = 0 /\ crashes = 0

fault == faults < MaxFaults /\ faults' = faults + 1

-----------------------------------------------------------------------------
(* The Rust object.                                                        *)

ensure_no_pending_post(s) == s.post = {}

stage_post(s, m) == [s EXCEPT !.post = {m}]

\* An event of the wallet and the state that goes with it.
Event(s, kind) == [kind |-> kind, id |-> next_event_id(s)]

can_send_event(s, kind) == ensure_no_pending_post(s) /\ can_prepare_event(s, kind)

\* Mutant: the connected account is not kept with the session.
approve_connect_unbound(s) ==
  stage_post(prepare_event(s, "Connect"), Event(s, "Connect"))

approve_connect(s) ==
  stage_post([prepare_event(s, "Connect") EXCEPT !.address = TRUE],
             Event(s, "Connect"))

reject_connect(s) ==
  stage_post(prepare_event(s, "ConnectError"), Event(s, "ConnectError"))

disconnect(s) ==
  stage_post(prepare_event(s, "Disconnect"), Event(s, "Disconnect"))

can_prepare_response(s, m) == ensure_no_pending_post(s) /\ m \in s.pending

\* The answer takes the place of the request in one step.
prepare_response(s, m, result) ==
  stage_post([s EXCEPT !.pending = @ \ {m}], [kind |-> result, id |-> m.id])

complete_pending_post(s) == [s EXCEPT !.post = {}]

\* One event of a chunk, as the client sees it: the SSE cursor moves, and a
\* fresh message of the peer advances the reducer.
ClientIngest(acc, m) ==
  LET s == [acc.s EXCEPT !.cursor = @ + 1]
  IN IF m.kind # Foreign /\ is_fresh(s, m)
     THEN [s |-> prepare_request(s, m), new |-> Append(acc.new, m)]
     ELSE [acc EXCEPT !.s = s]

\* The client takes the whole chunk first.  The requests are decoded after
\* that, up to the first one that is broken.
ingest_sse_chunk(s, chunk) ==
  LET client == FoldLeft(ClientIngest, [s |-> s, new |-> <<>>], chunk)
      broken == {i \in DOMAIN client.new : client.new[i].kind = "broken"}
      good == IF broken = {} THEN client.new
              ELSE SubSeq(client.new, 1, (CHOOSE i \in broken :
                                            \A j \in broken : i <= j) - 1)
  IN [s |-> [client.s EXCEPT !.pending = @ \cup ToSet(good)],
      requests |-> good, ok |-> broken = {},
      unlisted |-> ToSet(client.new) \ ToSet(good)]

\* pending_requests: in the order of the BTreeMap.
pending_requests(s) == SetToSortSeq(s.pending, LAMBDA m, n : m.id < n.id)
-----------------------------------------------------------------------------
(* The tasks of the coordinator.                                           *)

\* A task of the listener that a new generation leaves inside an await.
busy(task) == task.at \in {"save", "post", "posted", "settle", "store", "handle", "preview"}

\* close and startListening: the listener is cancelled and the next one is at
\* `next`.  p goes on with `own`; a listener that replaces itself goes on as the
\* superseded one.  At most one superseded listener has work left (bound).
Supersede(p, own, next) ==
  LET left == IF p = "cur" THEN own ELSE loc["cur"]
  IN /\ busy(left) => (p = "old" \/ ~busy(loc["old"]))
     /\ loc' = [loc EXCEPT
          !["ui"] = IF p = "ui" THEN own ELSE @,
          !["old"] = IF busy(left) THEN left ELSE IF p = "old" THEN own ELSE @,
          !["cur"] = [Nothing EXCEPT !.at = next]]

startListening(p, own) == Supersede(p, own, "loop")

close(p, own) == Supersede(p, own, "off")

\* p alone moves.
Move(p, own) == loc' = [loc EXCEPT ![p] = own]

clearMemory(p) == close(p, Nothing) /\ held' = FALSE /\ approval' = {}

\* The beginning of deliver: the first await is the keychain.
deliver(p, m, terminal, then) ==
  [loc[p] EXCEPT !.at = "save", !.msg = {m}, !.terminal = terminal, !.then = then]

persisted == IF held THEN {sess} ELSE disk

DeliverSave(p) ==
  /\ loc[p].at = "save"
  /\ disk' = persisted
  /\ Move(p, [loc[p] EXCEPT !.at = "post"])
  /\ UNCHANGED <<sess, lost, held, approval, bridge, bounds>>

\* The bridge takes the message; the dApp applies an event of the wallet.
Arrive(m) ==
  /\ heard' = heard \cup {m}
  /\ dapp' = IF m.kind \in EventKind /\ accepts_event(dapp, m)
             THEN advance_cursor(dapp, m) ELSE dapp

DeliverPost(p) ==
  /\ loc[p].at = "post"
  /\ \A m \in loc[p].msg : Arrive(m)
  /\ Move(p, [loc[p] EXCEPT !.at = "posted"])
  /\ UNCHANGED <<rust, held, approval, read, wire, bounds>>

\* Where a task goes on after deliver has thrown: a handler with the next
\* request, the loop of the listener with its next turn.
Thrown(p) ==
  IF loc[p].then = "handle" \/ (loc[p].then = "clear" /\ loc[p].todo # <<>>)
  THEN [loc[p] EXCEPT !.at = "handle", !.todo = Tail(@)]
  ELSE IF p = "cur" /\ loc[p].then = "loop" THEN [Nothing EXCEPT !.at = "loop"]
  ELSE Nothing

\* A POST fails before or after the bridge took it, and a connected session
\* gets a new listener.
DeliverFail(p) ==
  /\ loc[p].at = "post" /\ fault
  /\ \/ \A m \in loc[p].msg : Arrive(m)
     \/ UNCHANGED <<heard, dapp>>
  /\ IF sess.phase = "Connected"
     THEN startListening(p, Thrown(p))
     ELSE Move(p, Thrown(p))
  /\ UNCHANGED <<rust, held, approval, read, wire, linked, refused, crashes>>

\* complete_pending_post clears whatever is staged.
DeliverComplete(p) ==
  /\ loc[p].at = "posted"
  /\ sess' = complete_pending_post(sess)
  /\ lost' = lost \cup (sess.post \ (loc[p].msg \cup heard))
  /\ Move(p, [loc[p] EXCEPT !.at = "settle"])
  /\ UNCHANGED <<held, disk, approval, bridge, bounds>>

\* The completion is stored, or a session that ended is removed; deliver returns
\* and the caller goes on.
DeliverReturn(p) ==
  /\ loc[p].at = "settle"
  /\ disk' = IF loc[p].terminal THEN {} ELSE persisted
  /\ LET then == loc[p].then IN
     \/ then \in {"end", "approved"} /\ Move(p, Nothing)
        /\ approval' = (IF then = "approved" THEN {} ELSE approval)
        /\ UNCHANGED held
     \/ then = "listen" /\ startListening(p, Nothing) /\ UNCHANGED <<held, approval>>
     \/ then = "clear" /\ clearMemory(p)
     \/ then = "loop" /\ Move(p, [Nothing EXCEPT !.at = IF p = "cur" THEN "loop" ELSE "off"])
        /\ UNCHANGED <<held, approval>>
     \/ then = "handle" /\ Move(p, [loc[p] EXCEPT !.at = "handle", !.todo = Tail(@)])
        /\ UNCHANGED <<held, approval>>
     \/ then \in {"disconnect", "restored"} /\ Move(p, [loc[p] EXCEPT !.at = then])
        /\ UNCHANGED <<held, approval>>
  /\ UNCHANGED <<sess, lost, bridge, bounds>>

\* The keychain refuses a write or a removal, and the call throws.
StorageFails(p) ==
  /\ loc[p].at \in {"save", "settle", "store", "starting", "removing"} /\ fault
  /\ Move(p, IF loc[p].at \in {"save", "settle"} THEN Thrown(p)
             ELSE IF p = "cur" THEN [Nothing EXCEPT !.at = "loop"]
             ELSE Nothing)
  /\ refused' = TRUE
  /\ UNCHANGED <<rust, held, approval, bridge, linked, crashes>>
-----------------------------------------------------------------------------
(* The user.                                                               *)

ready == loc["ui"].at = "off"

\* start: a link is opened and its request is stored.
Start ==
  /\ ready /\ ~linked /\ ~held
  /\ linked' = TRUE /\ held' = TRUE /\ sess' = pending_connect
  /\ Move("ui", [Nothing EXCEPT !.at = "starting"])
  /\ UNCHANGED <<disk, lost, approval, bridge, refused, faults, crashes>>

\* The stored request is shown.
Started ==
  /\ loc["ui"].at = "starting"
  /\ disk' = persisted /\ approval' = {ConnectPrompt} /\ Move("ui", Nothing)
  /\ UNCHANGED <<sess, lost, held, bridge, bounds>>

\* approveConnection leaves the main actor for the ownership proof.
approveConnection ==
  /\ ready /\ held /\ approval = {ConnectPrompt}
  /\ Move("ui", [Nothing EXCEPT !.at = "proving"])
  /\ UNCHANGED <<rust, held, approval, bridge, bounds>>

\* The proof is there, or the user did not give it.
ConnectionProved ==
  /\ loc["ui"].at = "proving"
  /\ \/ /\ can_send_event(sess, "Connect")
        /\ sess' = approve_connect(sess) /\ approval' = {}
        /\ Move("ui", deliver("ui", Event(sess, "Connect"), FALSE, "listen"))
     \/ Move("ui", Nothing) /\ UNCHANGED <<sess, approval>>
  /\ UNCHANGED <<held, disk, lost, bridge, bounds>>

\* The stored session is to go and nothing is left to deliver.
Removing == [Nothing EXCEPT !.at = "removing"]

Removed ==
  /\ loc["ui"].at = "removing"
  /\ disk' = {} /\ clearMemory("ui")
  /\ UNCHANGED <<sess, lost, bridge, bounds>>

rejectConnection ==
  /\ ready /\ held /\ approval = {ConnectPrompt}
  /\ \/ /\ can_send_event(sess, "ConnectError")
        /\ sess' = reject_connect(sess)
        /\ close("ui", deliver("ui", Event(sess, "ConnectError"), TRUE, "clear"))
     \/ /\ sess.phase = "Disconnected" /\ UNCHANGED sess
        /\ \/ \E m \in sess.post : close("ui", deliver("ui", m, TRUE, "clear"))
           \/ sess.post = {} /\ close("ui", Removing)
  /\ UNCHANGED <<held, disk, lost, approval, bridge, bounds>>

\* session.disconnect, or the error that a pending answer makes of it.
DisconnectSession(own(_)) ==
  IF can_send_event(sess, "Disconnect")
  THEN sess' = disconnect(sess)
       /\ own(deliver("ui", Event(sess, "Disconnect"), TRUE, "clear"))
  ELSE UNCHANGED sess /\ own(Nothing)

\* disconnect: what is staged goes first, then the event of the wallet.
Disconnect ==
  /\ ready /\ held /\ sess.phase # "PendingConnect"
  /\ LET closing(own) == close("ui", own) IN
     \/ \E m \in sess.post :
          close("ui", deliver("ui", m, sess.phase = "Disconnected",
                IF sess.phase = "Connected" THEN "disconnect" ELSE "clear"))
          /\ UNCHANGED sess
     \/ sess.post = {} /\ sess.phase = "Connected" /\ DisconnectSession(closing)
     \/ sess.post = {} /\ sess.phase = "Disconnected" /\ close("ui", Removing)
        /\ UNCHANGED sess
  /\ UNCHANGED <<held, disk, lost, approval, bridge, bounds>>

DisconnectAfterFlush ==
  /\ loc["ui"].at = "disconnect"
  /\ LET going(own) == Move("ui", own) IN DisconnectSession(going)
  /\ UNCHANGED <<held, disk, lost, approval, bridge, bounds>>

\* approveTransaction leaves the main actor for the wallet's send.
approveTransaction ==
  /\ ready /\ held
  /\ \E m \in approval \ {ConnectPrompt} :
       Move("ui", [Nothing EXCEPT !.at = "sending", !.todo = <<m>>])
  /\ UNCHANGED <<rust, held, approval, bridge, bounds>>

\* The answer of a request is staged and delivered.  Without a session, or
\* with another answer staged, the coordinator only shows a diagnostic.
Answer(p, m, result, then, failed) ==
  IF held /\ can_prepare_response(sess, m)
  THEN sess' = prepare_response(sess, m, result)
       /\ Move(p, deliver(p, [kind |-> result, id |-> m.id], FALSE, then))
  ELSE UNCHANGED sess /\ Move(p, failed)

\* The send has returned: with a message, or with an error that is answered.
TransactionSent ==
  /\ loc["ui"].at = "sending"
  /\ LET m == Head(loc["ui"].todo) IN
     \/ Answer("ui", m, "result", "end", Nothing)
        /\ approval' = IF can_prepare_response(sess, m) THEN {} ELSE approval
     \/ Answer("ui", m, "error", "approved", Nothing) /\ UNCHANGED approval
  /\ UNCHANGED <<held, disk, lost, bridge, bounds>>

rejectTransaction ==
  /\ ready
  /\ \E m \in approval \ {ConnectPrompt} :
       Answer("ui", m, "declined", "approved", Nothing)
  /\ UNCHANGED <<held, disk, lost, approval, bridge, bounds>>
-----------------------------------------------------------------------------
(* The listener.                                                           *)

\* Mutant: the stream is opened whether or not an answer is staged.
ListenLoopDeaf ==
  /\ loc["cur"].at = "loop" /\ held
  /\ read' = sess.cursor
  /\ Move("cur", [Nothing EXCEPT !.at = "read"])
  /\ UNCHANGED <<held, approval, rust, wire, heard, dapp, bounds>>

\* One turn of the loop: a staged answer goes first; a session that is not
\* connected any more leaves the memory; otherwise the stream is opened.
ListenLoop ==
  /\ loc["cur"].at = "loop"
  /\ \/ ~held /\ Move("cur", Nothing) /\ UNCHANGED <<held, approval, read>>
     \/ /\ held
        /\ \E m \in sess.post :
             Move("cur", deliver("cur", m, sess.phase = "Disconnected", "loop"))
        /\ UNCHANGED <<held, approval, read>>
     \/ /\ held /\ sess.post = {} /\ sess.phase # "Connected"
        /\ clearMemory("cur") /\ UNCHANGED read
     \/ /\ held /\ sess.post = {} /\ sess.phase = "Connected"
        /\ read' = sess.cursor
        /\ Move("cur", [Nothing EXCEPT !.at = "read"])
        /\ UNCHANGED <<held, approval>>
  /\ UNCHANGED <<rust, wire, heard, dapp, bounds>>

\* receive: a chunk is ingested.  An error of the chunk ends the stream and
\* stores nothing.
Receive ==
  /\ loc["cur"].at = "read" /\ held
  /\ \E n \in 1..MaxChunk :
       /\ read + n <= Len(wire)
       /\ LET r == ingest_sse_chunk(sess, SubSeq(wire, read + 1, read + n))
          IN /\ sess' = r.s /\ lost' = lost \cup r.unlisted
             /\ Move("cur", IF r.ok
                            THEN [Nothing EXCEPT !.at = "store", !.todo = r.requests]
                            ELSE [Nothing EXCEPT !.at = "loop"])
       /\ read' = read + n
  /\ UNCHANGED <<held, disk, approval, wire, heard, dapp, bounds>>

\* The session is stored, and the requests of the chunk follow.
ReceiveStored(p) ==
  /\ loc[p].at = "store"
  /\ disk' = persisted
  /\ Move(p, [loc[p] EXCEPT !.at = "handle"])
  /\ UNCHANGED <<sess, lost, held, approval, bridge, bounds>>

StreamEnds ==
  /\ loc["cur"].at = "read" /\ fault
  /\ Move("cur", [Nothing EXCEPT !.at = "loop"])
  /\ UNCHANGED <<rust, held, approval, bridge, linked, refused, crashes>>

Rest(p) == [loc[p] EXCEPT !.at = "handle", !.todo = Tail(@)]

\* handle: one request of the chunk, or of a restored session.
Handle(p) ==
  /\ loc[p].at = "handle" /\ loc[p].todo # <<>>
  /\ LET m == Head(loc[p].todo) IN
     \/ /\ m.kind = "transaction"
        /\ Move(p, IF held THEN [loc[p] EXCEPT !.at = "preview"] ELSE Rest(p))
        /\ UNCHANGED <<sess, approval>>
     \/ /\ m.kind = "unsupported"
        /\ Answer(p, m, "error", "handle", Rest(p)) /\ UNCHANGED approval
     \/ /\ m.kind = "disconnect"
        /\ IF held /\ can_prepare_response(sess, m)
           THEN /\ sess' = prepare_response(sess, m, "result") /\ approval' = {}
                /\ Move(p, deliver(p, [kind |-> "result", id |-> m.id], TRUE, "clear"))
           ELSE Move(p, Rest(p)) /\ UNCHANGED <<sess, approval>>
  /\ UNCHANGED <<held, disk, lost, bridge, bounds>>

\* The preview of a transaction is shown, or its failure is the answer.
Previewed(p) ==
  /\ loc[p].at = "preview"
  /\ LET m == Head(loc[p].todo) IN
     \/ approval' = {m} /\ Move(p, Rest(p)) /\ UNCHANGED <<sess, faults>>
     \/ fault /\ Answer(p, m, "error", "handle", Rest(p)) /\ UNCHANGED approval
  /\ UNCHANGED <<held, disk, lost, bridge, linked, refused, crashes>>

\* All requests are handled: back to the stream, or a restored session
\* starts to listen.
Handled(p) ==
  /\ loc[p].at = "handle" /\ loc[p].todo = <<>>
  /\ IF p = "ui" THEN startListening(p, Nothing)
     ELSE Move(p, IF p = "cur" THEN [Nothing EXCEPT !.at = "read"] ELSE Nothing)
  /\ UNCHANGED <<rust, held, approval, bridge, bounds>>
-----------------------------------------------------------------------------
(* Crash and restore.                                                      *)

Crash ==
  /\ crashes < MaxCrashes /\ crashes' = crashes + 1
  /\ sess' = pending_connect /\ held' = FALSE /\ approval' = {} /\ read' = 0
  /\ loc' = [p \in Procs |-> IF p = "ui" THEN [Nothing EXCEPT !.at = "down"]
                             ELSE Nothing]
  /\ UNCHANGED <<disk, lost, wire, heard, dapp, linked, refused, faults>>


\* restore: the stored session is read back and its staged answer goes first.
Restore ==
  /\ loc["ui"].at = "down"
  /\ \/ disk = {} /\ Move("ui", Nothing) /\ UNCHANGED <<sess, held>>
     \/ \E s \in disk :
          /\ Restorable(s) /\ sess' = s /\ held' = TRUE
          /\ Move("ui", IF s.post = {} THEN [Nothing EXCEPT !.at = "restored"]
                        ELSE deliver("ui", CHOOSE m \in s.post : TRUE,
                                     s.phase = "Disconnected", "restored"))
  /\ UNCHANGED <<disk, lost, approval, bridge, bounds>>

Restored ==
  /\ loc["ui"].at = "restored"
  /\ \/ /\ sess.phase = "PendingConnect"
        /\ approval' = {ConnectPrompt} /\ Move("ui", Nothing)
     \/ /\ sess.phase = "Connected" /\ UNCHANGED approval
        /\ Move("ui", [Nothing EXCEPT !.at = "handle", !.todo = pending_requests(sess)])
     \/ /\ sess.phase = "Disconnected" /\ sess.post = {} /\ UNCHANGED approval
        /\ Move("ui", Removing)
  /\ UNCHANGED <<rust, held, bridge, bounds>>
-----------------------------------------------------------------------------
(* The dApp.                                                               *)

sent == {wire[i].id : i \in {j \in DOMAIN wire : wire[j].kind # Foreign}}

\* The dApp knows the wallet's key from the connect event.  Its ids increase,
\* and a disconnect is its last message.
DAppSend ==
  /\ dapp.last # None /\ ~dapp.terminated /\ Len(wire) < MaxWire
  /\ \A i \in DOMAIN wire : wire[i].kind # "disconnect"
  /\ \E k \in Kinds :
       wire' = Append(wire, [kind |-> k, id |-> IF k = Foreign THEN 0 ELSE
                                               Cardinality(sent) + 1])
  /\ UNCHANGED <<rust, held, approval, loc, read, heard, dapp, bounds>>

\* A POST of the dApp whose reply was lost is made again.
DAppRepeat ==
  /\ Len(wire) < MaxWire
  /\ \E i \in DOMAIN wire : wire' = Append(wire, wire[i])
  /\ UNCHANGED <<rust, held, approval, loc, read, heard, dapp, bounds>>

Task(p) ==
  \/ DeliverSave(p) \/ DeliverPost(p) \/ DeliverComplete(p) \/ DeliverReturn(p)
  \/ ReceiveStored(p) \/ Handle(p) \/ Previewed(p) \/ Handled(p)

Listener == Task("cur") \/ Task("old") \/ ListenLoop \/ Receive

User ==
  \/ Start \/ approveConnection \/ rejectConnection \/ Disconnect
  \/ approveTransaction \/ rejectTransaction

Operation ==
  \/ Task("ui") \/ Started \/ ConnectionProved \/ Removed
  \/ DisconnectAfterFlush \/ TransactionSent \/ Restore \/ Restored

Next ==
  \/ Listener \/ User \/ Operation
  \/ (\E p \in Procs : DeliverFail(p) \/ StorageFails(p)) \/ StreamEnds \/ Crash
  \/ DAppSend \/ DAppRepeat

Spec == Init /\ [][Next]_vars

\* Main-actor work that can run does run, the bridge and the wallet answer.
FairSpec == Spec /\ WF_vars(Listener) /\ WF_vars(Operation)
-----------------------------------------------------------------------------
AnswerKind == {"result", "error", "declined"}

Answers == {m \in heard : m.kind \in AnswerKind}

\* Every variable of the session and the coordinator has its shape.
TypeOK ==
  /\ sess.phase \in Phase /\ sess.request \in Int /\ sess.event \in Int
  /\ Cardinality(sess.post) <= 1 /\ Cardinality(disk) <= 1
  /\ Cardinality(approval) <= 1 /\ held \in BOOLEAN /\ refused \in BOOLEAN
  /\ \A p \in Procs : loc[p].at \in
       {"off", "starting", "proving", "save", "post", "posted", "settle", "loop",
        "read", "store", "handle", "preview", "sending", "disconnect", "removing",
        "restored", "down"}

\* What is stored can always be read back: the checks that deserialization
\* makes hold in every state that the coordinator stores.
StoredIsRestorable == \A s \in disk : Restorable(s)

\* The dApp never gets two different answers to one request, across replays
\* of the bridge, retries of a POST, crashes and a decline that races a send.
AnsweredOnce == \A m, n \in Answers : m.id = n.id => m = n

\* The dApp never hears two different wallet events under one id: an event
\* that may have been published keeps its id through crashes and retries.
EventIdsAreUnique ==
  \A m, n \in heard : m.kind \in EventKind /\ n.kind \in EventKind /\ m.id = n.id
                      => m = n

\* A request that the stored reducer has consumed is still stored, or its answer
\* is stored or was delivered.  The two exceptions are those that the code makes:
\* a request of a chunk that ingest_sse_chunk gave up on, and one whose staged
\* answer was cleared by the completion of another message.
ConsumedIsKept ==
  \A s \in disk : \A i \in DOMAIN wire :
    wire[i].kind # Foreign /\ wire[i].id <= s.request =>
      \/ wire[i] \in s.pending \cup lost
      \/ \E m \in s.post \cup heard \cup lost : m.kind \in AnswerKind /\ m.id = wire[i].id

\* Every staged message is in memory or stored: a crash takes the memory.
KeptPosts(s, stored, crash) ==
  (IF crash THEN {} ELSE s.post) \cup UNION {d.post : d \in stored}

\* What a step keeps, for StagedUntilHeard.
KeepsStaged ==
  \A m \in KeptPosts(sess, disk, crashes' # crashes) :
    m \in KeptPosts(sess', disk', FALSE) \cup heard'

\* complete_pending_post and every later write of the keychain keep a staged
\* message until the bridge has it.
StagedUntilHeard == [][KeepsStaged]_vars

\* What a step keeps, for OnlyCompletionDrops.
KeepsUncleared ==
  \A m \in KeptPosts(sess, disk, crashes' # crashes) :
    m \in KeptPosts(sess', disk', FALSE) \cup heard' \cup lost'


\* The stored session of a dApp that disconnected is deleted only when the
\* disconnect request has its answer.
DisconnectIsAnswered ==
  [][disk # {} /\ disk' = {} =>
       \A s \in disk : \A m \in s.pending : m.kind # "disconnect"]_vars

\* While the dApp is connected and the keychain takes what is stored, a stored
\* message reaches the bridge, whatever posts fail on the way and wherever the
\* process dies.
StagedIsHeard ==
  \A m \in [kind : AnswerKind, id : 1..MaxWire] \cup {[kind |-> "Connect", id |-> 0]} :
    (\E s \in disk : s.phase = "Connected" /\ m \in s.post) ~> (m \in heard \/ refused)

\* What is stored can be read back, the dApp hears one answer and one event per
\* id, across replays, retries and crashes, and a request that the stored session
\* has consumed is kept until it is answered, unless its chunk was given up or its
\* staged answer was cleared by the completion of another one.
ReplaysAreHarmless ==
  StoredIsRestorable /\ AnsweredOnce /\ EventIdsAreUnique /\ ConsumedIsKept
=============================================================================
