---------------------------- MODULE BridgeStream ----------------------------
(***************************************************************************)
(* The SSE stream of a TON Connect HTTP bridge: the endpoint a client      *)
(* subscribes to, the incremental decoder of http_bridge.rs that reads     *)
(* chunks cut anywhere, the envelope check and decryption of one session   *)
(* (session.rs), and the resume cursor of TonConnectClient.                *)
(*                                                                         *)
(* A byte is a token: a field name with its colon, a value, "\r" or "\n".  *)
(* The bridge keeps a log of events and, on a subscription, sends those    *)
(* after the cursor; it may cut the stream anywhere.                       *)
(***************************************************************************)
EXTENDS Naturals, Sequences, SequencesExt, FiniteSetsExt

CONSTANTS
  Logs,           \* the event logs that the bridge may hold
  Envelope,       \* the envelope that a data value stands for: value -> record
  Me, Peer,       \* the client id of the session and of its dApp
  MaxEventBytes,
  MaxCuts         \* how often a stream ends early

VARIABLES
  log,       \* events of the bridge: [id, lines, kind]
  heartbeat, \* the HeartbeatMode of the client
  stream,    \* tokens still to be received
  decoder,   \* the BridgeSseDecoder
  cursor,    \* last_bridge_event_id, as a set
  accepted,  \* requests handed to the replay reducer
  alive,     \* is a stream open?
  cuts

vars == <<log, heartbeat, stream, decoder, cursor, accepted, alive, cuts>>
-----------------------------------------------------------------------------
(* The subscription.                                                       *)

as_str(mode) == IF mode = "Legacy" THEN "legacy" ELSE "message"

\* The query of the events endpoint; the trace id is left out.
events_endpoint_for_ids(ids, last_event_id, mode) ==
  << <<"client_id", ids>> >>
    \o SetToSeq({<<"last_event_id", id>> : id \in last_event_id})
    \o << <<"heartbeat", as_str(mode)>> >>

parameter(query, name) == {query[i][2] : i \in {j \in DOMAIN query : query[j][1] = name}}

\* External: how the bridge writes an event, and which ones it sends.
Written(event, mode) ==
  IF event.kind = "heartbeat"
  THEN IF mode = "legacy" THEN <<"event:", "heartbeat", "\n", "\n">>
       ELSE <<"data:", "heartbeat", "\n", "\n">>
  ELSE <<"id:", event.id, "\n">> \o event.lines \o <<"\n">>

Resumed(query) ==
  LET after == {i \in DOMAIN log : log[i].id \in parameter(query, "last_event_id")}
      mode == CHOOSE m \in parameter(query, "heartbeat") : TRUE
      first == IF after = {} THEN 1 ELSE Max(after) + 1
  IN FlattenSeq([i \in 1 .. (Len(log) - first + 1) |-> Written(log[i + first - 1], mode)])
-----------------------------------------------------------------------------
(* The decoder.                                                            *)

Fresh ==
  [pending |-> <<>>, event_type |-> {}, data_lines |-> <<>>, last_event_id |-> {},
   current_event_bytes |-> 0, messages |-> <<>>, error |-> FALSE]

\* `pending_bytes` after the lines already counted fit in one event.
ensure_size_bound(d, pending_bytes) ==
  d.current_event_bytes + pending_bytes <= MaxEventBytes

process_line(d, line) ==
  LET value == Tail(line) IN
  CASE line[1] = "event:" -> [d EXCEPT !.event_type = {value}]
    [] line[1] = "data:" -> [d EXCEPT !.data_lines = Append(@, value)]
    [] line[1] = "id:" /\ "NUL" \notin ToSet(value) -> [d EXCEPT !.last_event_id = {value}]
    [] OTHER -> d

\* The data lines joined, and the envelope they hold if they are one.
Joined(lines) == FlattenSeq(lines)

\* Mutant: only the named form of a heartbeat is known.
dispatch_legacy(d) ==
  LET data == Joined(d.data_lines)
      done == [d EXCEPT !.event_type = {}, !.data_lines = <<>>]
  IN IF data = <<>> \/ d.event_type \notin {{}, {<<"message">>}} THEN done
     ELSE IF data \notin DOMAIN Envelope THEN [done EXCEPT !.error = TRUE]
     ELSE [done EXCEPT !.messages = Append(@, [event_id |-> d.last_event_id, message |-> data])]

\* A blank line ends an event: heartbeats, events without data and events of other
\* types give no message, and data that is no envelope is an error.
dispatch(d) ==
  LET data == Joined(d.data_lines)
      done == [d EXCEPT !.event_type = {}, !.data_lines = <<>>]
  IN IF data \in {<<>>, <<"heartbeat">>} \/ d.event_type \notin {{}, {<<"message">>}} THEN done
     ELSE IF data \notin DOMAIN Envelope THEN [done EXCEPT !.error = TRUE]
     ELSE [done EXCEPT !.messages = Append(@, [event_id |-> d.last_event_id, message |-> data])]

\* One complete line, without its newline.
Line(d, raw) ==
  LET line == IF raw # <<>> /\ Last(raw) = "\r" THEN Front(raw) ELSE raw
      counted == [d EXCEPT !.current_event_bytes = @ + Len(line) + 1]
  IN IF d.error THEN d
     ELSE IF ~ensure_size_bound(counted, 0) \/ "bad utf8" \in ToSet(line)
     THEN [counted EXCEPT !.error = TRUE]
     ELSE IF line = <<>> THEN [dispatch(counted) EXCEPT !.current_event_bytes = 0]
     ELSE process_line(counted, line)

\* The complete lines of some bytes and the unfinished one.
Split(bytes) ==
  FoldLeft(LAMBDA acc, byte :
             IF byte = "\n" THEN [lines |-> Append(acc.lines, acc.rest), rest |-> <<>>]
             ELSE [acc EXCEPT !.rest = Append(@, byte)],
           [lines |-> <<>>, rest |-> <<>>], bytes)

push(d, chunk) ==
  LET bytes == Split(d.pending \o chunk)
      read == FoldLeft(Line, [d EXCEPT !.messages = <<>>, !.pending = bytes.rest], bytes.lines)
  IN IF read.error \/ ensure_size_bound(read, Len(read.pending)) THEN read
     ELSE [read EXCEPT !.error = TRUE]
-----------------------------------------------------------------------------
(* One session.                                                            *)

\* External: a box opens under the pair of keys that sealed it.
opens(envelope, own, peer) == {envelope.sealed_by, envelope.sealed_for} = {own, peer}

\* BridgeSseMessage::decrypt as AppRequest: the sender is checked before the box.
decrypt(envelope) ==
  /\ envelope.from = Peer
  /\ opens(envelope, Me, Peer)
  /\ envelope.body = "request"

\* ingest_sse_chunk: the cursor follows every message, also one that is dropped.
Cursor(c, messages) ==
  LET ids == UNION {messages[i].event_id : i \in DOMAIN messages}
  IN IF ids = {} THEN c
     ELSE Last(SelectSeq(messages, LAMBDA m : m.event_id # {})).event_id

Requests(messages) ==
  LET own == SelectSeq(messages, LAMBDA m : decrypt(Envelope[m.message]))
  IN [i \in DOMAIN own |-> own[i].message]
-----------------------------------------------------------------------------
Init ==
  /\ log \in Logs
  /\ heartbeat \in {"Legacy", "Message"}
  /\ stream = <<>> /\ decoder = Fresh /\ cursor = {} /\ accepted = <<>>
  /\ alive = FALSE /\ cuts = 0

\* begin_events_subscription: a new decoder, the events after the cursor.
Subscribe ==
  /\ ~alive
  /\ alive' = TRUE /\ decoder' = Fresh
  /\ stream' = Resumed(events_endpoint_for_ids(Me, {id[1] : id \in cursor}, heartbeat))
  /\ UNCHANGED <<log, heartbeat, cursor, accepted, cuts>>

\* Mutant: the cursor follows the id lines that the decoder has read.
ReceiveEarlyCursor ==
  \E n \in DOMAIN stream :
    LET read == push(decoder, SubSeq(stream, 1, n)) IN
      /\ alive /\ stream' = SubSeq(stream, n + 1, Len(stream))
      /\ decoder' = [read EXCEPT !.messages = <<>>] /\ alive' = ~read.error
      /\ cursor' = read.last_event_id
      /\ accepted' = accepted \o (IF read.error THEN <<>> ELSE Requests(read.messages))
      /\ UNCHANGED <<log, heartbeat, cuts>>

\* One chunk of any length.  An error hides the messages of the chunk, and the
\* host ends the stream.
Receive ==
  \E n \in DOMAIN stream :
    \E read \in {push(decoder, SubSeq(stream, 1, n))} :
      /\ alive
      /\ stream' = SubSeq(stream, n + 1, Len(stream))
      /\ decoder' = [read EXCEPT !.messages = <<>>]
      /\ alive' = ~read.error
      /\ IF read.error THEN UNCHANGED <<cursor, accepted>>
         ELSE /\ cursor' = Cursor(cursor, read.messages)
              /\ accepted' = accepted \o Requests(read.messages)
      /\ UNCHANGED <<log, heartbeat, cuts>>

\* The bridge or the network ends the stream.
Cut ==
  /\ alive /\ cuts < MaxCuts
  /\ cuts' = cuts + 1 /\ alive' = FALSE /\ stream' = <<>>
  /\ UNCHANGED <<log, heartbeat, decoder, cursor, accepted>>

Next == Subscribe \/ Receive \/ Cut

Spec == Init /\ [][Next]_vars

\* A host that keeps its stream open, and a network that goes on delivering.
FairSpec == Spec /\ WF_vars(Subscribe) /\ WF_vars(Receive)
-----------------------------------------------------------------------------
(* Properties.  The reference below reads the log, never the stream.       *)

\* The data of an event of the log, and whether it is an envelope message.
Data(event) ==
  FlattenSeq([i \in DOMAIN event.data |-> event.data[i]])

\* What the lines of an event come to with the id line and the blank line, each
\* without its "\\r" and with its newline.
Size(event) == 3 + Len(SelectSeq(event.lines, LAMBDA byte : byte # "\r")) + 1

Readable(event) ==
  /\ event.kind = "message"
  /\ Data(event) \in DOMAIN Envelope
  /\ Size(event) <= MaxEventBytes

\* The own requests among the first n events.
OwnRequests(n) ==
  LET own == SelectSeq(SubSeq(log, 1, n),
                       LAMBDA e : Readable(e)
                         /\ Envelope[Data(e)].from = Peer
                         /\ Envelope[Data(e)].sealed_by = Peer
                         /\ Envelope[Data(e)].sealed_for = Me
                         /\ Envelope[Data(e)].body = "request")
  IN [i \in DOMAIN own |-> Data(own[i])]

Position == Max({0} \cup {i \in DOMAIN log : <<log[i].id>> \in cursor})

\* Whatever the chunk boundaries and wherever the stream was cut, the session has
\* accepted exactly the requests of its peer up to its cursor, once and in order,
\* one that has the largest size included and one that is larger left out
\* (push, dispatch, ingest_sse_chunk, begin_events_subscription).
ExactlyOnce == accepted = OwnRequests(Position)

\* A chunk is refused only for an event of the log that is no message or too
\* large, never because of where the chunk ended.
RefusedForCause ==
  decoder.error => \E i \in DOMAIN log :
    \/ log[i].kind = "message" /\ Data(log[i]) \notin DOMAIN Envelope
    \/ Size(log[i]) > MaxEventBytes

\* With a log of readable events every request of the peer is accepted in the end.
AllAccepted == <>(accepted = OwnRequests(Len(log)))

\* The session takes exactly its requests off the bridge's stream, and refuses a
\* chunk only for what the log says.
StreamIsExact == ExactlyOnce /\ RefusedForCause
=============================================================================
