---------------------------- MODULE MCSessions ----------------------------
(***************************************************************************)
(* Hosts and sessions, with their crashes, lost messages and repeated      *)
(* deliveries: the HTTP host, the disk store and the terminal wallet, the  *)
(* browser wallet, and the TON Connect stream and session. A behavior is   *)
(* about one component, named by part.                                     *)
(***************************************************************************)
EXTENDS HttpHost, DiskHistory, TLC

CONSTANTS w1, w2, a, b, c1, c2

VARIABLES
  part,  \* the component that this behavior is about
  x1, x2, x3, x4, x5, x6, x7, x8, x9, x10, x11, x12, x13, x14, x15, x16, x17,
  x18, x19, x20, x21, x22, x23, x24  \* those of an instance, in the order of its module

instanceVars ==
  <<x1, x2, x3, x4, x5, x6, x7, x8, x9, x10, x11, x12, x13, x14, x15, x16, x17,
    x18, x19, x20, x21, x22, x23, x24>>

vars == <<part, httpVars, diskVars, instanceVars>>

-----------------------------------------------------------------------------
(* The HTTP host: requests within and beyond its limits, and every response it
   must refuse beside those it must return.  Two clients share the host, and both
   number their requests from 1. *)

Get(host, port) ==
  [scheme |-> "https", host |-> host, port |-> port, body |-> 0, timeout |-> 2,
   headers |-> {}]

HttpInputs ==
  {Get("toncenter.com", 443),
   [Get("relay.example", 443) EXCEPT !.body = 2],
   [Get("toncenter.com", 443) EXCEPT !.timeout = 0]}

Reply(body) ==
  [redirect |-> FALSE, headers |-> 2, text |-> TRUE, headerBytes |-> 2,
   body |-> body]

HttpReplies ==
  {Reply(<<>>), Reply(<<1, 2>>), Reply(<<2, 2>>),
   [Reply(<<1>>) EXCEPT !.redirect = TRUE],
   [Reply(<<1>>) EXCEPT !.headers = 3],
   [Reply(<<1>>) EXCEPT !.headerBytes = 3],
   [Reply(<<1>>) EXCEPT !.text = FALSE]}

\* Bound: two requests altogether, of one client or one of each.
TwoRequests == Len(calls[c1]) + Len(calls[c2]) <= 2

-----------------------------------------------------------------------------
(* The terminal wallet, its store and its TON Connect task: two requests of a
   dApp to one wallet, and two wallets that are made and deleted while the store
   fails. *)

Terminal == INSTANCE TuiApp WITH memory <- x1, file <- x2, flushed <- x3,
  screen <- x4, created <- x5, prompt <- x6, descriptor <- x7, client <- x8,
  snapshot <- x9, force <- x10, waiting <- x11, polled <- x12, task <- x13,
  pending <- x14, offered <- x15, messages <- x16, requests <- x17,
  faults <- x18, restarts <- x19, removed <- x20, dismissed <- x21,
  unasked <- x22, approved <- x23, signed <- x24, Wallets <- {w1},
  Contents <- {}, MaxMessages <- 2, MaxRequests <- 2, MaxFaults <- 0,
  MaxRestarts <- 1

Keeper == INSTANCE TuiApp WITH memory <- x1, file <- x2, flushed <- x3,
  screen <- x4, created <- x5, prompt <- x6, descriptor <- x7, client <- x8,
  snapshot <- x9, force <- x10, waiting <- x11, polled <- x12, task <- x13,
  pending <- x14, offered <- x15, messages <- x16, requests <- x17,
  faults <- x18, restarts <- x19, removed <- x20, dismissed <- x21,
  unasked <- x22, approved <- x23, signed <- x24, Wallets <- {w1, w2},
  Contents <- {}, MaxMessages <- 0, MaxRequests <- 0, MaxFaults <- 2,
  MaxRestarts <- 2

-----------------------------------------------------------------------------
(* The browser wallet: two sessions that end and start again, and one session
   whose responses must not be lost. *)

Page == INSTANCE BrowserSession WITH wallet <- x1, stored <- x2, loop <- x3,
  call <- x4, sent <- x5, heard <- x6, staged <- x7, signed <- x8,
  consent <- x9, starts <- x10, disconnects <- x11, closes <- x12,
  crashes <- x13, losses <- x14, MaxRequests <- 2, MaxSessions <- 2,
  MaxDisconnects <- 1, MaxCloses <- 0, MaxCrashes <- 1, MaxLosses <- 2

OnePage == INSTANCE BrowserSession WITH wallet <- x1, stored <- x2, loop <- x3,
  call <- x4, sent <- x5, heard <- x6, staged <- x7, signed <- x8,
  consent <- x9, starts <- x10, disconnects <- x11, closes <- x12,
  crashes <- x13, losses <- x14, MaxRequests <- 2, MaxSessions <- 1,
  MaxDisconnects <- 0, MaxCloses <- 1, MaxCrashes <- 1, MaxLosses <- 2

-----------------------------------------------------------------------------
(* The stream of the bridge: every kind of event, in logs of up to two.  The event
   other has the largest size there may be, the event large one byte more. *)

EventIds == <<"1", "2", "3">>

Envelopes ==
  (<<"own">> :> [from |-> "dapp", sealed_by |-> "dapp", sealed_for |-> "me", body |-> "request"])
    @@ (<<"ow", "n2">> :> [from |-> "dapp", sealed_by |-> "dapp", sealed_for |-> "me", body |-> "request"])
    @@ (<<"other">> :> [from |-> "dapp2", sealed_by |-> "dapp2", sealed_for |-> "me", body |-> "request"])
    @@ (<<"echo">> :> [from |-> "dapp", sealed_by |-> "me", sealed_for |-> "dapp", body |-> "response"])

LogEvent(kind, lines, data) == [kind |-> kind, lines |-> lines, data |-> data, id |-> ""]

Shape ==
  [own |-> LogEvent("message", <<"event:", "message", "\n", "data:", "own", "\r", "\n">>, <<<<"own">>>>),
   split |-> LogEvent("message", <<"data:", "ow", "\n", "data:", "n2", "\n">>, <<<<"ow">>, <<"n2">>>>),
   other |-> LogEvent("message", <<":", "no", "te", "\n", "data:", "other", "\n">>, <<<<"other">>>>),
   echo |-> LogEvent("message", <<"data:", "echo", "\n">>, <<<<"echo">>>>),
   heartbeat |-> LogEvent("heartbeat", <<>>, <<>>),
   named |-> LogEvent("named", <<"event:", "open", "\n", "data:", "own", "\n">>, <<>>),
   nul |-> LogEvent("message", <<"id:", "NUL", "\n", "data:", "own", "\n">>, <<<<"own">>>>),
   junk |-> LogEvent("message", <<"data:", "junk", "\n">>, <<<<"junk">>>>),
   large |-> LogEvent("message", <<":", "l", "o", "ng", "\n", "data:", "own", "\n">>, <<<<"own">>>>)]

LogsOf(kinds) ==
  {[i \in DOMAIN log |-> [Shape[log[i]] EXCEPT !.id = EventIds[i]]]
     : log \in UNION {[1 .. n -> kinds] : n \in 1 .. 2}}

Stream == INSTANCE BridgeStream WITH log <- x1, heartbeat <- x2, stream <- x3,
  decoder <- x4, cursor <- x5, accepted <- x6, alive <- x7, cuts <- x8,
  Logs <- LogsOf(DOMAIN Shape), Envelope <- Envelopes, Me <- "me",
  Peer <- "dapp", MaxEventBytes <- 11, MaxCuts <- 1

-----------------------------------------------------------------------------
(* The TON Connect session and its coordinator. *)

Replay == INSTANCE TonConnectSession WITH sess <- x1, held <- x2, disk <- x3,
  approval <- x4, loc <- x5, read <- x6, wire <- x7, heard <- x8, dapp <- x9,
  linked <- x10, lost <- x11, refused <- x12, faults <- x13, crashes <- x14,
  Kinds <- {"transaction", "unsupported", "disconnect", "foreign", "broken"},
  MaxWire <- 2, MaxChunk <- 2, MaxFaults <- 1, MaxCrashes <- 1

-----------------------------------------------------------------------------
Symmetry ==
  Permutations({w1, w2}) \cup Permutations({c1, c2}) \cup Permutations({a, b})

\* The variables from each place on that an instance with fewer leaves unused.
rest15 == <<x15, x16, x17, x18, x19, x20, x21, x22, x23, x24>>
Unused15 == x15 = 0 /\ x16 = 0 /\ x17 = 0 /\ x18 = 0 /\ x19 = 0 /\ x20 = 0 /\
    x21 = 0 /\ x22 = 0 /\ x23 = 0 /\ x24 = 0
rest9 == <<x9, x10, x11, x12, x13, x14, rest15>>
Unused9 == x9 = 0 /\ x10 = 0 /\ x11 = 0 /\ x12 = 0 /\ x13 = 0 /\ x14 = 0 /\
    Unused15
rest1 == <<x1, x2, x3, x4, x5, x6, x7, x8, rest9>>
Unused1 == x1 = 0 /\ x2 = 0 /\ x3 = 0 /\ x4 = 0 /\ x5 = 0 /\ x6 = 0 /\ x7 = 0 /\
    x8 = 0 /\ Unused9

Init ==
  /\ HttpInit /\ DiskInit
  /\ \/ /\ part = "http" /\ Unused1
     \/ /\ part = "disk" /\ Unused1
     \/ /\ part = "tui" /\ Terminal!Init
     \/ /\ part = "wallets" /\ Keeper!Init
     \/ /\ part = "browser" /\ Page!Init /\ Unused15
     \/ /\ part = "kept" /\ OnePage!Init /\ Unused15
     \/ /\ part = "stream" /\ Stream!Init /\ Unused9
     \/ /\ part = "replay" /\ Replay!Init /\ Unused15

Next ==
  \/ part = "http" /\ HttpNext /\ TwoRequests'
       /\ UNCHANGED <<part, diskVars, instanceVars>>
  \/ part = "disk" /\ DiskNext
       /\ UNCHANGED <<part, httpVars, instanceVars>>
  \/ part = "tui" /\ Terminal!Next /\ UNCHANGED <<part, httpVars, diskVars>>
  \/ part = "wallets" /\ Keeper!Next /\ UNCHANGED <<part, httpVars, diskVars>>
  \/ part = "browser" /\ Page!Next /\ UNCHANGED <<part, httpVars, diskVars, rest15>>
  \/ part = "kept" /\ OnePage!Next /\ UNCHANGED <<part, httpVars, diskVars, rest15>>
  \/ part = "stream" /\ Stream!Next /\ UNCHANGED <<part, httpVars, diskVars, rest9>>
  \/ part = "replay" /\ Replay!Next /\ UNCHANGED <<part, httpVars, diskVars, rest15>>

Spec == Init /\ [][Next]_vars

-----------------------------------------------------------------------------
(* The properties, each of one component *)

\* Across failed writes and restarts the terminal wallet opens only what it has
\* the phrase of, and its task signs only what was approved.
TuiIsSafe ==
  /\ part = "tui" => Terminal!TuiIsSafe
  /\ part = "wallets" => Keeper!TuiIsSafe

\* The browser wallet answers a request once, across lost pages and repeated
\* deliveries, and a response it persisted is not lost while the session exists
\* (handleRequest, flushPendingPost and restore of TonConnectWallet).
BrowserAnswersOnce ==
  /\ part = "browser" => Page!AnswersOnce
  /\ part = "kept" => OnePage!ResponseIsKept

\* The session takes exactly its requests off the bridge's stream, and refuses a
\* chunk only for what the log says.
StreamIsExact == part = "stream" => Stream!StreamIsExact

\* What is stored can be read back, the dApp hears one answer and one event per
\* id, across replays, retries and crashes, and a request that the stored session
\* has consumed is kept until it is answered, unless its chunk was given up or its
\* staged answer was cleared by the completion of another one.
ReplaysAreHarmless == part = "replay" => Replay!ReplaysAreHarmless

=============================================================================
