---------------------------- MODULE MCLiveness ----------------------------
(***************************************************************************)
(* What must happen in the end: observers and the calls of a client that   *)
(* shuts down, TON Connect messages, the requests on the stream of a       *)
(* bridge, the responses of the browser wallet, and encrypted comments     *)
(* across rotations. A behavior is about one component, named by part.     *)
(***************************************************************************)
EXTENDS KeyDerivation, Integers, Sequences, TLC

VARIABLES
  part,  \* the component that this behavior is about
  x1, x2, x3, x4, x5, x6, x7, x8, x9, x10, x11, x12, x13, x14, x15, x16, x17,
  x18, x19, x20, x21, x22, x23, x24, x25, x26  \* its variables, in the order of its module

vars == <<part, x1, x2, x3, x4, x5, x6, x7, x8, x9, x10, x11, x12, x13, x14, x15, x16, x17, x18, x19, x20, x21, x22, x23, x24, x25, x26>>

-----------------------------------------------------------------------------
(* Two observers beside a send and the end of the client. *)

ClientOp ==
  [wait1 |-> "wait_for_change", wait2 |-> "wait_for_change", send |-> "send",
   shutdown |-> "shutdown"]

Client == INSTANCE WalletClient WITH pc <- x1, gen <- x2, arg <- x3, ans <- x4,
  outcome <- x5, active <- x6, generation <- x7, commit <- x8, closing <- x9,
  shutdown <- x10, revision <- x11, waiters <- x12, resource <- x13,
  feed <- x14, nfts <- x15, send <- x16, chain <- x17, owned <- x18,
  skipped <- x19, top <- x20, changes <- x21, faults <- x22, moved <- x23,
  gone <- x24, read <- x25, base <- x26, Calls <- DOMAIN ClientOp,
  Op <- ClientOp, MaxTx <- 0, Visible <- {}, PageSize <- 2, Nfts <- {},
  NftPageSize <- 2, MaxNftChanges <- 0, MaxFaults <- 1

-----------------------------------------------------------------------------
(* A TON Connect session with a failure and a crash, a bridge stream that is
   cut once, and the page of a browser wallet that is lost once. *)

TonConnect == INSTANCE TonConnectSession WITH sess <- x1, held <- x2,
  disk <- x3, approval <- x4, loc <- x5, read <- x6, wire <- x7, heard <- x8,
  dapp <- x9, linked <- x10, lost <- x11, refused <- x12, faults <- x13,
  crashes <- x14, Kinds <- {"transaction"}, MaxWire <- 1, MaxChunk <- 1,
  MaxFaults <- 1, MaxCrashes <- 1

-----------------------------------------------------------------------------
EventIds == <<"1", "2", "3">>

Envelopes ==
  (<<"ow", "n2">> :> [from |-> "dapp", sealed_by |-> "dapp", sealed_for |-> "me", body |-> "request"])

LogEvent(kind, lines, data) == [kind |-> kind, lines |-> lines, data |-> data, id |-> ""]

Shape ==
  [split |-> LogEvent("message", <<"data:", "ow", "\n", "data:", "n2", "\n">>, <<<<"ow">>, <<"n2">>>>),
   heartbeat |-> LogEvent("heartbeat", <<>>, <<>>)]

LogOf(kinds) == [i \in DOMAIN kinds |-> [Shape[kinds[i]] EXCEPT !.id = EventIds[i]]]

Stream == INSTANCE BridgeStream WITH log <- x1, heartbeat <- x2, stream <- x3,
  decoder <- x4, cursor <- x5, accepted <- x6, alive <- x7, cuts <- x8,
  Logs <- {LogOf(<<"heartbeat", "split">>)}, Envelope <- Envelopes, Me <- "me",
  Peer <- "dapp", MaxEventBytes <- 11, MaxCuts <- 1

Page == INSTANCE BrowserSession WITH wallet <- x1, stored <- x2, loop <- x3,
  call <- x4, sent <- x5, heard <- x6, staged <- x7, signed <- x8,
  consent <- x9, starts <- x10, disconnects <- x11, closes <- x12,
  crashes <- x13, losses <- x14, MaxRequests <- 2, MaxSessions <- 1,
  MaxDisconnects <- 0, MaxCloses <- 1, MaxCrashes <- 1, MaxLosses <- 1

-----------------------------------------------------------------------------
(* A comment that the peer writes while the wallet rotates its key twice. *)

PublicOf(half) == verifying_key(derive_half_key(half))

\* The correspondent alone.
Peer ==
  [P |-> [address |-> <<"address", wallet_contract_id("Mainnet"), PublicOf("p")>>,
          workchain |-> 0, status |-> "Active", key |-> {PublicOf("p")}, initial |-> PublicOf("p")]]

Comments == INSTANCE KeyRotation WITH account <- x1, installed <- x2, log <- x3,
  indexed <- x4, now <- x5, host <- x6, wire <- x7, calls <- x8, cache <- x9,
  comments <- x10, read <- x11, other <- x12, relayed <- x13, faults <- x14,
  Network <- "Mainnet", Kinds <- {"External"}, Lookups <- {"create"},
  Extras <- FALSE, Writers <- {"P"}, Statuses <- {"Active"}, Recipients <- Peer,
  Ttl <- 1, MaxNow <- 0, MaxComments <- 1, MaxOther <- 0, MaxRelayed <- 0,
  Declines <- FALSE, MaxFaults <- 0, KEY_CHANGE_PAGE_SIZE <- 2,
  MAX_KEY_CHANGE_PAGES <- 2, Halves <- <<"b", "c">>

-----------------------------------------------------------------------------
\* The variables from each place on that an instance with fewer leaves unused.
rest15 == <<x15, x16, x17, x18, x19, x20, x21, x22, x23, x24, x25, x26>>
Unused15 == x15 = 0 /\ x16 = 0 /\ x17 = 0 /\ x18 = 0 /\ x19 = 0 /\ x20 = 0 /\
    x21 = 0 /\ x22 = 0 /\ x23 = 0 /\ x24 = 0 /\ x25 = 0 /\ x26 = 0
rest9 == <<x9, x10, x11, x12, x13, x14, rest15>>
Unused9 == x9 = 0 /\ x10 = 0 /\ x11 = 0 /\ x12 = 0 /\ x13 = 0 /\ x14 = 0 /\
    Unused15

Init ==
  \/ /\ part = "client" /\ Client!Init
  \/ /\ part = "tc" /\ TonConnect!Init /\ Unused15
  \/ /\ part = "stream" /\ Stream!Init /\ Unused9
  \/ /\ part = "page" /\ Page!Init /\ Unused15
  \/ /\ part = "comments" /\ Comments!Init /\ Unused15

Next ==
  \/ part = "client" /\ Client!Next /\ UNCHANGED part
  \/ part = "tc" /\ TonConnect!Next /\ UNCHANGED <<part, rest15>>
  \/ part = "stream" /\ Stream!Next /\ UNCHANGED <<part, rest9>>
  \/ part = "page" /\ Page!Next /\ UNCHANGED <<part, rest15>>
  \/ part = "comments" /\ Comments!Next /\ UNCHANGED <<part, rest15>>

Spec == Init /\ [][Next]_vars

\* The fairness of each component: what its runtime or its bridge goes on doing.
\* Nothing is assumed of the user, of the dApp or of how often a call fails; a
\* reader who wants a comment tries again.
Fairness ==
  /\ \A c \in DOMAIN ClientOp :
       WF_vars(part = "client" /\ Client!Continue(c) /\ UNCHANGED part)
  /\ WF_vars(part = "tc" /\ TonConnect!Listener /\ UNCHANGED <<part, rest15>>)
  /\ WF_vars(part = "tc" /\ TonConnect!Operation /\ UNCHANGED <<part, rest15>>)
  /\ WF_vars(part = "stream" /\ Stream!Subscribe /\ UNCHANGED <<part, rest9>>)
  /\ WF_vars(part = "stream" /\ Stream!Receive /\ UNCHANGED <<part, rest9>>)
  /\ WF_vars(part = "page" /\ Page!LoopStep /\ UNCHANGED <<part, rest15>>)
  /\ WF_vars(part = "page" /\ Page!CallStep /\ UNCHANGED <<part, rest15>>)
  /\ WF_vars(part = "page" /\ Page!Restore /\ UNCHANGED <<part, rest15>>)
  /\ WF_vars(part = "page" /\ Page!StreamEnds /\ UNCHANGED <<part, rest15>>)
  /\ WF_vars(part = "comments" /\ Comments!Index /\ UNCHANGED <<part, rest15>>)
  /\ WF_vars(part = "comments" /\ Comments!Execute /\ UNCHANGED <<part, rest15>>)
  /\ WF_vars(part = "comments" /\ Comments!HostSubmits /\ UNCHANGED <<part, rest15>>)
  /\ WF_vars(part = "comments" /\ Comments!HostResolves /\ UNCHANGED <<part, rest15>>)
  /\ \A c \in {"W", "P"} :
       WF_vars(part = "comments" /\ Comments!Advance(c) /\ UNCHANGED <<part, rest15>>)
  /\ SF_vars(/\ part = "comments"
             /\ \E body \in x10 : Comments!Retry(body) /\ UNCHANGED <<part, rest15>>)

FairSpec == Spec /\ Fairness

-----------------------------------------------------------------------------
(* The properties, each of one component *)

\* The calls that are due to return, and those that are not running.
Due ==
  IF part = "client"
  THEN {c \in {"wait1", "wait2"} : x1[c] = "asleep" /\ (x11 > x3[c] \/ x10)} ELSE {}
Returned == IF part = "client" THEN {c \in DOMAIN ClientOp : x1[c] = "done"} ELSE {}
Closing == IF part = "client" /\ x9 THEN {"client"} ELSE {}
Stopped == IF part = "client" THEN {c \in DOMAIN ClientOp : x1[c] \in {"idle", "done"}} ELSE {}

\* An observer whose revision has passed returns, and shutdown releases every
\* call (wait_for_change, publish and shutdown).
CallsReturn ==
  /\ \A c \in {"wait1", "wait2"} : (c \in Due) ~> (c \in Returned)
  /\ ("client" \in Closing) ~> (DOMAIN ClientOp \subseteq Stopped)

\* The messages that a connected session has stored to post and those that the
\* dApp has heard, by the request they answer; 0 is the connect event.
Answered(messages) ==
  {m.id : m \in {n \in messages : n.kind \in TonConnect!AnswerKind \cup {"Connect"}}}
Posted ==
  IF part = "tc"
  THEN Answered(UNION {s.post : s \in {t \in x3 : t.phase = "Connected"}}) ELSE {}
Heard == IF part = "tc" THEN Answered(x8) ELSE {}
Refused == part = "tc" /\ x12

\* While the dApp is connected and the keychain takes what is stored, a stored
\* message reaches the bridge, whatever posts fail on the way and wherever the
\* process dies.
StagedIsHeard == \A id \in {0, 1} : (id \in Posted) ~> (id \in Heard \/ Refused)

\* The requests of the log that are not accepted yet.
Missing ==
  IF part = "stream" /\ x6 # Stream!OwnRequests(Len(x1)) THEN {"request"} ELSE {}

\* With a log of readable events every request of the peer is accepted in the end.
AllAccepted == <>("request" \notin Missing)

\* The requests whose response the page has persisted, and those that no longer
\* wait for one.
Persisted == IF part = "page" THEN {p.id : p \in x7} ELSE {}
Delivered ==
  IF part = "page" THEN {r \in {1, 2} : x2 = {} \/ \A p \in x7 : p.id = r => p \in x6} ELSE {}

\* A response that was persisted reaches the dApp, or the session ends: failed
\* posts, a lost page and a closed wallet only delay it.
ResponseIsHeard == \A r \in {1, 2} : (r \in Persisted) ~> (r \in Delivered)

\* The comments that were written, by their number, and those that were read.
Written == IF part = "comments" THEN {body.text : body \in x10} ELSE {}
Read == IF part = "comments" THEN x11 ELSE {}

\* A comment is read in the end, however many rotations lie between, when the
\* indexer catches up and the user tries again.
CommentsAreRead == (1 \in Written) ~> (1 \in Read)
=============================================================================
