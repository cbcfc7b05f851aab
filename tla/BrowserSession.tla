--------------------------- MODULE BrowserSession ---------------------------
(***************************************************************************)
(* The TON Connect wallet of web/src/ton-connect.ts: one session of a      *)
(* browser wallet with a dApp over the HTTP bridge.  The listen loop takes *)
(* requests and answers them; start, restore, disconnect and close of the  *)
(* application run beside it and share its fields.  Every await is a place *)
(* where the other side runs or the page is closed.                        *)
(*                                                                         *)
(* Requests are numbered in the order in which the dApp sends them, and    *)
(* the bridge's event ids follow them.  The application makes one call at  *)
(* a time.                                                                 *)
(***************************************************************************)
EXTENDS Integers, FiniteSets

CONSTANTS
  MaxRequests,      \* bound: requests of the dApp in one session
  MaxSessions,      \* bound: calls of start
  MaxDisconnects,   \* bound: calls of disconnect
  MaxCloses,        \* bound: calls of close
  MaxCrashes,       \* bound: times the page is lost
  MaxLosses         \* bound: posts the bridge does not confirm

VARIABLES
  wallet,     \* the fields of TonConnectWallet
  stored,     \* the PersistedSession in the storage, if there is one
  loop,       \* the listen task: where it is, its request and the post it makes
  call,       \* the application's call: where it is and the post it makes
  sent,       \* requests the dApp has sent
  heard,      \* what the dApp has received
  staged,     \* responses of this session that were persisted
  signed,     \* how often each request was signed
  consent,    \* what the user decided on the session's connect request
  starts, disconnects, closes, crashes, losses

counters == <<starts, disconnects, closes, crashes, losses>>
vars == <<wallet, stored, loop, call, sent, heard, staged, signed, consent, counters>>

Requests == 1..MaxRequests

\* What is posted: an answer to request id, or an event of the wallet (id 0).
Payload(kind, id) == [kind |-> kind, id |-> id]

NoSession ==
  [running |-> FALSE, aborted |-> FALSE, keys |-> FALSE, last |-> 0, event |-> 0,
   pending |-> {}]

NoLoop == [at |-> "none", request |-> 0, post |-> {}, closes |-> FALSE]
NoCall == [at |-> "idle", post |-> {}]

Init ==
  /\ wallet = NoSession /\ stored = {} /\ loop = NoLoop /\ call = NoCall
  /\ sent = 0 /\ heard = {} /\ staged = {} /\ signed = [r \in Requests |-> 0]
  /\ consent = "none"
  /\ starts = 0 /\ disconnects = 0 /\ closes = 0 /\ crashes = 0 /\ losses = 0

-----------------------------------------------------------------------------
(* Fields and storage.                                                     *)

Record(w) == [last |-> w.last, event |-> w.event, pending |-> w.pending]

\* persistSession after an assignment: nothing is written without keys.
PersistSession(w) ==
  /\ wallet' = w
  /\ stored' = IF w.keys THEN {Record(w)} ELSE stored

\* clearSession.
ClearSession ==
  /\ wallet' = [NoSession EXCEPT !.aborted = TRUE]
  /\ stored' = {}
  /\ staged' = {}
  /\ consent' = "none"

\* The bridge confirms a post, or the wallet sees a failure: the message may
\* have arrived all the same.  A post with an aborted signal fails.
Delivered(post, confirmed) ==
  /\ confirmed => ~wallet.aborted
  /\ ~confirmed => wallet.aborted \/ losses < MaxLosses
  /\ losses' = IF confirmed \/ wallet.aborted THEN losses ELSE losses + 1
  /\ \/ heard' = heard \cup post
     \/ ~confirmed /\ heard' = heard
  /\ UNCHANGED <<starts, disconnects, closes, crashes>>

-----------------------------------------------------------------------------
(* The listen loop.                                                        *)

LoopAt(stage) == loop' = [loop EXCEPT !.at = stage, !.post = {}]

LoopOnly == UNCHANGED <<call, sent, heard, signed, consent, counters>>

\* The head of the loop: a pending post goes first.
ListenTop ==
  /\ loop.at = "top"
  /\ \/ /\ wallet.aborted \/ ~wallet.running
        /\ loop' = NoLoop
     \/ /\ ~wallet.aborted /\ wallet.running /\ wallet.pending # {}
        /\ loop' = [loop EXCEPT !.at = "posting", !.post = wallet.pending, !.closes = FALSE]
     \/ /\ ~wallet.aborted /\ wallet.running /\ wallet.pending = {}
        /\ LoopAt("reading")
  /\ UNCHANGED <<wallet, stored, staged>> /\ LoopOnly

\* handleSseEvent: the event id is persisted.  The bridge starts after
\* lastEventId and may repeat an event.
ReadEvent ==
  /\ loop.at = "reading"
  /\ ~wallet.aborted
  /\ \E e \in 1..sent :
       /\ e <= wallet.event + 1
       /\ PersistSession([wallet EXCEPT !.event = e])
       /\ loop' = [loop EXCEPT !.at = "took", !.request = e]
  /\ UNCHANGED staged /\ LoopOnly

\* The stream ends or is aborted.
StreamEnds ==
  /\ loop.at = "reading"
  /\ LoopAt("top")
  /\ UNCHANGED <<wallet, stored, staged>> /\ LoopOnly

\* Mutant: the request id is kept in memory only.
TakeRequest_volatile ==
  /\ loop.at = "took"
  /\ \/ /\ loop.request > wallet.last
        /\ wallet' = [wallet EXCEPT !.last = loop.request]
        /\ LoopAt("handling")
     \/ /\ loop.request <= wallet.last
        /\ LoopAt("reading")
        /\ UNCHANGED wallet
  /\ UNCHANGED <<stored, staged>> /\ LoopOnly

\* The request id is persisted before the request is handled; a request that
\* is not newer is dropped.
TakeRequest ==
  /\ loop.at = "took"
  /\ \/ /\ loop.request > wallet.last
        /\ PersistSession([wallet EXCEPT !.last = loop.request])
        /\ LoopAt("handling")
     \/ /\ loop.request <= wallet.last
        /\ LoopAt("reading")
        /\ UNCHANGED <<wallet, stored>>
  /\ UNCHANGED staged /\ LoopOnly

\* postEncrypted of the loop up to the post: the response is persisted.
Stage(kind, closing) ==
  LET post == {Payload(kind, loop.request)} IN
  /\ PersistSession([wallet EXCEPT !.pending = post])
  /\ staged' = IF wallet.keys THEN staged \cup post ELSE staged
  /\ loop' = [loop EXCEPT !.at = "staged", !.closes = closing]

\* handleRequest up to its first answer or to the prompt: a disconnect, a
\* request that is refused or cannot be previewed, or a prompt.
HandleRequest ==
  /\ loop.at = "handling"
  /\ \/ Stage("result", TRUE)
     \/ Stage("error", FALSE)
     \/ LoopAt("asking") /\ UNCHANGED <<wallet, stored, staged>>
  /\ LoopOnly

\* respond: the user decides on the prompt of a request.
Respond ==
  /\ loop.at = "asking"
  /\ \/ Stage("error", FALSE)
     \/ LoopAt("signing") /\ UNCHANGED <<wallet, stored, staged>>
  /\ LoopOnly

\* walletClient.send or signMessage: it signs, or its error is answered.
SignRequest ==
  /\ loop.at = "signing"
  /\ \/ Stage("error", FALSE) /\ UNCHANGED signed
     \/ /\ signed' = [signed EXCEPT ![loop.request] = @ + 1]
        /\ LoopAt("signed")
        /\ UNCHANGED <<wallet, stored, staged>>
  /\ UNCHANGED <<call, sent, heard, consent, counters>>

\* The response to a request that was signed: a send that ended in another
\* phase than the accepted ones is answered with an error.
AnswerSigned ==
  /\ loop.at = "signed"
  /\ \E kind \in {"result", "error"} : Stage(kind, FALSE)
  /\ LoopOnly

\* flushPendingPost takes what is pending when it starts.  Without a pending
\* post it throws.
FlushLoop ==
  /\ loop.at = "staged"
  /\ \/ wallet.pending # {}
        /\ loop' = [loop EXCEPT !.at = "posting", !.post = wallet.pending]
     \/ wallet.pending = {} /\ LoopAt("top")
  /\ UNCHANGED <<wallet, stored, staged>> /\ LoopOnly

\* Mutant: a post that failed is taken for a confirmed one.
LoopPosted_dropped ==
  /\ loop.at = "posting"
  /\ \E confirmed \in BOOLEAN : Delivered(loop.post, confirmed)
  /\ loop' = [loop EXCEPT !.at = "confirmed"]
  /\ UNCHANGED <<wallet, stored, call, sent, staged, signed, consent>>

\* The post of flushPendingPost in the loop.  A failure is caught by the loop,
\* which starts over.
LoopPosted ==
  /\ loop.at = "posting"
  /\ \/ Delivered(loop.post, TRUE) /\ loop' = [loop EXCEPT !.at = "confirmed"]
     \/ Delivered(loop.post, FALSE) /\ LoopAt("top")
  /\ UNCHANGED <<wallet, stored, call, sent, staged, signed, consent>>

\* The end of flushPendingPost: a confirmed post clears the pending one.
LoopConfirmed ==
  /\ loop.at = "confirmed"
  /\ PersistSession([wallet EXCEPT !.pending = {}])
  /\ LoopAt(IF loop.closes THEN "closing" ELSE "reading")
  /\ UNCHANGED staged /\ LoopOnly

\* The answer to a disconnect of the dApp is followed by clearSession; the loop
\* then finds that it was aborted.
LoopCleared ==
  /\ loop.at = "closing"
  /\ ClearSession
  /\ LoopAt("top")
  /\ UNCHANGED <<call, sent, heard, signed, counters>>

LoopStep ==
  \/ ListenTop \/ TakeRequest \/ HandleRequest \/ SignRequest \/ AnswerSigned
  \/ FlushLoop \/ LoopPosted \/ LoopConfirmed \/ LoopCleared

-----------------------------------------------------------------------------
(* The application's calls.                                                *)

CallAt(stage) == call' = [call EXCEPT !.at = stage]

\* start up to the connect prompt.  The application calls it when it was told
\* that the former session ended.
Start ==
  /\ call.at = "idle" /\ ~wallet.running /\ loop.at = "none"
  /\ starts < MaxSessions
  /\ starts' = starts + 1
  /\ wallet' = [wallet EXCEPT !.running = TRUE, !.aborted = FALSE]
  /\ CallAt("connecting")
  /\ UNCHANGED <<stored, loop, sent, heard, staged, signed, consent, disconnects, closes,
                 crashes, losses>>

\* The link or the manifest is refused: start throws.
StartFails ==
  /\ call.at = "connecting"
  /\ wallet' = [wallet EXCEPT !.running = FALSE]
  /\ CallAt("idle")
  /\ UNCHANGED <<stored, loop, sent, heard, staged, signed, consent, counters>>

\* The user decides on the connect prompt: new keys, and the answer persisted.
DecideConnect ==
  /\ call.at = "connecting"
  /\ \E approved \in BOOLEAN :
       LET kind == IF approved THEN "connect" ELSE "connect_error" IN
       /\ PersistSession([wallet EXCEPT !.keys = TRUE, !.last = 0, !.event = 0,
                                        !.pending = {Payload(kind, 0)}])
       /\ call' = [at |-> "answering", post |-> {Payload(kind, 0)}]
       /\ consent' = IF approved THEN "approved" ELSE "declined"
  /\ sent' = 0 /\ heard' = {} /\ staged' = {} /\ signed' = [r \in Requests |-> 0]
  /\ UNCHANGED <<loop, counters>>

\* The post of the connect answer; start throws when it fails.
ConnectPosted ==
  /\ call.at = "answering"
  /\ \/ Delivered(call.post, TRUE) /\ CallAt("answered") /\ UNCHANGED wallet
     \/ /\ Delivered(call.post, FALSE)
        /\ wallet' = [wallet EXCEPT !.running = FALSE]
        /\ call' = NoCall
  /\ UNCHANGED <<stored, loop, sent, staged, signed, consent>>

ConnectConfirmed ==
  /\ call.at = "answered"
  /\ PersistSession([wallet EXCEPT !.pending = {}])
  /\ CallAt("started")
  /\ UNCHANGED <<loop, sent, heard, staged, signed, consent, counters>>

\* The rest of start: the loop runs, or a declined session is removed.
Started ==
  /\ call.at = "started"
  /\ \/ /\ consent = "approved"
        /\ loop' = [NoLoop EXCEPT !.at = "top"]
        /\ UNCHANGED <<wallet, stored, staged, consent>>
     \/ /\ consent = "declined"
        /\ ClearSession
        /\ UNCHANGED loop
  /\ call' = NoCall
  /\ UNCHANGED <<sent, heard, signed, counters>>

\* restore: the stored session runs again, whatever it was waiting for.
Restore ==
  /\ call.at = "idle" /\ ~wallet.running /\ loop.at = "none"
  /\ \E rec \in stored :
       wallet' = [running |-> TRUE, aborted |-> FALSE, keys |-> TRUE, last |-> rec.last,
                  event |-> rec.event, pending |-> rec.pending]
  /\ loop' = [NoLoop EXCEPT !.at = "top"]
  /\ UNCHANGED <<stored, call, sent, heard, staged, signed, consent, counters>>

\* disconnect up to its post: the disconnect event takes the place of whatever
\* is pending.
Disconnect ==
  /\ call.at = "idle" /\ wallet.running /\ wallet.keys
  /\ disconnects < MaxDisconnects
  /\ disconnects' = disconnects + 1
  /\ PersistSession([wallet EXCEPT !.pending = {Payload("disconnect", 0)}])
  /\ CallAt("leaving")
  /\ UNCHANGED <<loop, sent, heard, staged, signed, consent, starts, closes, crashes, losses>>

FlushDisconnect ==
  /\ call.at = "leaving"
  /\ \/ wallet.pending # {} /\ call' = [at |-> "parting", post |-> wallet.pending]
     \/ wallet.pending = {} /\ call' = NoCall
  /\ UNCHANGED <<wallet, stored, loop, sent, heard, staged, signed, consent, counters>>

\* The post of the disconnect.  When it fails disconnect throws and the session
\* goes on.
DisconnectPosted ==
  /\ call.at = "parting"
  /\ \/ Delivered(call.post, TRUE) /\ CallAt("told")
     \/ Delivered(call.post, FALSE) /\ call' = NoCall
  /\ UNCHANGED <<wallet, stored, loop, sent, staged, signed, consent>>

DisconnectConfirmed ==
  /\ call.at = "told"
  /\ PersistSession([wallet EXCEPT !.pending = {}])
  /\ CallAt("aborting")
  /\ UNCHANGED <<loop, sent, heard, staged, signed, consent, counters>>

\* The rest of disconnect: abort, and wait for the loop.
Abort ==
  /\ call.at = "aborting"
  /\ wallet' = [wallet EXCEPT !.aborted = TRUE]
  /\ call' = [at |-> "joining", post |-> {}]
  /\ UNCHANGED <<stored, loop, sent, heard, staged, signed, consent, counters>>

\* close aborts, declines the open prompts and waits for the loop.
Close ==
  /\ call.at = "idle" /\ wallet.running
  /\ closes < MaxCloses
  /\ closes' = closes + 1
  /\ \/ /\ loop.at = "asking"
        /\ LET post == {Payload("error", loop.request)} IN
           /\ PersistSession([wallet EXCEPT !.aborted = TRUE, !.pending = post])
           /\ staged' = staged \cup post
           /\ loop' = [loop EXCEPT !.at = "staged", !.closes = FALSE]
     \/ /\ loop.at # "asking"
        /\ wallet' = [wallet EXCEPT !.aborted = TRUE]
        /\ UNCHANGED <<stored, staged, loop>>
  /\ CallAt("closing")
  /\ UNCHANGED <<sent, heard, signed, consent, starts, disconnects, crashes, losses>>

\* The wait for the loop is over.
LoopJoined ==
  /\ loop.at = "none"
  /\ \/ call.at = "joining" /\ ClearSession
     \/ /\ call.at = "closing"
        /\ wallet' = [wallet EXCEPT !.running = FALSE]
        /\ UNCHANGED <<stored, staged, consent>>
  /\ call' = NoCall
  /\ UNCHANGED <<loop, sent, heard, signed, counters>>

CallStep ==
  \/ ConnectPosted \/ ConnectConfirmed \/ Started
  \/ FlushDisconnect \/ DisconnectPosted \/ DisconnectConfirmed \/ Abort \/ LoopJoined

\* The dApp sends a request on a session it was told of.
SendRequest ==
  /\ Payload("connect", 0) \in heard
  /\ sent < MaxRequests
  /\ sent' = sent + 1
  /\ UNCHANGED <<wallet, stored, loop, call, heard, staged, signed, consent, counters>>

\* The page is lost; the storage is not.
Crash ==
  /\ crashes < MaxCrashes
  /\ crashes' = crashes + 1
  /\ wallet' = NoSession /\ loop' = NoLoop /\ call' = NoCall
  /\ UNCHANGED <<stored, sent, heard, staged, signed, consent, starts, disconnects, closes,
                 losses>>

Next ==
  \/ LoopStep \/ ReadEvent \/ StreamEnds \/ Respond
  \/ Start \/ StartFails \/ DecideConnect \/ Restore \/ Disconnect \/ Close \/ CallStep
  \/ SendRequest \/ Crash

Spec == Init /\ [][Next]_vars

\* The page runs its continuations and the application restores a stored
\* session.  A post is answered in the end; how often it fails is bounded.
\* Nothing is assumed of the user and of the dApp.
FairSpec ==
  Spec /\ WF_vars(LoopStep) /\ WF_vars(CallStep) /\ WF_vars(Restore)
       /\ WF_vars(StreamEnds)

-----------------------------------------------------------------------------
(* Properties.                                                             *)

\* A request is signed at most once, also when the page was lost after the
\* request was taken and the bridge delivers it again.
SignedOnce == \A r \in Requests : signed[r] <= 1

\* The dApp never hears two different answers to one request.
OneAnswer ==
  \A p, q \in heard : p.id = q.id /\ p.id # 0 => p = q

\* A response that was persisted is either with the dApp or still pending in
\* the storage, as long as the session exists.
ResponseIsKept ==
  \A p \in staged : p \in heard \/ \E rec \in stored : rec.pending = {p}

\* A response that was persisted reaches the dApp, or the session ends: failed
\* posts, a lost page and a closed wallet only delay it.
ResponseIsHeard ==
  \A r \in Requests, kind \in {"result", "error"} :
    (Payload(kind, r) \in staged)
      ~> (Payload(kind, r) \in heard \/ stored = {} \/ Payload(kind, r) \notin staged)

\* A session that restore resumes is one whose connection the user approved.
RestoredWasApproved == loop.at # "none" => consent = "approved"

\* When disconnect has posted and removes the session, the dApp was told.
DisconnectIsTold == call.at = "joining" => Payload("disconnect", 0) \in heard

\* A confirmed disconnect ends: the session's keys are removed.
DisconnectEnds == (call.at = "joining") ~> (stored = {})

\* A request is signed and answered at most once, across lost pages and repeated
\* deliveries.
AnswersOnce == SignedOnce /\ OneAnswer
=============================================================================
