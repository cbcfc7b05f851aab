------------------------------- MODULE TuiApp -------------------------------
(***************************************************************************)
(* The terminal wallet: the screens of examples/tui/src/app.rs, one key at *)
(* a time, the TON Connect task of examples/tui/src/ton_connect.rs that    *)
(* runs beside them, and the disk store both write through.                *)
(*                                                                         *)
(* The application polls the events of the task once before every key.     *)
(* The engine is reduced to what the two show the user: per wallet, the    *)
(* signed message that is unresolved and whether the snapshot offers to    *)
(* replace it.  A message is a number; 0 is no message.                    *)
(***************************************************************************)
EXTENDS DiskStore, Sequences

CONSTANTS
  MaxMessages,    \* bound: signed messages
  MaxRequests,    \* bound: requests of the dApp
  MaxFaults,      \* bound: failing writes
  MaxRestarts     \* bound: crashes and power losses

VARIABLES
  screen,         \* Screen, without its data
  created,        \* the wallet of Screen::Recovery
  prompt,         \* the prompt of a TON Connect screen
  descriptor, client,
  snapshot,       \* the message the application's snapshot offers to replace
  force,          \* force_send, as the message it was pressed for
  waiting,        \* what handle_key waits for: the end of the task
  polled,         \* the events were polled since the last key
  task,           \* the TON Connect task and its controller
  pending,        \* per wallet, the unresolved message
  offered,        \* per wallet, the message the engine offers to replace
  messages,       \* messages signed so far
  requests, faults, restarts,
  removed,        \* wallets the user asked to delete or discard
  dismissed,      \* wallets whose discarding was reported as done
  unasked,        \* forced sends that replaced a message nobody acknowledged
  approved,       \* requests the user approved, with their force flag
  signed          \* requests for which the task signed, with the flag

app == <<screen, created, prompt, descriptor, client, snapshot, force, waiting, polled>>
engine == <<pending, offered, messages>>
history == <<removed, dismissed, unasked, approved, signed>>
bounds == <<requests, faults, restarts>>
vars == <<app, task, store, engine, history, bounds>>

\* TonConnectController::start has not been called, or the task was joined.
NoTask ==
  [stage |-> "off", wallet |-> {}, cancelled |-> FALSE, events |-> <<>>,
   decision |-> {}, request |-> 0, force |-> 0, closes |-> FALSE]

NoPrompt == [wallet |-> {}, offers |-> 0, force |-> FALSE, request |-> 0]

Connected == task.stage # "off"

can_force_retry == snapshot # 0

\* What the first screens of a process depend on: App::new.
Opened(state) ==
  /\ screen' = IF state.wallet = {} THEN "Welcome" ELSE "Dashboard"
  /\ client' = state.wallet
  /\ descriptor' = state.wallet

Init ==
  /\ StoreInit
  /\ screen = "Welcome" /\ created = {} /\ prompt = NoPrompt
  /\ descriptor = {} /\ client = {} /\ snapshot = 0 /\ force = 0
  /\ waiting = "none" /\ polled = FALSE
  /\ task = NoTask
  /\ pending = [w \in Wallets |-> 0] /\ offered = [w \in Wallets |-> 0]
  /\ messages = 0 /\ requests = 0 /\ faults = 0 /\ restarts = 0
  /\ removed = {} /\ dismissed = {} /\ unasked = {} /\ approved = {} /\ signed = {}

Counted(outcome) ==
  \/ outcome = "done" /\ UNCHANGED faults
  \/ outcome # "done" /\ faults < MaxFaults /\ faults' = faults + 1

-----------------------------------------------------------------------------
(* The application: wallets.                                               *)

\* A key is handled on the screen that the last poll left.
Key(s) ==
  /\ screen = s
  /\ waiting = "none"
  /\ polled
  /\ polled' = FALSE
  /\ UNCHANGED waiting

\* client.shutdown waits for a send that crossed its commit boundary.
CanShutDown == \A w \in client : ~(task.stage = "committed" /\ task.wallet = {w})

\* Ids are made from the clock: a new wallet has a new record.
Fresh == Wallets \ (memory.secrets \cup memory.wallet \cup removed \cup created)

\* open_wallet, with its refresh.  The new client's snapshot shows what the
\* engine knows.
open_wallet(w) ==
  /\ CanShutDown
  /\ client' = {w} /\ descriptor' = {w} /\ screen' = "Dashboard"
  /\ snapshot' = offered[w]

create_wallet ==
  /\ Key("Welcome")
  /\ \E w \in Fresh, outcome \in Outcomes :
       /\ store_protected_secret(w, outcome)
       /\ Counted(outcome)
       /\ \/ outcome = "done" /\ screen' = "Recovery" /\ created' = {w}
          \/ outcome # "done" /\ UNCHANGED <<screen, created>>
  /\ UNCHANGED <<prompt, descriptor, client, snapshot, force, task, engine, history,
                 requests, restarts>>

confirm_created_wallet ==
  /\ Key("Recovery")
  /\ \E w \in created, outcome \in Outcomes :
       /\ save_wallet(w, outcome)
       /\ Counted(outcome)
       /\ \/ outcome = "done" /\ open_wallet(w) /\ created' = {}
          \/ outcome # "done" /\ UNCHANGED <<screen, created, client, descriptor, snapshot>>
  /\ UNCHANGED <<prompt, force, task, engine, history, requests, restarts>>

discard_created_wallet ==
  /\ Key("Recovery")
  /\ \E w \in created, outcome \in Outcomes :
       /\ delete_protected_secret(w, outcome)
       /\ Counted(outcome)
       /\ removed' = removed \cup {w}
       /\ \/ outcome = "done" /\ screen' = "Welcome" /\ created' = {}
             /\ dismissed' = dismissed \cup {w}
          \/ outcome # "done" /\ UNCHANGED <<screen, created, dismissed>>
  /\ UNCHANGED <<prompt, descriptor, client, snapshot, force, task, engine, unasked,
                 approved, signed, requests, restarts>>

\* Mutant: the descriptor is saved although the secret could not be stored.
import_wallet_first ==
  /\ Key("Import")
  /\ \E w \in Fresh, first \in Outcomes :
       /\ Counted(first)
       /\ save_wallet(w, first)
       /\ \/ first = "done" /\ open_wallet(w)
          \/ first # "done" /\ UNCHANGED <<screen, client, descriptor, snapshot>>
  /\ UNCHANGED <<created, prompt, force, task, engine, history, requests, restarts>>

\* The words are stored, then the descriptor: two writes of the store.
import_wallet ==
  /\ Key("Import")
  /\ \E w \in Fresh, first \in Outcomes, second \in Outcomes :
       \/ /\ first # "done" /\ second = "done"
          /\ store_protected_secret(w, first)
          /\ Counted(first)
          /\ UNCHANGED <<screen, client, descriptor, snapshot>>
       \/ /\ first = "done"
          /\ Counted(second)
          /\ LET stored == [memory EXCEPT !.secrets = @ \cup {w}]
                 saved == [stored EXCEPT !.wallet = {w}]
             IN  /\ memory' = saved
                 /\ file' = IF second = "unreplaced" THEN stored ELSE saved
                 /\ flushed' = IF second = "done" THEN saved ELSE stored
          /\ \/ second = "done" /\ open_wallet(w)
             \/ second # "done" /\ UNCHANGED <<screen, client, descriptor, snapshot>>
  /\ UNCHANGED <<created, prompt, force, task, engine, history, requests, restarts>>

\* Shut the client down, delete the secret, clear the descriptor.
delete_wallet ==
  /\ Key("ConfirmDelete")
  /\ CanShutDown
  /\ \E w \in descriptor, first \in Outcomes, second \in Outcomes :
       /\ client' = {}
       /\ removed' = removed \cup {w}
       /\ \/ /\ first # "done" /\ second = "done"
             /\ delete_protected_secret(w, first)
             /\ Counted(first)
             /\ screen' = "Dashboard"
             /\ UNCHANGED <<descriptor, snapshot>>
          \/ /\ first = "done"
             /\ Counted(second)
             /\ LET deleted == [memory EXCEPT !.secrets = @ \ {w}]
                    cleared == [deleted EXCEPT !.wallet = {}]
                IN  /\ memory' = cleared
                    /\ file' = IF second = "unreplaced" THEN deleted ELSE cleared
                    /\ flushed' = IF second = "done" THEN cleared ELSE deleted
             /\ \/ second = "done" /\ screen' = "Welcome" /\ descriptor' = {} /\ snapshot' = 0
                \/ second # "done" /\ screen' = "Dashboard" /\ UNCHANGED <<descriptor, snapshot>>
  /\ UNCHANGED <<created, prompt, force, task, engine, dismissed, unasked, approved, signed,
                 requests, restarts>>

\* The keys that only change the screen.
Moves ==
  {<<"Welcome", "Import">>, <<"Import", "Welcome">>, <<"Dashboard", "Send">>,
   <<"Send", "Dashboard">>, <<"Dashboard", "TonConnectLink">>,
   <<"TonConnectLink", "Dashboard">>, <<"Dashboard", "ConfirmDelete">>,
   <<"ConfirmDelete", "Dashboard">>}

MoveKey ==
  \E move \in Moves :
    /\ Key(move[1])
    /\ move[2] = "TonConnectLink" => ~Connected
    /\ screen' = move[2]
    /\ force' = IF move[2] = "Send" THEN 0 ELSE force
    /\ UNCHANGED <<created, prompt, descriptor, client, snapshot, task, store, engine,
                   history, bounds>>

-----------------------------------------------------------------------------
(* The application: sends.                                                 *)

\* refresh and load_more: the snapshot is replaced by the engine's.
refresh ==
  /\ Key("Dashboard")
  /\ \E w \in client : snapshot' = offered[w]
  /\ UNCHANGED <<screen, created, prompt, descriptor, client, force, task, store, engine,
                 history, bounds>>

\* A character or Backspace in a field of the send dialog.
EditSend ==
  /\ Key("Send")
  /\ force # 0
  /\ force' = 0
  /\ UNCHANGED <<screen, created, prompt, descriptor, client, snapshot, task, store,
                 engine, history, bounds>>

\* Space: acknowledge the risk of the message the snapshot shows, or take the
\* acknowledgement back.
ToggleForce ==
  /\ Key("Send")
  /\ can_force_retry
  /\ force' = IF force = 0 THEN snapshot ELSE 0
  /\ UNCHANGED <<screen, created, prompt, descriptor, client, snapshot, task, store,
                 engine, history, bounds>>

\* The ends of one send or sign_message of wallet w: the engine refuses
\* (nothing is signed), or a new message takes the place of the unresolved one.
\* An unresolved message may turn out settled on the way, and the snapshot may
\* offer to replace what is unresolved afterwards.  The request is forced when
\* the user acknowledged the message `acknowledged`.
Sends(w, acknowledged, signs) ==
  /\ \E settled \in BOOLEAN :
       LET standing == IF settled THEN 0 ELSE pending[w] IN
       /\ signs => (standing = 0 \/ acknowledged # 0) /\ messages < MaxMessages
       /\ messages' = IF signs THEN messages + 1 ELSE messages
       /\ pending' = [pending EXCEPT ![w] = IF signs THEN messages + 1 ELSE standing]
       /\ unasked' = unasked \cup
            IF signs /\ standing \notin {0, acknowledged} THEN {standing} ELSE {}
  /\ \E offer \in {0, pending'[w]} : offered' = [offered EXCEPT ![w] = offer]

\* Enter in the send dialog: the two checks of the acknowledgement, the engine's
\* answer, the new snapshot.  The engine refuses while a send of the task is in
\* progress.  The dialog stays after an error, which may come after signing.
send ==
  /\ Key("Send")
  /\ can_force_retry => force # 0
  /\ \E w \in client, signs \in BOOLEAN, fails \in BOOLEAN :
       /\ signs \/ fails
       /\ \/ /\ task.stage \in {"sending", "committed"} /\ task.wallet = {w}
             /\ ~signs
             /\ UNCHANGED <<pending, offered, messages, unasked>>
          \/ /\ ~(task.stage \in {"sending", "committed"} /\ task.wallet = {w})
             /\ Sends(w, force, signs)
       /\ snapshot' = offered'[w]
       /\ screen' = IF fails THEN "Send" ELSE "Dashboard"
  /\ UNCHANGED <<created, prompt, descriptor, client, force, task, store, removed, dismissed,
                 approved, signed, bounds>>

-----------------------------------------------------------------------------
(* The application: TON Connect.                                           *)

start_ton_connect ==
  /\ Key("TonConnectLink")
  /\ descriptor # {} /\ client # {}
  /\ task' = [NoTask EXCEPT !.stage = "manifest", !.wallet = descriptor]
  /\ screen' = "TonConnectConnecting"
  /\ UNCHANGED <<created, prompt, descriptor, client, snapshot, force, store, engine,
                 history, bounds>>

\* The answer that `respond` sends: the force flag, kept as the message it was
\* pressed for, counts for an approval.
respond(approval) ==
  [approved |-> approval,
   force |-> IF approval /\ prompt.force THEN prompt.offers ELSE 0]

handle_ton_connect_confirmation ==
  /\ Key("TonConnectConfirm")
  /\ \E approval \in BOOLEAN : task' = [task EXCEPT !.decision = {respond(approval)}]
  /\ screen' = "TonConnectConnecting"
  /\ prompt' = NoPrompt
  /\ UNCHANGED <<created, descriptor, client, snapshot, force, store, engine, history, bounds>>

\* Space, y and n on a transaction.  y needs the acknowledgement when the
\* prompt offers a replacement.
handle_ton_connect_transaction ==
  /\ Key("TonConnectTransaction")
  /\ \/ /\ prompt.offers # 0
        /\ prompt' = [prompt EXCEPT !.force = ~@]
        /\ UNCHANGED <<screen, task, approved>>
     \/ \E approval \in BOOLEAN :
          /\ approval => prompt.offers = 0 \/ prompt.force
          /\ task' = [task EXCEPT !.decision = {respond(approval)}]
          /\ approved' = approved \cup
               IF approval THEN {<<prompt.request, prompt.force>>} ELSE {}
          /\ screen' = "Dashboard"
          /\ prompt' = NoPrompt
  /\ UNCHANGED <<created, descriptor, client, snapshot, force, store, engine, removed,
                 dismissed, unasked, signed, bounds>>

\* x on the dashboard and Esc while connecting: cancel the task and wait for it.
stop_ton_connect ==
  /\ \E s \in {"Dashboard", "TonConnectConnecting"} : screen = s
  /\ waiting = "none" /\ polled
  /\ polled' = FALSE
  /\ \/ ~Connected /\ screen' = "Dashboard" /\ UNCHANGED <<waiting, task>>
     \/ Connected /\ waiting' = "stop" /\ task' = [task EXCEPT !.cancelled = TRUE]
        /\ UNCHANGED screen
  /\ UNCHANGED <<created, prompt, descriptor, client, snapshot, force, store, engine,
                 history, bounds>>

\* q and Ctrl-C: the main loop ends with App::shutdown.
quit ==
  /\ waiting = "none" /\ polled
  /\ polled' = FALSE
  /\ waiting' = "quit"
  /\ task' = [task EXCEPT !.cancelled = Connected]
  /\ UNCHANGED <<screen, created, prompt, descriptor, client, snapshot, force, store, engine,
                 history, bounds>>

\* The wait of TonConnectController::shutdown is over.
Joined ==
  /\ waiting \in {"stop", "quit"}
  /\ task.stage \in {"off", "ended"}
  /\ task' = NoTask
  /\ waiting' = IF waiting = "quit" THEN "gone" ELSE "none"
  /\ client' = IF waiting = "quit" THEN {} ELSE client
  /\ screen' = "Dashboard"
  /\ UNCHANGED <<created, prompt, descriptor, snapshot, force, polled, store, engine, history,
                 bounds>>

ScreenOf ==
  [ConnectPrompt |-> "TonConnectConfirm", Connected |-> "Dashboard",
   TransactionPrompt |-> "TonConnectTransaction", TransactionFinished |-> "Dashboard",
   Disconnected |-> "Dashboard", Failed |-> "Dashboard"]

\* Every queued event replaces the screen; the last one stays.  A session that
\* has ended is joined.
poll_ton_connect ==
  LET kinds == {task.events[i].kind : i \in DOMAIN task.events}
      last == task.events[Len(task.events)]
  IN  /\ waiting = "none" /\ ~polled
      /\ polled' = TRUE
      /\ \/ /\ task.events = <<>>
            /\ UNCHANGED <<screen, created, prompt, snapshot, task>>
         \/ /\ task.events # <<>>
            /\ screen' = ScreenOf[last.kind]
            /\ prompt' = last.prompt
            /\ created' = {}
            /\ IF "TransactionFinished" \in kinds
               THEN IF client = {} THEN snapshot' = 0
                    ELSE \E w \in client : snapshot' = offered[w]
               ELSE UNCHANGED snapshot
            /\ task' = IF kinds \cap {"Disconnected", "Failed"} # {} THEN NoTask
                       ELSE [task EXCEPT !.events = <<>>]
      /\ UNCHANGED <<descriptor, client, force, waiting, store, engine, history, bounds>>

-----------------------------------------------------------------------------
(* The TON Connect task.                                                   *)

Posted(kind, shown) == Append(task.events, [kind |-> kind, prompt |-> shown])

\* The task goes to a stage without an event, or with one.
Goes(stage) == task' = [task EXCEPT !.stage = stage, !.decision = {}]

GoesWith(stage, kind, shown) ==
  task' = [task EXCEPT !.stage = stage, !.decision = {}, !.events = Posted(kind, shown)]

TaskOnly == UNCHANGED <<app, store, engine, history, bounds>>

\* `run` up to the connect prompt: link, account, network and manifest.  None
\* of it watches the cancellation.
LoadManifest ==
  /\ task.stage = "manifest"
  /\ GoesWith("connecting", "ConnectPrompt", [NoPrompt EXCEPT !.wallet = task.wallet])
  /\ TaskOnly

\* An error of `run`, of the stream or of a post ends the task.
TaskFails ==
  /\ task.stage \in {"manifest", "approving", "rejecting", "listening", "answering"}
  /\ GoesWith("ended", "Failed", NoPrompt)
  /\ TaskOnly

\* The select on the connect decision and the cancellation.
DecideConnect ==
  /\ task.stage = "connecting"
  /\ \/ \E decision \in task.decision :
          Goes(IF decision.approved THEN "approving" ELSE "rejecting")
     \/ task.cancelled /\ Goes("ended")
  /\ TaskOnly

\* connect_payload and the post of the approval.  A proof needs the secret.
ApproveConnect ==
  /\ task.stage = "approving"
  /\ GoesWith("listening", "Connected", NoPrompt)
  /\ TaskOnly

RejectConnect ==
  /\ task.stage = "rejecting"
  /\ Goes("ended")
  /\ TaskOnly

\* listen: a request of the dApp arrives, to disconnect, to send or sign, or
\* one that is answered with an error at once.
listen ==
  /\ task.stage = "listening"
  /\ requests < MaxRequests
  /\ requests' = requests + 1
  /\ \E stage \in {"previewing", "answering"}, closes \in BOOLEAN :
       /\ closes => stage = "answering"
       /\ task' = [task EXCEPT !.stage = stage, !.request = requests + 1, !.closes = closes]
  /\ UNCHANGED <<app, store, engine, history, faults, restarts>>

StopListening ==
  /\ task.stage = "listening"
  /\ task.cancelled
  /\ Goes("ended")
  /\ TaskOnly

\* handle_transaction up to the prompt.  The preview fails or the prompt shows
\* what the task's client offers to replace.
PreviewTransaction ==
  /\ task.stage = "previewing"
  /\ \/ GoesWith("answering", "TransactionFinished", NoPrompt)
     \/ /\ task.wallet \subseteq client
        /\ \E w \in task.wallet :
             GoesWith("confirming", "TransactionPrompt",
                      [wallet |-> task.wallet, offers |-> offered[w], force |-> FALSE,
                       request |-> task.request])
  /\ TaskOnly

\* The select on the transaction decision and the cancellation.
DecideTransaction ==
  /\ task.stage = "confirming"
  /\ \/ \E decision \in task.decision :
          task' = [task EXCEPT !.stage = IF decision.approved THEN "sending" ELSE "answering",
                               !.decision = {}, !.force = decision.force]
     \/ task.cancelled /\ Goes("answering")
  /\ TaskOnly

\* handle_send and handle_sign: the engine signs and records the message, or
\* refuses; a client that was shut down refuses.
CommitTransaction ==
  /\ task.stage = "sending"
  /\ \/ /\ GoesWith("answering", "TransactionFinished", NoPrompt)
        /\ UNCHANGED <<engine, unasked, signed>>
     \/ \E w \in client :
          /\ task.wallet = {w}
          /\ Sends(w, task.force, TRUE)
          /\ signed' = signed \cup {<<task.request, task.force # 0>>}
          /\ Goes("committed")
  /\ UNCHANGED <<app, store, removed, dismissed, approved, bounds>>

FinishTransaction ==
  /\ task.stage = "committed"
  /\ GoesWith("answering", "TransactionFinished", NoPrompt)
  /\ TaskOnly

\* The post of the response, and the end of a session the dApp closed.
AnswerRequest ==
  /\ task.stage = "answering"
  /\ \/ task.closes /\ GoesWith("ended", "Disconnected", NoPrompt)
     \/ ~task.closes /\ Goes("listening")
  /\ TaskOnly

TaskStep ==
  \/ LoadManifest \/ DecideConnect \/ ApproveConnect \/ RejectConnect
  \/ StopListening \/ PreviewTransaction \/ DecideTransaction \/ CommitTransaction
  \/ FinishTransaction \/ AnswerRequest

-----------------------------------------------------------------------------
(* The process.                                                            *)

\* A new process, after a quit, a crash or a power loss: DiskStore and App::new.
Restart ==
  /\ restarts < MaxRestarts
  /\ restarts' = restarts + 1
  /\ \E power \in BOOLEAN : open_default(power)
  /\ Opened(memory')
  /\ created' = {} /\ prompt' = NoPrompt /\ force' = 0
  /\ waiting' = "none" /\ polled' = FALSE
  /\ task' = NoTask
  /\ snapshot' = 0
  /\ offered' = [w \in Wallets |-> 0]
  /\ UNCHANGED <<pending, messages, history, requests, faults>>

Next ==
  \/ create_wallet \/ confirm_created_wallet \/ discard_created_wallet
  \/ import_wallet \/ delete_wallet \/ MoveKey
  \/ refresh \/ EditSend \/ ToggleForce \/ send
  \/ start_ton_connect \/ handle_ton_connect_confirmation
  \/ handle_ton_connect_transaction \/ stop_ton_connect \/ quit \/ Joined
  \/ poll_ton_connect \/ listen \/ TaskFails \/ TaskStep \/ Restart

Spec == Init /\ [][Next]_vars

-----------------------------------------------------------------------------
(* Properties.                                                             *)

\* The wallet that the next process opens has its recovery phrase, unless the
\* user asked to delete or to discard it: whatever writes failed and wherever
\* the process died.
OpenedHasSecret ==
  \A state \in {memory, file, flushed} : state.wallet \subseteq state.secrets \cup removed

\* The task signs only what the user approved on the prompt of that request,
\* and replaces an unresolved message only with the acknowledgement.
SignedWasApproved == signed \subseteq approved

\* A wallet whose discarding was reported as done is not what the next process
\* opens.
DiscardIsFinal == \A w \in dismissed : file.wallet # {w}

\* A TON Connect prompt is about the wallet that is selected.
PromptIsForSelected ==
  screen \in {"TonConnectConfirm", "TonConnectTransaction"} => prompt.wallet = descriptor

\* A forced send replaces the message whose risk the user acknowledged.
ForceWasAcknowledged == unasked = {}

\* Across failed writes and restarts the terminal wallet opens only what it has
\* the phrase of, and its task signs only what was approved.
TuiIsSafe == OpenedHasSecret /\ SignedWasApproved
=============================================================================
