---------------------------- MODULE WalletClient ----------------------------
(***************************************************************************)
(* The state behind the mutex of one WalletClient (src/engine/state.rs,    *)
(* client.rs) and the operations that share it: refresh, activity and NFT  *)
(* pages, previews, prepare_transfer, observers and shutdown.              *)
(*                                                                         *)
(* Every operation family has a slot, `active`, that holds the generation  *)
(* of its current operation or 0.  An operation leaves the mutex for every *)
(* host call and comes back to a slot that another call may have taken.    *)
(* One action is one stretch of code under the mutex.  The send itself is  *)
(* module WalletSend; here it is reduced to the slot, the commit flag and  *)
(* the revisions that it publishes.                                        *)
(***************************************************************************)
EXTENDS ActivityPages, NftPages

CONSTANTS Calls,          \* the calls of the host, each made once
          Op,             \* the operation that a call invokes
          MaxTx,          \* bound on the transactions of the chain
          Nfts,           \* the NFTs that the wallet can own
          MaxNftChanges,  \* bound on the changes of the owned NFTs
          MaxFaults       \* bound on failed requests and cancellations

Family == {"Refresh", "Pagination", "NftRefresh", "NftPagination", "Preview",
           "Send", "Resolution"}

Resource == {"account", "activity", "activity_pages", "nfts", "nft_pages"}

ResourcePhase == {"Idle", "Loading", "Ready", "Failed"}

Operation == {"refresh", "load_more_activity", "refresh_nfts",
              "load_more_nfts", "preview", "prepare_transfer",
              "wait_for_change", "send", "shutdown"}

VARIABLES
  pc,          \* where each call stands
  gen,         \* the generation a call was given
  arg,         \* the cursor, offset or revision a call works with
  ans,         \* the provider's answer a call has not applied yet
  outcome,     \* what a call returned
  active,      \* active_refresh, active_pagination, ...: generation or 0
  generation,  \* refresh_generation, pagination_generation, ...
  commit,      \* send_commit_started
  closing, shutdown,
  revision,    \* snapshot.revision
  waiters,     \* snapshot listeners as (call, after_revision)
  resource,    \* the resource states of the snapshot
  feed,        \* activity, activity_cursor and activity_has_more
  nfts,        \* nfts.items, nft_offset and nfts_has_more
  send,        \* the send shown by the snapshot
  chain,       \* environment: the number of transactions of the wallet
  owned,       \* environment: the owned NFTs, last used first
  skipped,     \* history: what refreshed pages left out between the list and them
  top,         \* history: the newest transaction of the first loaded page
  changes,     \* environment: the changes of the owned NFTs so far
  faults,      \* environment: the failures and cancellations so far
  moved,       \* history: the change that last touched an NFT
  gone,        \* history: the last change that took an NFT away
  read,        \* history: the changes when the answer of a call was read
  base         \* history: the first change after the first NFT page was read

call == <<pc, gen, arg, ans, outcome>>
slots == <<active, generation, commit, closing, shutdown>>
snapshot == <<resource, feed, nfts, send>>
observed == <<revision, waiters>>
environment == <<chain, owned, changes, faults>>
history == <<skipped, top, moved, gone, read, base>>
vars == <<call, slots, snapshot, observed, environment, history>>

\* An answer: whether the page request was answered, failed or was cancelled,
\* whether the account request was answered, and the page.
Answer(status, account, page) ==
  [status |-> status, account |-> account, page |-> page]

NoAnswer(c) ==
  Answer("none", FALSE, IF Op[c] \in {"refresh_nfts", "load_more_nfts"}
                        THEN parse_nft_page(<<>>) ELSE EmptyFeed)

Init ==
  /\ pc = [c \in Calls |-> "idle"]
  /\ gen = [c \in Calls |-> 0]
  /\ arg = [c \in Calls |-> 0]
  /\ ans = [c \in Calls |-> NoAnswer(c)]
  /\ outcome = [c \in Calls |-> "none"]
  /\ active = [f \in Family |-> 0]
  /\ generation = [f \in Family |-> 0]
  /\ commit = FALSE /\ closing = FALSE /\ shutdown = FALSE
  /\ revision = 0 /\ waiters = {}
  /\ resource = [r \in Resource |-> "Idle"]
  /\ feed = EmptyFeed /\ nfts = EmptyNfts /\ send = "Idle"
  /\ chain \in 0..MaxTx
  /\ owned \in UNION {Injection(1..n, Nfts) : n \in 0..Cardinality(Nfts)}
  /\ changes = 0 /\ faults = 0
  /\ skipped = {} /\ top = 0 /\ moved = [n \in Nfts |-> 0] /\ gone = 0
  /\ read = [c \in Calls |-> 0] /\ base = 0

-----------------------------------------------------------------------------
(* Helpers of state.rs.                                                    *)

\* Mutant: a slot that is taken is taken to be one's own.
is_taken(f, g) == active[f] # 0

is_current(f, g) == active[f] = g

running == ~closing /\ ~shutdown

\* Mutant: a waiter for this very revision stays asleep.
next_revision_late ==
  /\ revision' = revision + 1
  /\ waiters' = {w \in waiters : w.after + 1 >= revision'}

\* A published change: a new revision, and every older waiter is released.
next_revision ==
  /\ revision' = revision + 1
  /\ waiters' = {w \in waiters : w.after >= revision'}

\* The start of an operation: a fresh generation that owns the family's slot.
take(c, f) ==
  /\ generation' = [generation EXCEPT ![f] = @ + 1]
  /\ gen' = [gen EXCEPT ![c] = generation'[f]]

to(c, where) == pc' = [pc EXCEPT ![c] = where]

\* A call ends: its locals are gone.
return(c, result) ==
  /\ to(c, "done")
  /\ outcome' = [outcome EXCEPT ![c] = result]
  /\ gen' = [gen EXCEPT ![c] = 0]
  /\ arg' = [arg EXCEPT ![c] = 0]
  /\ ans' = [ans EXCEPT ![c] = NoAnswer(c)]

\* A call ends and leaves the state alone.
refuse(c, result) ==
  return(c, result) /\ UNCHANGED <<slots, snapshot, observed, environment, history>>

locals == <<gen, arg, ans>>

\* A failure or a cancellation, within the bound.
fault(happens) ==
  IF happens THEN faults < MaxFaults /\ faults' = faults + 1 ELSE UNCHANGED faults

\* ensure_running: after closing or shutdown every new operation is refused.
EnsureRunning(c) ==
  /\ pc[c] = IF Op[c] \in {"refresh", "wait_for_change"} THEN "start" ELSE "idle"
  /\ Op[c] # "shutdown" /\ ~running
  /\ refuse(c, "Shutdown")

\* The resources that mark_loading_cancelled resets.
mark_loading_cancelled(rs) ==
  [r \in Resource |-> IF r \in rs /\ resource[r] = "Loading"
                      THEN "Idle" ELSE resource[r]]

-----------------------------------------------------------------------------
(* The startup sweep of refresh and wait_for_change: resolve_pending with  *)
(* its result ignored.                                                     *)

Sweeping == {"refresh", "wait_for_change"}

\* The sweep takes the resolution slot, unless it is refused.
SweepBegin(c) ==
  /\ pc[c] = "idle" /\ Op[c] \in Sweeping
  /\ IF running /\ active["Send"] = 0 /\ active["Resolution"] = 0
     THEN /\ take(c, "Resolution")
          /\ active' = [active EXCEPT !["Resolution"] = generation'["Resolution"]]
          /\ to(c, "sweeping")
     ELSE UNCHANGED <<gen, generation, active>> /\ to(c, "start")
  /\ UNCHANGED <<arg, ans, outcome, commit, closing, shutdown, snapshot,
                 observed, environment, history>>

\* Mutant: a sweep that found nothing to do returns early.
SweepEndEarly(c) ==
  /\ pc[c] = "sweeping"
  /\ to(c, "start")
  /\ UNCHANGED <<gen, arg, ans, outcome, slots, snapshot, observed,
                 environment, history>>

\* complete_standalone_resolution, or the release after a failure.
SweepEnd(c) ==
  /\ pc[c] = "sweeping"
  /\ to(c, "start")
  /\ \/ /\ is_current("Resolution", gen[c])
        /\ active' = [active EXCEPT !["Resolution"] = 0]
        /\ \/ \E s \in {"Pending", "Settled"} \ {send} :
                send' = s /\ next_revision
           \/ UNCHANGED <<send, observed>>
     \/ /\ ~is_current("Resolution", gen[c])
        /\ UNCHANGED <<active, send, observed>>
  /\ UNCHANGED <<gen, arg, ans, outcome, generation, commit, closing, shutdown,
                 resource, feed, nfts, environment, history>>

-----------------------------------------------------------------------------
(* refresh                                                                 *)

\* A refresh supersedes the refresh and the page load before it.
RefreshBegin(c) ==
  /\ pc[c] = "start" /\ Op[c] = "refresh" /\ running
  /\ take(c, "Refresh")
  /\ active' = [active EXCEPT !["Refresh"] = generation'["Refresh"],
                              !["Pagination"] = 0]
  /\ resource' = [resource EXCEPT !["account"] = "Loading",
                    !["activity"] = "Loading", !["activity_pages"] = "Idle"]
  /\ next_revision /\ to(c, "waiting")
  /\ UNCHANGED <<arg, ans, outcome, commit, closing, shutdown, feed, nfts,
                 send, environment, history>>

\* Both answers are there; either can be an error.
RefreshAnswer(c) ==
  /\ pc[c] = "waiting" /\ Op[c] = "refresh"
  /\ \E ok \in BOOLEAN, status \in {"ok", "error"} :
       /\ ans' = [ans EXCEPT ![c] =
            Answer(status, ok, parse_activity(getTransactions(1..chain, NoCursor)))]
       /\ fault(~ok \/ status = "error")
  /\ to(c, "publish_account")
  /\ UNCHANGED <<gen, arg, outcome, slots, snapshot, observed, chain, owned,
                 changes, history>>

PublishAccount(c) ==
  /\ pc[c] = "publish_account"
  /\ to(c, "publish_activity")
  /\ IF is_current("Refresh", gen[c])
     THEN /\ resource' = [resource EXCEPT !["account"] =
                            IF ans[c].account THEN "Ready" ELSE "Failed"]
          /\ next_revision
     ELSE UNCHANGED <<resource, observed>>
  /\ UNCHANGED <<gen, arg, ans, outcome, slots, feed, nfts, send, environment,
                 history>>

PublishActivity(c) ==
  /\ pc[c] = "publish_activity"
  /\ to(c, "finish")
  /\ LET ok == ans[c].status = "ok" IN
     IF is_current("Refresh", gen[c])
     THEN /\ resource' = [resource EXCEPT !["activity"] =
                            IF ok THEN "Ready" ELSE "Failed"]
          /\ feed' = IF ok THEN apply_refreshed_activity_page(feed, ans[c].page)
                     ELSE feed
          /\ skipped' = IF ok THEN Skips(feed, ans[c].page, skipped) ELSE skipped
          /\ top' = IF feed.items = {} /\ feed'.items # {}
                    THEN Max(feed'.items) ELSE top
          /\ next_revision
     ELSE UNCHANGED <<resource, feed, skipped, top, observed>>
  /\ UNCHANGED <<gen, arg, ans, outcome, slots, nfts, send, environment,
                 moved, gone, read, base>>

\* The outcome counts the resources that the snapshot shows as failed.
RefreshFinish(c) ==
  /\ pc[c] = "finish"
  /\ IF is_current("Refresh", gen[c])
     THEN /\ active' = [active EXCEPT !["Refresh"] = 0]
          /\ LET failed == Cardinality({r \in {"account", "activity"} :
                                          resource[r] = "Failed"})
             IN return(c, <<"Completed", "PartiallyCompleted", "Failed">>[failed + 1])
     ELSE UNCHANGED active /\ return(c, "Superseded")
  /\ UNCHANGED <<generation, commit, closing, shutdown, snapshot,
                 observed, environment, history>>

cancel_refresh ==
  /\ active["Refresh"] # 0
  /\ active' = [active EXCEPT !["Refresh"] = 0]
  /\ resource' = mark_loading_cancelled({"account", "activity"})
  /\ next_revision
  /\ fault(TRUE)
  /\ UNCHANGED <<call, generation, commit, closing, shutdown, feed, nfts, send,
                 chain, owned, changes, history>>

-----------------------------------------------------------------------------
(* load_more_activity                                                      *)

PageBegin(c) ==
  /\ pc[c] = "idle" /\ Op[c] = "load_more_activity" /\ running
  /\ IF active["Refresh"] # 0 \/ active["Pagination"] # 0 \/ ~feed.has_more
        \/ feed.cursor = NoCursor
     THEN refuse(c, "Skipped")
     ELSE /\ take(c, "Pagination")
          /\ active' = [active EXCEPT !["Pagination"] = generation'["Pagination"]]
          /\ arg' = [arg EXCEPT ![c] = feed.cursor]
          /\ resource' = [resource EXCEPT !["activity_pages"] = "Loading"]
          /\ next_revision /\ to(c, "waiting")
          /\ UNCHANGED <<ans, outcome, commit, closing, shutdown, feed, nfts,
                         send, environment, history>>

PageAnswer(c) ==
  /\ pc[c] = "waiting" /\ Op[c] = "load_more_activity"
  /\ \E status \in {"ok", "error", "cancelled"} :
       /\ ans' = [ans EXCEPT ![c] =
            Answer(status, FALSE, parse_activity(getTransactions(1..chain, arg[c])))]
       /\ fault(status # "ok")
  /\ to(c, "publish")
  /\ UNCHANGED <<gen, arg, outcome, slots, snapshot, observed, chain, owned,
                 changes, history>>

\* How an answer ends a page load: the resource state and the outcome.
PageResult(answer) ==
  CASE answer.status = "ok" -> <<"Ready", "Completed">>
    [] answer.status = "error" -> <<"Failed", "Failed">>
    [] OTHER -> <<"Idle", "Cancelled">>

\* A late page is dropped; a current one is merged below the list.
PagePublish(c) ==
  /\ pc[c] = "publish" /\ Op[c] = "load_more_activity"
  /\ IF ~is_current("Pagination", gen[c]) THEN refuse(c, "Superseded")
     ELSE /\ active' = [active EXCEPT !["Pagination"] = 0]
          /\ resource' = [resource EXCEPT !["activity_pages"] =
                            PageResult(ans[c])[1]]
          /\ feed' = IF ans[c].status = "ok"
                     THEN apply_activity_page(feed, ans[c].page) ELSE feed
          /\ top' = IF feed.items = {} /\ feed'.items # {}
                    THEN Max(feed'.items) ELSE top
          /\ next_revision /\ return(c, PageResult(ans[c])[2])
          /\ UNCHANGED <<generation, commit, closing, shutdown,
                         nfts, send, environment, skipped, moved, gone, read,
                         base>>

cancel_load_more_activity ==
  /\ active["Pagination"] # 0
  /\ active' = [active EXCEPT !["Pagination"] = 0]
  /\ resource' = [resource EXCEPT !["activity_pages"] = "Idle"]
  /\ next_revision
  /\ fault(TRUE)
  /\ UNCHANGED <<call, generation, commit, closing, shutdown, feed, nfts, send,
                 chain, owned, changes, history>>

-----------------------------------------------------------------------------
(* refresh_nfts and load_more_nfts                                         *)

\* A refresh supersedes the refresh and the page load before it.
NftRefreshBegin(c) ==
  /\ pc[c] = "idle" /\ Op[c] = "refresh_nfts" /\ running
  /\ take(c, "NftRefresh")
  /\ active' = [active EXCEPT !["NftRefresh"] = generation'["NftRefresh"],
                              !["NftPagination"] = 0]
  /\ resource' = [resource EXCEPT !["nfts"] = "Loading", !["nft_pages"] = "Idle"]
  /\ next_revision /\ to(c, "waiting")
  /\ UNCHANGED <<arg, ans, outcome, commit, closing, shutdown, feed, nfts, send,
                 environment, history>>

NftPageBegin(c) ==
  /\ pc[c] = "idle" /\ Op[c] = "load_more_nfts" /\ running
  /\ IF active["NftRefresh"] # 0 \/ active["NftPagination"] # 0 \/ ~nfts.has_more
     THEN refuse(c, "Skipped")
     ELSE /\ take(c, "NftPagination")
          /\ active' = [active EXCEPT !["NftPagination"] =
                                        generation'["NftPagination"]]
          /\ arg' = [arg EXCEPT ![c] = nfts.offset]
          /\ resource' = [resource EXCEPT !["nft_pages"] = "Loading"]
          /\ next_revision /\ to(c, "waiting")
          /\ UNCHANGED <<ans, outcome, commit, closing, shutdown, feed, nfts,
                         send, environment, history>>

\* The rows are read at the offset of the request.
NftAnswer(c) ==
  /\ pc[c] = "waiting" /\ Op[c] \in {"refresh_nfts", "load_more_nfts"}
  /\ \E status \in {"ok", "error", "cancelled"} :
       /\ ans' = [ans EXCEPT ![c] =
            Answer(status, FALSE, parse_nft_page(nft_items(owned, arg[c])))]
       /\ fault(status # "ok")
  /\ to(c, "publish")
  /\ read' = [read EXCEPT ![c] = changes]
  /\ UNCHANGED <<gen, arg, outcome, slots, snapshot, observed, chain, owned,
                 changes, skipped, top, moved, gone, base>>

NftPublish(c, op, family, res) ==
  /\ pc[c] = "publish" /\ Op[c] = op
  /\ IF ~is_current(family, gen[c]) THEN refuse(c, "Superseded")
     ELSE /\ active' = [active EXCEPT ![family] = 0]
          /\ resource' = [resource EXCEPT ![res] = PageResult(ans[c])[1]]
          /\ nfts' = IF ans[c].status # "ok" THEN nfts
                     ELSE IF op = "refresh_nfts"
                          THEN apply_refreshed_nft_page(ans[c].page)
                          ELSE apply_nft_page(nfts, ans[c].page)
          /\ base' = IF op = "refresh_nfts" /\ ans[c].status = "ok"
                     THEN read[c] + 1 ELSE base
          /\ next_revision /\ return(c, PageResult(ans[c])[2])
          /\ UNCHANGED <<generation, commit, closing, shutdown,
                         feed, send, environment, skipped, top, moved, gone,
                         read>>

NftRefreshPublish(c) == NftPublish(c, "refresh_nfts", "NftRefresh", "nfts")
NftPagePublish(c) == NftPublish(c, "load_more_nfts", "NftPagination", "nft_pages")

cancel_nfts(family, res) ==
  /\ active[family] # 0
  /\ active' = [active EXCEPT ![family] = 0]
  /\ resource' = [resource EXCEPT ![res] = "Idle"]
  /\ next_revision
  /\ fault(TRUE)
  /\ UNCHANGED <<call, generation, commit, closing, shutdown, feed, nfts, send,
                 chain, owned, changes, history>>

cancel_refresh_nfts == cancel_nfts("NftRefresh", "nfts")
cancel_load_more_nfts == cancel_nfts("NftPagination", "nft_pages")

-----------------------------------------------------------------------------
(* Previews.  An answer is checked against the slot before it is looked    *)
(* at; a preview that lost its slot ends without touching the state.       *)

PreviewBegin(c) ==
  /\ pc[c] = "idle" /\ Op[c] = "preview" /\ running
  /\ IF active["Send"] # 0 \/ active["Preview"] # 0 THEN refuse(c, "Busy")
     ELSE /\ take(c, "Preview")
          /\ active' = [active EXCEPT !["Preview"] = generation'["Preview"]]
          /\ to(c, "account")
          /\ UNCHANGED <<arg, ans, outcome, commit, closing, shutdown, snapshot,
                         observed, environment, history>>

\* The next host call of a preview: a deployed wallet needs its seqno.
PreviewNext(where) ==
  IF where = "account" THEN {"seqno", "emulation"}
  ELSE IF where = "seqno" THEN {"emulation"} ELSE {}

\* finish_preview_request, and preview_error or finish_preview at the end.
PreviewAnswer(c) ==
  /\ Op[c] = "preview" /\ pc[c] \in {"account", "seqno", "emulation"}
  /\ IF ~running THEN refuse(c, "Shutdown")
     ELSE IF ~is_current("Preview", gen[c]) THEN refuse(c, "StateUnavailable")
     ELSE /\ \/ \E where \in PreviewNext(pc[c]) :
                  to(c, where) /\ UNCHANGED <<active, outcome, locals, faults>>
             \/ /\ active' = [active EXCEPT !["Preview"] = 0]
                /\ \/ return(c, "Failed") /\ fault(TRUE)
                   \/ /\ PreviewNext(pc[c]) = {}
                      /\ return(c, "Completed") /\ fault(FALSE)
          /\ UNCHANGED <<generation, commit, closing, shutdown, snapshot,
                         observed, chain, owned, changes, history>>

cancel_send_preview ==
  /\ running /\ active["Preview"] # 0
  /\ active' = [active EXCEPT !["Preview"] = 0]
  /\ fault(TRUE)
  /\ UNCHANGED <<call, generation, commit, closing, shutdown, snapshot,
                 observed, chain, owned, changes, history>>

-----------------------------------------------------------------------------
(* prepare_transfer: it signs under the slot of the resolver.              *)

PrepareBegin(c) ==
  /\ pc[c] = "idle" /\ Op[c] = "prepare_transfer" /\ running
  /\ IF active["Send"] # 0 \/ active["Resolution"] # 0 THEN refuse(c, "Busy")
     ELSE /\ take(c, "Resolution")
          /\ active' = [active EXCEPT !["Resolution"] = generation'["Resolution"]]
          /\ to(c, "account")
          /\ UNCHANGED <<arg, ans, outcome, commit, closing, shutdown, snapshot,
                         observed, environment, history>>

PrepareNext(where) ==
  IF where = "account" THEN {"seqno", "secret"}
  ELSE IF where = "seqno" THEN {"secret"} ELSE {}

\* The account, the seqno, the secret; closing alone does not stop it.
PrepareAnswer(c) ==
  /\ Op[c] = "prepare_transfer" /\ pc[c] \in {"account", "seqno", "secret"}
  /\ IF ~is_current("Resolution", gen[c]) THEN refuse(c, "StateUnavailable")
     ELSE /\ \/ \E where \in PrepareNext(pc[c]) :
                  to(c, where) /\ UNCHANGED <<active, outcome, locals, faults>>
             \/ /\ active' = [active EXCEPT !["Resolution"] = 0]
                /\ \/ return(c, "Failed") /\ fault(TRUE)
                   \/ /\ PrepareNext(pc[c]) = {}
                      /\ return(c, "Completed") /\ fault(FALSE)
          /\ UNCHANGED <<generation, commit, closing, shutdown, snapshot,
                         observed, chain, owned, changes, history>>

-----------------------------------------------------------------------------
(* wait_for_change                                                         *)

\* The host passes a revision that it has seen.
WaitBegin(c) ==
  /\ pc[c] = "start" /\ Op[c] = "wait_for_change" /\ running
  /\ \E after \in 0..revision :
       IF revision > after
       THEN return(c, "Changed") /\ UNCHANGED waiters
       ELSE /\ waiters' = waiters \cup {[call |-> c, after |-> after]}
            /\ arg' = [arg EXCEPT ![c] = after]
            /\ to(c, "asleep") /\ UNCHANGED <<gen, ans, outcome>>
  /\ UNCHANGED <<slots, snapshot, revision, environment, history>>

asleep(c) == \E w \in waiters : w.call = c

\* A released waiter looks at the state again.
WaitWake(c) ==
  /\ pc[c] = "asleep" /\ Op[c] = "wait_for_change" /\ ~asleep(c)
  /\ refuse(c, IF shutdown THEN "Shutdown" ELSE "Changed")

-----------------------------------------------------------------------------
(* The send of module WalletSend, as far as the other operations see it.   *)

SendBegin(c) ==
  /\ pc[c] = "idle" /\ Op[c] = "send" /\ running
  /\ IF active["Send"] # 0 \/ active["Resolution"] # 0
     THEN refuse(c, "SendAlreadyInProgress")
     ELSE /\ take(c, "Send")
          /\ active' = [active EXCEPT !["Send"] = generation'["Send"]]
          /\ send' = "Active" /\ next_revision /\ to(c, "signing")
          /\ UNCHANGED <<arg, ans, outcome, commit, closing, shutdown, resource,
                         feed, nfts, environment, history>>

\* begin_send_commit
SendCommit(c) ==
  /\ pc[c] = "signing"
  /\ IF shutdown \/ ~is_current("Send", gen[c]) THEN refuse(c, "StateUnavailable")
     ELSE /\ commit' = TRUE /\ to(c, "committed")
          /\ UNCHANGED <<gen, arg, ans, outcome, active, generation, closing,
                         shutdown, snapshot, observed, environment, history>>

\* fail_send, mark_send_unknown and the terminal publication: each releases
\* the slot and the commit flag together and publishes a revision.
SendEnd(c) ==
  /\ pc[c] \in {"signing", "committed"} /\ is_current("Send", gen[c])
  /\ send' \in {"Pending", "Failed"}
  /\ active' = [active EXCEPT !["Send"] = 0] /\ commit' = FALSE
  /\ next_revision /\ return(c, send')
  /\ UNCHANGED <<generation, closing, shutdown, resource, feed,
                 nfts, environment, history>>

cancel_send ==
  /\ active["Send"] # 0 /\ ~commit
  /\ active' = [active EXCEPT !["Send"] = 0]
  /\ send' = "Cancelled" /\ next_revision
  /\ fault(TRUE)
  /\ UNCHANGED <<call, generation, commit, closing, shutdown, resource, feed,
                 nfts, chain, owned, changes, history>>

-----------------------------------------------------------------------------
(* shutdown                                                                *)

\* What prepare_shutdown leaves of the resource states.
shut_resources ==
  [r \in Resource |->
     IF \/ r \in {"account", "activity"} /\ active["Refresh"] # 0
           /\ resource[r] = "Loading"
        \/ r = "activity_pages" /\ active["Pagination"] # 0
        \/ r = "nfts" /\ active["NftRefresh"] # 0 /\ resource[r] = "Loading"
        \/ r = "nft_pages" /\ active["NftPagination"] # 0
     THEN "Idle" ELSE resource[r]]

\* Every slot is emptied, one revision tells of it, every waiter is released.
prepare_shutdown ==
  /\ shutdown' = TRUE /\ commit' = FALSE
  /\ active' = [f \in Family |-> 0]
  /\ resource' = shut_resources
  /\ send' = IF active["Send"] # 0 THEN "Cancelled" ELSE send
  /\ revision' = IF \E f \in Family : active[f] # 0 THEN revision + 1 ELSE revision
  /\ waiters' = {}

\* One round of the loop: a committed send is waited for.
Shutdown(c) ==
  /\ Op[c] = "shutdown"
  /\ pc[c] = "idle" \/ (pc[c] = "asleep" /\ ~asleep(c))
  /\ IF shutdown THEN refuse(c, "Ok")
     ELSE /\ closing' = TRUE
          /\ IF active["Send"] # 0 /\ commit
             THEN /\ waiters' = waiters \cup {[call |-> c, after |-> revision]}
                  /\ to(c, "asleep")
                  /\ UNCHANGED <<active, commit, shutdown, resource, send,
                                 revision, outcome, locals>>
             ELSE prepare_shutdown /\ return(c, "Ok")
          /\ UNCHANGED <<generation, feed, nfts, environment,
                         history>>

-----------------------------------------------------------------------------
(* The environment: the wallet's transactions and NFTs change.             *)

Transact ==
  /\ chain < MaxTx /\ chain' = chain + 1
  /\ UNCHANGED <<call, slots, snapshot, observed, owned, changes, faults, history>>

\* The list without one of its NFTs, each of which it has once.
Without(list, n) ==
  IF n \notin Range(list) THEN list
  ELSE LET i == CHOOSE i \in DOMAIN list : list[i] = n
       IN SubSeq(list, 1, i - 1) \o SubSeq(list, i + 1, Len(list))

\* A transaction of an NFT moves it to the head of the provider's list.
NftUse(n) ==
  /\ changes < MaxNftChanges
  /\ changes' = changes + 1
  /\ owned' = <<n>> \o Without(owned, n)
  /\ moved' = [moved EXCEPT ![n] = changes']
  /\ UNCHANGED <<call, slots, snapshot, observed, chain, faults, skipped, top, gone,
                 read, base>>

NftLeave(n) ==
  /\ changes < MaxNftChanges /\ n \in Range(owned)
  /\ changes' = changes + 1
  /\ owned' = Without(owned, n)
  /\ gone' = changes'
  /\ UNCHANGED <<call, slots, snapshot, observed, chain, faults, skipped, top, moved,
                 read, base>>

-----------------------------------------------------------------------------

\* The host makes a call.
Begin(c) ==
  \/ SweepBegin(c) \/ PageBegin(c) \/ NftRefreshBegin(c) \/ NftPageBegin(c)
  \/ PreviewBegin(c) \/ PrepareBegin(c) \/ SendBegin(c)
  \/ pc[c] = "idle" /\ Shutdown(c)
  \/ pc[c] = "idle" /\ EnsureRunning(c)

\* A call that has been made goes on.
Continue(c) ==
  \/ SweepEnd(c) \/ RefreshBegin(c) \/ RefreshAnswer(c) \/ PublishAccount(c)
  \/ PublishActivity(c) \/ RefreshFinish(c)
  \/ PageAnswer(c) \/ PagePublish(c)
  \/ NftAnswer(c) \/ NftRefreshPublish(c) \/ NftPagePublish(c)
  \/ PreviewAnswer(c) \/ PrepareAnswer(c)
  \/ WaitBegin(c) \/ WaitWake(c)
  \/ SendCommit(c) \/ SendEnd(c)
  \/ pc[c] # "idle" /\ Shutdown(c)
  \/ pc[c] # "idle" /\ EnsureRunning(c)

Cancel ==
  \/ cancel_refresh \/ cancel_load_more_activity \/ cancel_refresh_nfts
  \/ cancel_load_more_nfts \/ cancel_send_preview \/ cancel_send

Environment == Transact \/ \E n \in Nfts : NftUse(n) \/ NftLeave(n)

Next == (\E c \in Calls : Begin(c) \/ Continue(c)) \/ Cancel \/ Environment

Spec == Init /\ [][Next]_vars

\* The host polls every call it has made, and every request is answered or
\* times out.
FairSpec == Spec /\ \A c \in Calls : WF_vars(Continue(c))

-----------------------------------------------------------------------------
(* Properties                                                              *)

\* Every variable has its type.
TypeOK ==
  /\ pc \in [Calls -> {"idle", "sweeping", "start", "waiting", "publish_account",
                        "publish_activity", "finish", "publish", "account",
                        "seqno", "emulation", "secret", "asleep", "signing",
                        "committed", "done"}]
  /\ gen \in [Calls -> Nat] /\ arg \in [Calls -> Nat]
  /\ active \in [Family -> Nat] /\ generation \in [Family -> Nat]
  /\ {commit, closing, shutdown} \subseteq BOOLEAN /\ skipped \subseteq 1..MaxTx
  /\ revision \in Nat
  /\ waiters \subseteq [call : Calls, after : Nat]
  /\ resource \in [Resource -> ResourcePhase]
  /\ feed \in [items : SUBSET (1..MaxTx), cursor : 0..MaxTx, has_more : BOOLEAN]
  /\ Range(nfts.items) \subseteq Nfts /\ nfts.offset \in Nat
  /\ send \in {"Idle", "Active", "Pending", "Settled", "Failed", "Cancelled"}
  /\ chain \in 0..MaxTx /\ Range(owned) \subseteq Nfts

\* A resource is shown as loading only while the operation that loads it owns
\* its slot: no cancellation, supersession or shutdown leaves a loading state
\* behind that nobody will ever replace.
LoadingHasOwner ==
  /\ "Loading" \in {resource["account"], resource["activity"]} => active["Refresh"] # 0
  /\ (resource["activity_pages"] = "Loading") <=> (active["Pagination"] # 0)
  /\ (resource["nfts"] = "Loading") <=> (active["NftRefresh"] # 0)
  /\ (resource["nft_pages"] = "Loading") <=> (active["NftPagination"] # 0)

\* The family in whose slot a call runs.
FamilyOf(op) ==
  CASE op = "refresh" -> "Refresh"
    [] op = "load_more_activity" -> "Pagination"
    [] op = "refresh_nfts" -> "NftRefresh"
    [] op = "load_more_nfts" -> "NftPagination"
    [] op = "preview" -> "Preview"
    [] op = "prepare_transfer" -> "Resolution"
    [] op = "send" -> "Send"
    [] OTHER -> "none"

HeldFamily(c) == IF pc[c] = "sweeping" THEN "Resolution" ELSE FamilyOf(Op[c])

\* A slot is owned by a call that is still running: a call that has returned
\* never leaves its family blocked for the next one.  (A preview that meets a
\* closing client leaves its slot to the shutdown.)
SlotHasOwner ==
  \A f \in Family : active[f] # 0 /\ (closing => f # "Preview") =>
    \E c \in Calls : gen[c] = active[f] /\ HeldFamily(c) = f

\* The page that an operation will merge was requested at the cursor or the
\* offset that the list has when the answer is merged.
PageContinuesList ==
  \A c \in Calls : pc[c] \in {"waiting", "publish"} =>
    /\ Op[c] = "load_more_activity" /\ is_current("Pagination", gen[c])
         => arg[c] = feed.cursor
    /\ Op[c] = "load_more_nfts" /\ is_current("NftPagination", gen[c])
         => arg[c] = nfts.offset

\* A message is never prepared or resolved while another one is being sent:
\* the two slots that can hold a signature are never taken together.
SendExcludesResolution == active["Send"] = 0 \/ active["Resolution"] = 0

\* What a refresh returns is what its own two requests answered, whatever
\* other calls published in between.
OutcomeOfRefresh ==
  \A c \in Calls : pc[c] = "finish" /\ pc'[c] = "done" =>
    /\ outcome'[c] = "Completed" => ans[c].account /\ ans[c].status = "ok"
    /\ outcome'[c] = "Failed" => ~ans[c].account /\ ans[c].status = "error"
    /\ outcome'[c] = "PartiallyCompleted" =>
         (ans[c].account <=> ans[c].status = "error")

\* The list is exactly the visible transactions from its cursor to its newest
\* item, but for those between the list and a refreshed page that did not reach
\* down to it.
OnlyRefreshesSkip == feed.items # {} => WholeBut(feed, skipped)

\* When the list says that nothing older exists, everything older than the
\* first loaded page has been loaded.
ActivityEndIsReached ==
  feed.items # {} /\ ~feed.has_more => {t \in Visible : t <= top} \subseteq feed.items

\* No NFT is listed twice, even when the provider's list moves under the pages.
NftsAreDistinct == IsInjective(nfts.items)

\* When the list says that there are no more NFTs, every NFT that did not move
\* since the first page was read is listed, unless an NFT left in between.
NftsAreComplete ==
  ~nfts.has_more /\ gone < base =>
    \A n \in Range(owned) : moved[n] < base => n \in Range(nfts.items)

\* What a step keeps, for ChangesArePublished.
PublishesChange ==
  /\ snapshot' # snapshot => revision' = revision + 1
  /\ revision' >= revision
  /\ shutdown => UNCHANGED <<snapshot, revision>>

\* Every change of the snapshot has a revision of its own, revisions never go
\* back, after shutdown no late answer changes anything, and a refresh returns
\* what its own requests answered (next_revision and the publishing calls).
ChangesArePublished == [][PublishesChange /\ OutcomeOfRefresh]_vars

\* An observer whose revision has passed returns.
ObserverReturns ==
  \A c \in Calls : Op[c] = "wait_for_change" /\ pc[c] = "asleep"
                     /\ (revision > arg[c] \/ shutdown) ~> pc[c] = "done"

\* Once a shutdown has begun, every call that was made returns, the shutdown
\* itself and the sleeping observers included.
ShutdownReleases == closing ~> \A c \in Calls : pc[c] \in {"idle", "done"}

\* src/domain/error.rs:222: a send is refused as already in progress only
\* while this client prepares or submits another signed message.
RefusedOnlyWhileSigning ==
  [][\A c \in Calls : outcome[c] # "SendAlreadyInProgress"
                        /\ outcome'[c] = "SendAlreadyInProgress" =>
       \/ active["Send"] # 0
       \/ \E d \in Calls : Op[d] = "prepare_transfer"
                            /\ gen[d] = active["Resolution"]
                            /\ pc[d] \notin {"idle", "done"}]_vars

\* src/domain/wallet.rs:19 (has_more is "Whether the provider can have
\* another activity page") and src/engine/state.rs:46 ("A refresh replaces this
\* cursor"): a list that says there is no other page has every transaction that
\* is older than its newest.
EndIsComplete ==
  feed.items # {} /\ ~feed.has_more => VisibleIn(1, Max(feed.items)) \subseteq feed.items

\* What the activity feed of a client has, whatever refreshes, pages and
\* cancellations interleave (refresh and load_more_activity): all it should have
\* but what its refreshes jumped over, and nothing else; and when it says that
\* nothing older exists, all that is older than its first page.
ActivityIsExact == OnlyRefreshesSkip /\ ActivityEndIsReached

\* The NFT list that a client shows is whole although the provider's list moves
\* between the pages (refresh_nfts and load_more_nfts).
NftListIsWhole == PageContinuesList /\ NftsAreDistinct /\ NftsAreComplete

\* The slots of the operation families work as locks (is_current,
\* mark_loading_cancelled, prepare_shutdown): each has a running owner, the two
\* that can hold a signature exclude each other, and a resource is shown as
\* loading only while its operation owns the slot.
SlotsAreOwned == SlotHasOwner /\ SendExcludesResolution /\ LoadingHasOwner
=============================================================================
