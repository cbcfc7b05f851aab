-------------------------- MODULE WalletClientLists -------------------------
(***************************************************************************)
(* What one client shows, for any number of calls of any kind: loading     *)
(* states, what a refresh has published, and the activity feed.  Every     *)
(* step keeps the invariant, if the merges of the pages do their part.     *)
(***************************************************************************)
EXTENDS WalletClientSlots

-----------------------------------------------------------------------------
(* The invariant.                                                          *)

\* What an answered refresh has and what it has published of it.
RefreshInv(c) ==
  /\ pc[c] \in {"publish_account", "publish_activity", "finish"} =>
       ans[c].status \in {"ok", "error"} /\ ans[c].account \in BOOLEAN
  /\ pc[c] \in {"publish_activity", "finish"} /\ is_current("Refresh", gen[c]) =>
       resource["account"] = IF ans[c].account THEN "Ready" ELSE "Failed"
  /\ pc[c] = "finish" /\ is_current("Refresh", gen[c]) =>
       resource["activity"] = IF ans[c].status = "ok" THEN "Ready" ELSE "Failed"

\* A refreshed page was read from a chain that already had the loaded list.
HeadInv(c) ==
  pc[c] \in {"publish_account", "publish_activity"} =>
    \E n \in 0..chain :
      /\ ans[c].page = PageAt(n, NoCursor)
      /\ is_current("Refresh", gen[c]) /\ feed.items # {} =>
           /\ feed.cursor <= n
           /\ feed.cursor = 1 \/ feed.cursor + PageSize <= n + 1

\* An older page continues the loaded list.
TailInv(c) ==
  Op[c] = "load_more_activity" /\ pc[c] \in {"waiting", "publish"}
    /\ is_current("Pagination", gen[c]) =>
      /\ arg[c] = feed.cursor /\ feed.cursor # NoCursor
      /\ pc[c] = "publish" =>
           \E n \in 0..chain : arg[c] <= n /\ ans[c].page = PageAt(n, arg[c])

FeedInv ==
  /\ chain \in Nat /\ top \in Nat
  /\ FeedAt(feed, chain) /\ FullBelow(feed, top)
  /\ Above(feed, skipped) /\ (feed.items # {} => WholeBut(feed, skipped))

ListInv ==
  /\ Locals
  /\ LoadingHasOwner
  /\ \A c \in Calls : RefreshInv(c) /\ HeadInv(c) /\ TailInv(c)
  /\ FeedInv

-----------------------------------------------------------------------------
(* The steps that have nothing to do with the feed.                        *)

AnswerPc == {"waiting", "publish", "publish_account", "publish_activity", "finish"}

\* A call that has to do with the feed stands where it stood.
Stays(c) ==
  Op[c] \in {"refresh", "load_more_activity"} /\ pc'[c] \in AnswerPc =>
    pc'[c] = pc[c] /\ gen'[c] = gen[c] /\ arg'[c] = arg[c] /\ ans'[c] = ans[c]

\* The resource and the slot are left alone, or they change together.
Loads(r, f) ==
  \/ resource'[r] = resource[r] /\ active'[f] = active[f]
  \/ resource'[r] = "Loading" /\ active'[f] # 0
  \/ resource'[r] # "Loading" /\ active'[f] = 0

Aside ==
  /\ Locals' /\ \A c \in Calls : Stays(c)
  /\ feed' = feed /\ skipped' = skipped /\ top' = top /\ chain' = chain
  /\ \A r \in {"account", "activity", "activity_pages"} : resource'[r] = resource[r]
  /\ \A f \in {"Refresh", "Pagination"} : active'[f] = active[f]
  /\ Loads("nfts", "NftRefresh") /\ Loads("nft_pages", "NftPagination")

\* A call of another family, or one that rests, with the resources untouched.
LEMMA CallAside ==
  ASSUME NEW c \in Calls, OnlyCall(c),
         Op[c] \notin {"refresh", "load_more_activity"} \/ pc'[c] \notin AnswerPc,
         feed' = feed, skipped' = skipped, top' = top, chain' = chain,
         resource' = resource,
         \A f \in {"Refresh", "Pagination", "NftRefresh", "NftPagination"} :
           active'[f] = active[f]
  PROVE  Aside
<1>1. \A d \in Calls : Stays(d)
  BY Zenon DEF Stays, OnlyCall
<1>2. Loads("nfts", "NftRefresh") /\ Loads("nft_pages", "NftPagination")
  BY Zenon DEF Loads
<1> QED
  BY <1>1, <1>2, Zenon DEF Aside, OnlyCall

\* A refused or superseded call.
LEMMA RefuseAside ==
  ASSUME SlotTypes, Locals, NEW c \in Calls, NEW result, refuse(c, result)
  PROVE  Aside
<1>1. OnlyCall(c) /\ pc'[c] = "done"
  BY ReturnFrame, Zenon DEF refuse
<1>2. pc'[c] \notin AnswerPc
  BY <1>1, Zenon DEF AnswerPc
<1>3. /\ feed' = feed /\ skipped' = skipped /\ top' = top /\ chain' = chain
      /\ resource' = resource /\ active' = active
  BY Zenon DEF refuse, slots, snapshot, environment, history
<1> QED
  BY <1>1, <1>2, <1>3, CallAside, Zenon

\* A call that takes or leaves the slot of a preview, a send or a resolution.
LEMMA SideAside ==
  ASSUME SlotTypes, NEW c \in Calls, NEW f \in {"Resolution", "Preview", "Send"},
         OnlyCall(c), active' = active \/ \E x : active' = [active EXCEPT ![f] = x],
         Op[c] \notin {"refresh", "load_more_activity"} \/ pc'[c] \notin AnswerPc,
         feed' = feed, skipped' = skipped, top' = top, chain' = chain,
         resource' = resource
  PROVE  Aside
<1>1. \A g \in {"Refresh", "Pagination", "NftRefresh", "NftPagination"} :
        active'[g] = active[g]
  <2> SUFFICES ASSUME NEW g \in {"Refresh", "Pagination", "NftRefresh", "NftPagination"}
               PROVE  active'[g] = active[g]
    BY Zenon
  <2>1. g \in Family /\ f \in Family /\ g # f
    BY Zenon DEF Family
  <2> QED
    BY <2>1, Zenon DEF SlotTypes
<1> QED
  BY <1>1, CallAside, Zenon

\* The steps of NFT lists, previews, prepared transfers, observers and sends
\* have nothing to do with the feed.
LEMMA BeginAside ==
  ASSUME SlotInv, Locals, NEW c \in Calls,
         \/ SweepBegin(c) \/ NftRefreshBegin(c) \/ NftPageBegin(c) \/ PreviewBegin(c)
         \/ PrepareBegin(c) \/ SendBegin(c) \/ EnsureRunning(c)
  PROVE  Aside
<1>1. SlotTypes
  BY Zenon DEF SlotInv
<1>2. \A result : refuse(c, result) => Aside
  BY <1>1, RefuseAside, Zenon
<1>3. {"Refresh", "Pagination", "NftRefresh", "NftPagination", "Resolution", "Preview",
       "Send"} \subseteq Family
  BY Zenon DEF Family
<1>4. ASSUME SweepBegin(c) PROVE Aside
  <2>1. /\ feed' = feed /\ skipped' = skipped /\ top' = top /\ chain' = chain
        /\ resource' = resource
    BY <1>4, Zenon DEF SweepBegin, snapshot, environment, history
  <2>2. OnlyCall(c) /\ pc'[c] \in {"sweeping", "start"}
    BY <1>1, <1>4, ToFrame, TakeFrame, Zenon DEF SweepBegin
  <2>3. pc'[c] \notin AnswerPc
    BY <2>2, Zenon DEF AnswerPc
  <2>4. active' = active \/ \E x : active' = [active EXCEPT !["Resolution"] = x]
    BY <1>4, Zenon DEF SweepBegin
  <2> QED
    BY <1>1, <2>1, <2>2, <2>3, <2>4, SideAside, Zenon
<1>5. ASSUME NEW f \in {"Resolution", "Preview", "Send"}, NEW where,
             take(c, f), to(c, where), UNCHANGED <<arg, ans, outcome>>,
             active' = [active EXCEPT ![f] = generation'[f]],
             Op[c] \notin {"refresh", "load_more_activity"},
             feed' = feed, skipped' = skipped, top' = top, chain' = chain,
             resource' = resource
      PROVE  Aside
  <2>1. OnlyCall(c)
    BY <1>1, <1>5, TakeFrame, Zenon
  <2> QED
    BY <1>1, <1>5, <2>1, SideAside, Zenon
<1>6. ASSUME PreviewBegin(c) PROVE Aside
  BY <1>2, <1>5, <1>6, Zenon DEF PreviewBegin, snapshot, environment, history
<1>7. ASSUME PrepareBegin(c) PROVE Aside
  BY <1>2, <1>5, <1>7, Zenon DEF PrepareBegin, snapshot, environment, history
<1>8. ASSUME SendBegin(c) PROVE Aside
  BY <1>2, <1>5, <1>8, Zenon DEF SendBegin, environment, history
<1>9. ASSUME EnsureRunning(c) PROVE Aside
  BY <1>2, <1>9, Zenon DEF EnsureRunning
<1>10. \A f \in Family : generation[f] \in Nat /\ generation[f] + 1 # 0
  <2>1. \A f \in Family : generation[f] \in Nat
    BY <1>1, Zenon DEF SlotTypes
  <2> QED
    BY <2>1
<1>11. ASSUME NftRefreshBegin(c) PROVE Aside
  <2>1. /\ feed' = feed /\ skipped' = skipped /\ top' = top /\ chain' = chain
        /\ Op[c] = "refresh_nfts"
        /\ resource' = [resource EXCEPT !["nfts"] = "Loading", !["nft_pages"] = "Idle"]
        /\ active' = [active EXCEPT !["NftRefresh"] = generation["NftRefresh"] + 1,
                                    !["NftPagination"] = 0]
    <3>1. generation'["NftRefresh"] = generation["NftRefresh"] + 1
      BY <1>1, <1>3, <1>11, Zenon DEF NftRefreshBegin, take, SlotTypes
    <3> QED
      BY <1>11, <3>1, Zenon DEF NftRefreshBegin, environment, history
  <2>2. OnlyCall(c)
    BY <1>1, <1>11, TakeFrame, Zenon DEF NftRefreshBegin
  <2>3. \A d \in Calls : Stays(d)
    BY <2>1, <2>2, Zenon DEF Stays, OnlyCall
  <2>4. /\ \A r \in {"account", "activity", "activity_pages"} : resource'[r] = resource[r]
        /\ resource'["nfts"] = "Loading" /\ resource'["nft_pages"] = "Idle"
    BY <1>1, <2>1, Zenon DEF SlotTypes, Resource
  <2>5. /\ \A f \in {"Refresh", "Pagination"} : active'[f] = active[f]
        /\ active'["NftRefresh"] = generation["NftRefresh"] + 1
        /\ active'["NftPagination"] = 0
    BY <1>1, <2>1, Zenon DEF SlotTypes, Family
  <2>6. Loads("nfts", "NftRefresh") /\ Loads("nft_pages", "NftPagination")
    BY <1>3, <1>10, <2>4, <2>5, Zenon DEF Loads
  <2> QED
    BY <2>1, <2>2, <2>3, <2>4, <2>5, <2>6, Zenon DEF Aside, OnlyCall
<1>12. ASSUME NftPageBegin(c) PROVE Aside
  <2>1. CASE active["NftRefresh"] # 0 \/ active["NftPagination"] # 0 \/ ~nfts.has_more
    BY <1>2, <1>12, <2>1, Zenon DEF NftPageBegin
  <2>2. CASE ~(active["NftRefresh"] # 0 \/ active["NftPagination"] # 0 \/ ~nfts.has_more)
    <3>1. /\ feed' = feed /\ skipped' = skipped /\ top' = top /\ chain' = chain
          /\ Op[c] = "load_more_nfts"
          /\ resource' = [resource EXCEPT !["nft_pages"] = "Loading"]
          /\ active' = [active EXCEPT !["NftPagination"] = generation["NftPagination"] + 1]
      <4>1. generation'["NftPagination"] = generation["NftPagination"] + 1
        BY <1>1, <1>3, <1>12, <2>2, Zenon DEF NftPageBegin, take, SlotTypes
      <4> QED
        BY <1>12, <2>2, <4>1, Zenon DEF NftPageBegin, environment, history
    <3>2. OnlyCall(c)
      BY <1>1, <1>12, <2>2, TakeFrame, Zenon DEF NftPageBegin
    <3>3. \A d \in Calls : Stays(d)
      BY <3>1, <3>2, Zenon DEF Stays, OnlyCall
    <3>4. /\ \A r \in {"account", "activity", "activity_pages", "nfts"} :
               resource'[r] = resource[r]
          /\ resource'["nft_pages"] = "Loading"
      BY <1>1, <3>1, Zenon DEF SlotTypes, Resource
    <3>5. /\ \A f \in {"Refresh", "Pagination", "NftRefresh"} : active'[f] = active[f]
          /\ active'["NftPagination"] = generation["NftPagination"] + 1
      BY <1>1, <3>1, Zenon DEF SlotTypes, Family
    <3>6. Loads("nfts", "NftRefresh") /\ Loads("nft_pages", "NftPagination")
      BY <1>3, <1>10, <3>4, <3>5, Zenon DEF Loads
    <3> QED
      BY <3>1, <3>2, <3>3, <3>4, <3>5, <3>6, Zenon DEF Aside, OnlyCall
  <2> QED
    BY <2>1, <2>2
<1> QED
  BY <1>4, <1>6, <1>7, <1>8, <1>9, <1>11, <1>12

\* The later steps of those calls.
LEMMA ContinueAside ==
  ASSUME SlotInv, Locals, NEW c \in Calls,
         \/ SweepEnd(c) \/ NftAnswer(c) \/ NftRefreshPublish(c) \/ NftPagePublish(c)
         \/ PreviewAnswer(c) \/ PrepareAnswer(c) \/ WaitBegin(c) \/ WaitWake(c)
         \/ SendCommit(c) \/ SendEnd(c)
  PROVE  Aside
<1>1. SlotTypes /\ ControlAt(Op[c], pc[c])
  BY Zenon DEF SlotInv, Control
<1>2. \A result : refuse(c, result) => Aside
  BY <1>1, RefuseAside, Zenon
<1>3. ASSUME NEW f \in {"Resolution", "Preview", "Send"},
             Op[c] \notin {"refresh", "load_more_activity"},
             \/ /\ \E where : to(c, where) /\ UNCHANGED <<gen, arg, ans, outcome>>
                /\ active' = active
             \/ active' = [active EXCEPT ![f] = 0] /\ \E result : return(c, result),
             feed' = feed, skipped' = skipped, top' = top, chain' = chain,
             resource' = resource
      PROVE  Aside
  <2>1. OnlyCall(c)
    BY <1>1, <1>3, ReturnFrame, ToFrame, Zenon
  <2> QED
    BY <1>1, <1>3, <2>1, SideAside, Zenon
<1>4. ASSUME SweepEnd(c) PROVE Aside
  <2>1. /\ feed' = feed /\ skipped' = skipped /\ top' = top /\ chain' = chain
        /\ resource' = resource
    BY <1>4, Zenon DEF SweepEnd, environment, history
  <2>2. OnlyCall(c) /\ pc'[c] = "start"
    BY <1>1, <1>4, ToFrame, Zenon DEF SweepEnd
  <2>3. pc'[c] \notin AnswerPc
    BY <2>2, Zenon DEF AnswerPc
  <2>4. active' = active \/ \E x : active' = [active EXCEPT !["Resolution"] = x]
    BY <1>4, Zenon DEF SweepEnd
  <2> QED
    BY <1>1, <2>1, <2>2, <2>3, <2>4, SideAside, Zenon
<1>5. ASSUME NftAnswer(c) PROVE Aside
  <2>1. /\ feed' = feed /\ skipped' = skipped /\ top' = top /\ chain' = chain
        /\ resource' = resource /\ active' = active
        /\ Op[c] \notin {"refresh", "load_more_activity"}
    BY <1>5, Zenon DEF NftAnswer, slots, snapshot
  <2>2. OnlyCall(c)
    BY <1>1, <1>5, Assigned, Zenon DEF NftAnswer, to
  <2> QED
    BY <2>1, <2>2, CallAside, Zenon
<1>6. ASSUME PreviewAnswer(c) PROVE Aside
  <2>1. CASE ~running \/ ~is_current("Preview", gen[c])
    BY <1>2, <1>6, <2>1, Zenon DEF PreviewAnswer
  <2>2. CASE running /\ is_current("Preview", gen[c])
    <3>1. /\ feed' = feed /\ skipped' = skipped /\ top' = top /\ chain' = chain
          /\ resource' = resource
          /\ Op[c] \notin {"refresh", "load_more_activity"}
      BY <1>6, <2>2, Zenon DEF PreviewAnswer, snapshot, history
    <3>2. \/ /\ \E where : to(c, where) /\ UNCHANGED <<gen, arg, ans, outcome>>
             /\ active' = active
          \/ active' = [active EXCEPT !["Preview"] = 0] /\ \E result : return(c, result)
      BY <1>6, <2>2, Zenon DEF PreviewAnswer, locals
    <3> QED
      BY <1>3, <3>1, <3>2, Zenon
  <2> QED
    BY <2>1, <2>2
<1>7. ASSUME PrepareAnswer(c) PROVE Aside
  <2>1. CASE ~is_current("Resolution", gen[c])
    BY <1>2, <1>7, <2>1, Zenon DEF PrepareAnswer
  <2>2. CASE is_current("Resolution", gen[c])
    <3>1. /\ feed' = feed /\ skipped' = skipped /\ top' = top /\ chain' = chain
          /\ resource' = resource
          /\ Op[c] \notin {"refresh", "load_more_activity"}
      BY <1>7, <2>2, Zenon DEF PrepareAnswer, snapshot, history
    <3>2. \/ /\ \E where : to(c, where) /\ UNCHANGED <<gen, arg, ans, outcome>>
             /\ active' = active
          \/ active' = [active EXCEPT !["Resolution"] = 0] /\ \E result : return(c, result)
      BY <1>7, <2>2, Zenon DEF PrepareAnswer, locals
    <3> QED
      BY <1>3, <3>1, <3>2, Zenon
  <2> QED
    BY <2>1, <2>2
<1>8. ASSUME WaitBegin(c) PROVE Aside
  <2>1. /\ feed' = feed /\ skipped' = skipped /\ top' = top /\ chain' = chain
        /\ resource' = resource /\ active' = active
        /\ Op[c] \notin {"refresh", "load_more_activity"}
    BY <1>8, Zenon DEF WaitBegin, slots, snapshot, environment, history
  <2>2. OnlyCall(c)
    BY <1>1, <1>8, Assigned, Zenon DEF WaitBegin, to, return
  <2> QED
    BY <2>1, <2>2, CallAside, Zenon
<1>9. ASSUME WaitWake(c) PROVE Aside
  BY <1>2, <1>9, Zenon DEF WaitWake
<1>10. ASSUME pc[c] \in {"signing", "committed"}
       PROVE  Op[c] \notin {"refresh", "load_more_activity"}
  BY <1>1, <1>10, Zenon DEF ControlAt
<1>11. ASSUME SendCommit(c) PROVE Aside
  <2>1. CASE shutdown \/ ~is_current("Send", gen[c])
    BY <1>2, <1>11, <2>1, Zenon DEF SendCommit
  <2>2. CASE ~(shutdown \/ ~is_current("Send", gen[c]))
    <3>1. /\ feed' = feed /\ skipped' = skipped /\ top' = top /\ chain' = chain
          /\ resource' = resource /\ active' = active
          /\ to(c, "committed") /\ UNCHANGED <<gen, arg, ans, outcome>>
      BY <1>11, <2>2, Zenon DEF SendCommit, snapshot, environment, history
    <3>2. Op[c] \notin {"refresh", "load_more_activity"}
      BY <1>10, <1>11, Zenon DEF SendCommit
    <3> QED
      BY <1>3, <3>1, <3>2, Zenon
  <2> QED
    BY <2>1, <2>2
<1>12. ASSUME SendEnd(c) PROVE Aside
  <2>1. /\ feed' = feed /\ skipped' = skipped /\ top' = top /\ chain' = chain
        /\ resource' = resource /\ active' = [active EXCEPT !["Send"] = 0]
        /\ \E result : return(c, result)
    BY <1>12, Zenon DEF SendEnd, environment, history
  <2>2. Op[c] \notin {"refresh", "load_more_activity"}
    BY <1>10, <1>12, Zenon DEF SendEnd
  <2> QED
    BY <1>3, <2>1, <2>2, Zenon
<1>13. ASSUME NEW op, NEW f \in {"NftRefresh", "NftPagination"}, NEW r \in {"nfts", "nft_pages"},
              NftPublish(c, op, f, r), op \notin {"refresh", "load_more_activity"},
              f = "NftRefresh" <=> r = "nfts"
       PROVE  Aside
  <2>1. CASE ~is_current(f, gen[c])
    BY <1>2, <1>13, <2>1, Zenon DEF NftPublish
  <2>2. CASE is_current(f, gen[c])
    <3>1. /\ feed' = feed /\ skipped' = skipped /\ top' = top /\ chain' = chain
          /\ active' = [active EXCEPT ![f] = 0]
          /\ resource' = [resource EXCEPT ![r] = PageResult(ans[c])[1]]
          /\ \E result : return(c, result)
          /\ Op[c] \notin {"refresh", "load_more_activity"}
      BY <1>13, <2>2, Zenon DEF NftPublish, environment
    <3>2. PageResult(ans[c])[1] # "Loading"
      BY DEF PageResult
    <3>3. OnlyCall(c)
      BY <1>1, <3>1, ReturnFrame, Zenon
    <3>4. \A d \in Calls : Stays(d)
      BY <3>1, <3>3, Zenon DEF Stays, OnlyCall
    <3>5. /\ \A x \in Resource \ {r} : resource'[x] = resource[x]
          /\ resource'[r] # "Loading" /\ r \in Resource
      BY <1>1, <3>1, <3>2, Zenon DEF SlotTypes, Resource
    <3>6. /\ \A x \in Family \ {f} : active'[x] = active[x]
          /\ active'[f] = 0 /\ f \in Family
      BY <1>1, <3>1, Zenon DEF SlotTypes, Family
    <3>7. /\ \A x \in {"account", "activity", "activity_pages"} : resource'[x] = resource[x]
          /\ \A x \in {"Refresh", "Pagination"} : active'[x] = active[x]
      BY <3>5, <3>6, Zenon DEF Resource, Family
    <3>8. Loads("nfts", "NftRefresh") /\ Loads("nft_pages", "NftPagination")
      BY <1>13, <3>5, <3>6, Zenon DEF Loads, Resource, Family
    <3> QED
      BY <3>1, <3>3, <3>4, <3>7, <3>8, Zenon DEF Aside, OnlyCall
  <2> QED
    BY <2>1, <2>2
<1>14. ASSUME NftRefreshPublish(c) PROVE Aside
  <2>1. /\ "NftRefresh" \in {"NftRefresh", "NftPagination"}
        /\ "nfts" \in {"nfts", "nft_pages"}
        /\ "refresh_nfts" \notin {"refresh", "load_more_activity"}
        /\ NftPublish(c, "refresh_nfts", "NftRefresh", "nfts")
    BY <1>14, Zenon DEF NftRefreshPublish
  <2> QED
    BY <1>13, <2>1, Zenon
<1>15. ASSUME NftPagePublish(c) PROVE Aside
  <2>1. /\ "NftPagination" \in {"NftRefresh", "NftPagination"}
        /\ "nft_pages" \in {"nfts", "nft_pages"}
        /\ "load_more_nfts" \notin {"refresh", "load_more_activity"}
        /\ NftPublish(c, "load_more_nfts", "NftPagination", "nft_pages")
        /\ "NftPagination" # "NftRefresh" /\ "nft_pages" # "nfts"
    BY <1>15, Zenon DEF NftPagePublish
  <2> QED
    BY <1>13, <2>1, Zenon
<1> QED
  BY <1>4, <1>5, <1>6, <1>7, <1>8, <1>9, <1>11, <1>12, <1>14, <1>15

\* Cancellations of other operations, and steps of the NFT owner.
LEMMA OutsideAside ==
  ASSUME SlotInv, Locals,
         \/ cancel_refresh_nfts \/ cancel_load_more_nfts \/ cancel_send_preview
         \/ cancel_send \/ (\E n \in Nfts : NftUse(n) \/ NftLeave(n)) \/ UNCHANGED vars
  PROVE  Aside
<1>1. SlotTypes
  BY Zenon DEF SlotInv
<1>2. ASSUME UNCHANGED call PROVE Locals' /\ \A c \in Calls : Stays(c)
  BY <1>2, Zenon DEF call, Locals, Stays
<1>3. ASSUME UNCHANGED call, feed' = feed, skipped' = skipped, top' = top, chain' = chain,
             resource' = resource,
             \A f \in {"Refresh", "Pagination", "NftRefresh", "NftPagination"} :
               active'[f] = active[f]
      PROVE  Aside
  <2>1. Loads("nfts", "NftRefresh") /\ Loads("nft_pages", "NftPagination")
    BY <1>3, Zenon DEF Loads
  <2> QED
    BY <1>2, <1>3, <2>1, Zenon DEF Aside
<1>4. ASSUME cancel_send_preview \/ cancel_send PROVE Aside
  <2>1. /\ UNCHANGED call /\ feed' = feed /\ skipped' = skipped /\ top' = top
        /\ chain' = chain /\ resource' = resource
    BY <1>4, Zenon DEF cancel_send_preview, cancel_send, snapshot, history
  <2>2. \/ active' = [active EXCEPT !["Preview"] = 0]
        \/ active' = [active EXCEPT !["Send"] = 0]
    BY <1>4, Zenon DEF cancel_send_preview, cancel_send
  <2>3. \A f \in {"Refresh", "Pagination", "NftRefresh", "NftPagination"} :
          active'[f] = active[f]
    BY <1>1, <2>2, Zenon DEF SlotTypes, Family
  <2> QED
    BY <1>3, <2>1, <2>3, Zenon
<1>5. ASSUME (\E n \in Nfts : NftUse(n) \/ NftLeave(n)) \/ UNCHANGED vars PROVE Aside
  <2>1. /\ UNCHANGED call /\ feed' = feed /\ skipped' = skipped /\ top' = top
        /\ chain' = chain /\ resource' = resource /\ active' = active
    BY <1>5, Zenon
       DEF NftUse, NftLeave, vars, slots, snapshot, environment, history
  <2> QED
    BY <1>3, <2>1, Zenon
<1>6. ASSUME cancel_refresh_nfts PROVE Aside
  <2>1. /\ UNCHANGED call /\ feed' = feed /\ skipped' = skipped /\ top' = top
        /\ chain' = chain
        /\ active' = [active EXCEPT !["NftRefresh"] = 0]
        /\ resource' = [resource EXCEPT !["nfts"] = "Idle"]
    BY <1>6, Zenon DEF cancel_refresh_nfts, cancel_nfts, history
  <2>2. /\ \A f \in {"Refresh", "Pagination", "NftPagination"} : active'[f] = active[f]
        /\ active'["NftRefresh"] = 0
    BY <1>1, <2>1, Zenon DEF SlotTypes, Family
  <2>3. /\ \A r \in {"account", "activity", "activity_pages", "nft_pages"} :
             resource'[r] = resource[r]
        /\ resource'["nfts"] = "Idle"
    BY <1>1, <2>1, Zenon DEF SlotTypes, Resource
  <2>4. Loads("nfts", "NftRefresh") /\ Loads("nft_pages", "NftPagination")
    BY <2>2, <2>3, Zenon DEF Loads
  <2> QED
    BY <1>2, <2>1, <2>2, <2>3, <2>4, Zenon DEF Aside
<1>7. ASSUME cancel_load_more_nfts PROVE Aside
  <2>1. /\ UNCHANGED call /\ feed' = feed /\ skipped' = skipped /\ top' = top
        /\ chain' = chain
        /\ active' = [active EXCEPT !["NftPagination"] = 0]
        /\ resource' = [resource EXCEPT !["nft_pages"] = "Idle"]
    BY <1>7, Zenon DEF cancel_load_more_nfts, cancel_nfts, history
  <2>2. /\ \A f \in {"Refresh", "Pagination", "NftRefresh"} : active'[f] = active[f]
        /\ active'["NftPagination"] = 0
    BY <1>1, <2>1, Zenon DEF SlotTypes, Family
  <2>3. /\ \A r \in {"account", "activity", "activity_pages", "nfts"} :
             resource'[r] = resource[r]
        /\ resource'["nft_pages"] = "Idle"
    BY <1>1, <2>1, Zenon DEF SlotTypes, Resource
  <2>4. Loads("nfts", "NftRefresh") /\ Loads("nft_pages", "NftPagination")
    BY <2>2, <2>3, Zenon DEF Loads
  <2> QED
    BY <1>2, <2>1, <2>2, <2>3, <2>4, Zenon DEF Aside
<1> QED
  BY <1>4, <1>5, <1>6, <1>7

\* A page load that starts or is published by its owner.
PageStarts(c) ==
  PageBegin(c) /\ active["Refresh"] = 0 /\ active["Pagination"] = 0
    /\ feed.has_more /\ feed.cursor # NoCursor

PageEnds(c) == PagePublish(c) /\ is_current("Pagination", gen[c])

\* The last round of a shutdown.
ShutsDown(c) == Shutdown(c) /\ prepare_shutdown /\ return(c, "Ok")

\* The steps that have to do with the feed.
FeedStep ==
  \/ \E c \in Calls :
       \/ RefreshBegin(c) \/ RefreshAnswer(c) \/ PublishAccount(c) \/ PublishActivity(c)
       \/ RefreshFinish(c) \/ PageStarts(c) \/ PageAnswer(c) \/ PageEnds(c) \/ ShutsDown(c)
  \/ cancel_refresh \/ cancel_load_more_activity \/ Transact

\* Every step has to do with the feed or leaves it aside.
LEMMA Classified ==
  ASSUME SlotInv, Locals, [Next]_vars
  PROVE  Aside \/ FeedStep
<1>1. SlotTypes
  BY Zenon DEF SlotInv
<1>2. ASSUME NEW c \in Calls, PageBegin(c) PROVE Aside \/ PageStarts(c)
  BY <1>1, <1>2, RefuseAside, Zenon DEF PageStarts, PageBegin
<1>3. ASSUME NEW c \in Calls, PagePublish(c) PROVE Aside \/ PageEnds(c)
  BY <1>1, <1>3, RefuseAside, Zenon DEF PageEnds, PagePublish
<1>4. ASSUME NEW c \in Calls, Shutdown(c) PROVE Aside \/ ShutsDown(c)
  <2>1. CASE shutdown
    BY <1>1, <1>4, <2>1, RefuseAside, Zenon DEF Shutdown
  <2>2. CASE ~shutdown /\ active["Send"] # 0 /\ commit
    <3>1. /\ to(c, "asleep") /\ UNCHANGED <<gen, arg, ans, outcome>>
          /\ active' = active /\ resource' = resource
          /\ feed' = feed /\ skipped' = skipped /\ top' = top /\ chain' = chain
          /\ Op[c] \notin {"refresh", "load_more_activity"}
      BY <1>4, <2>2, Zenon DEF Shutdown, locals, environment, history
    <3>2. OnlyCall(c)
      BY <1>1, <3>1, ToFrame, Zenon
    <3> QED
      BY <3>1, <3>2, CallAside, Zenon
  <2>3. CASE ~shutdown /\ ~(active["Send"] # 0 /\ commit)
    BY <1>4, <2>3, Zenon DEF Shutdown, ShutsDown
  <2> QED
    BY <2>1, <2>2, <2>3
<1>5. ASSUME NEW c \in Calls, Begin(c) PROVE Aside \/ FeedStep
  BY <1>2, <1>4, <1>5, BeginAside, Zenon DEF Begin, FeedStep
<1>6. ASSUME NEW c \in Calls, Continue(c) PROVE Aside \/ FeedStep
  BY <1>3, <1>4, <1>6, BeginAside, ContinueAside, Zenon DEF Continue, FeedStep
<1>7. ASSUME Cancel PROVE Aside \/ FeedStep
  BY <1>7, OutsideAside, Zenon DEF Cancel, FeedStep
<1>8. ASSUME Environment \/ UNCHANGED vars PROVE Aside \/ FeedStep
  BY <1>8, OutsideAside, Zenon DEF Environment, FeedStep
<1> QED
  BY <1>5, <1>6, <1>7, <1>8, Zenon DEF Next

-----------------------------------------------------------------------------
(* The calls that a step does not move.                                    *)

\* Where the calls of the feed hold their slots.
LEMMA FeedControl ==
  ASSUME NEW op, NEW where, ControlAt(op, where)
  PROVE  /\ where \in {"publish_account", "publish_activity", "finish"} =>
              op = "refresh" /\ where \in WorkPc /\ FamilyAt(op, where) = "Refresh"
         /\ op = "refresh" /\ where = "waiting" =>
              where \in WorkPc /\ FamilyAt(op, where) = "Refresh"
         /\ op = "load_more_activity" /\ where \in {"waiting", "publish"} =>
              where \in WorkPc /\ FamilyAt(op, where) = "Pagination"
         /\ "Refresh" \in Family /\ "Pagination" \in Family
BY DEF ControlAt, WorkPc, FamilyAt, FamilyOf, Family

\* The same for a call, before and after a step.
LEMMA FeedCalls ==
  ASSUME NEW c \in Calls
  PROVE  /\ SlotInv /\ pc[c] \in {"publish_account", "publish_activity", "finish"} =>
              Holds(c, "Refresh") /\ Op[c] = "refresh"
         /\ SlotInv' /\ pc'[c] \in {"publish_account", "publish_activity", "finish"} =>
              Holds(c, "Refresh")' /\ Op[c] = "refresh"
         /\ SlotInv' /\ Op[c] = "refresh" /\ pc'[c] = "waiting" => Holds(c, "Refresh")'
         /\ SlotInv /\ Op[c] = "load_more_activity" /\ pc[c] \in {"waiting", "publish"} =>
              Holds(c, "Pagination")
         /\ SlotInv' /\ Op[c] = "load_more_activity" /\ pc'[c] \in {"waiting", "publish"} =>
              Holds(c, "Pagination")'
         /\ "Refresh" \in Family /\ "Pagination" \in Family
<1>1. "Refresh" \in Family /\ "Pagination" \in Family
  BY Zenon DEF Family
<1>2. SlotInv => ControlAt(Op[c], pc[c])
  BY Zenon DEF SlotInv, Control
<1>3. SlotInv' => ControlAt(Op[c], pc'[c])
  BY Zenon DEF SlotInv, Control
<1>4. Holds(c, "Refresh")' <=> pc'[c] \in WorkPc /\ FamilyAt(Op[c], pc'[c]) = "Refresh"
  BY Zenon DEF Holds
<1>5. Holds(c, "Pagination")' <=> pc'[c] \in WorkPc /\ FamilyAt(Op[c], pc'[c]) = "Pagination"
  BY Zenon DEF Holds
<1> QED
  BY <1>1, <1>2, <1>3, <1>4, <1>5, FeedControl, ZenonT(30) DEF Holds

\* A call that does not move keeps its part of the invariant when nothing that
\* it shows has changed, or when it lost its slot.
LEMMA SameKeeps ==
  ASSUME SlotInv, SlotInv', NEW c \in Calls, Same(c),
         RefreshInv(c), HeadInv(c), TailInv(c),
         chain \in Nat, chain' \in Nat, chain <= chain',
         \/ Holds(c, "Refresh")' => ~is_current("Refresh", gen[c])'
         \/ /\ active'["Refresh"] = active["Refresh"] /\ feed' = feed
            /\ resource'["account"] = resource["account"]
            /\ resource'["activity"] = resource["activity"],
         \/ Holds(c, "Pagination")' => ~is_current("Pagination", gen[c])'
         \/ active'["Pagination"] = active["Pagination"] /\ feed' = feed
  PROVE  RefreshInv(c)' /\ HeadInv(c)' /\ TailInv(c)'
<1>1. /\ pc'[c] \in {"publish_account", "publish_activity", "finish"} =>
           Holds(c, "Refresh")'
      /\ Op[c] = "load_more_activity" /\ pc'[c] \in {"waiting", "publish"} =>
           Holds(c, "Pagination")'
  BY FeedCalls, Zenon
<1>2. pc'[c] = pc[c] /\ gen'[c] = gen[c] /\ arg'[c] = arg[c] /\ ans'[c] = ans[c]
  BY Zenon DEF Same
<1>3. \A n \in 0..chain : n \in 0..chain'
  OBVIOUS
<1>4. RefreshInv(c)'
  BY <1>1, <1>2, Zenon DEF RefreshInv, is_current
<1>5. HeadInv(c)'
  BY <1>1, <1>2, <1>3, Zenon DEF HeadInv, is_current
<1>6. TailInv(c)'
  BY <1>1, <1>2, <1>3, Zenon DEF TailInv, is_current
<1> QED
  BY <1>4, <1>5, <1>6

\* A call that stands elsewhere has no part in the invariant of the feed.
LEMMA ElsewhereKeeps ==
  ASSUME SlotInv', NEW c \in Calls,
         ~(Op[c] \in {"refresh", "load_more_activity"} /\ pc'[c] \in AnswerPc)
  PROVE  RefreshInv(c)' /\ HeadInv(c)' /\ TailInv(c)'
<1>1. /\ pc'[c] \notin {"publish_account", "publish_activity", "finish"}
      /\ ~(Op[c] = "load_more_activity" /\ pc'[c] \in {"waiting", "publish"})
  BY FeedCalls, Zenon DEF AnswerPc
<1> QED
  BY <1>1, Zenon DEF RefreshInv, HeadInv, TailInv

\* What one step does to a pair of LoadingHasOwner.
LEMMA LoadsKeeps ==
  ASSUME NEW r, NEW f, Loads(r, f), (resource[r] = "Loading") <=> (active[f] # 0)
  PROVE  (resource'[r] = "Loading") <=> (active'[f] # 0)
BY Zenon DEF Loads

\* A step aside keeps the invariant.
LEMMA AsideKeeps ==
  ASSUME SlotInv, SlotInv', ListInv, Aside
  PROVE  ListInv'
<1>1. LoadingHasOwner'
  BY LoadsKeeps, Zenon DEF ListInv, LoadingHasOwner, Aside
<1>2. FeedInv'
  BY Zenon DEF ListInv, FeedInv, Aside
<1>3. chain \in Nat /\ chain' = chain /\ chain <= chain'
  <2>1. chain \in Nat /\ chain' = chain
    BY Zenon DEF ListInv, FeedInv, Aside
  <2> QED
    BY <2>1
<1>4. ASSUME NEW c \in Calls PROVE RefreshInv(c)' /\ HeadInv(c)' /\ TailInv(c)'
  <2>1. CASE Op[c] \in {"refresh", "load_more_activity"} /\ pc'[c] \in AnswerPc
    <3>1. Same(c)
      BY <2>1, Zenon DEF Aside, Stays, Same
    <3>2. /\ active'["Refresh"] = active["Refresh"] /\ feed' = feed
          /\ resource'["account"] = resource["account"]
          /\ resource'["activity"] = resource["activity"]
          /\ active'["Pagination"] = active["Pagination"]
      BY Zenon DEF Aside
    <3>3. RefreshInv(c) /\ HeadInv(c) /\ TailInv(c)
      BY Zenon DEF ListInv
    <3> QED
      BY <1>3, <3>1, <3>2, <3>3, SameKeeps, Zenon
  <2>2. CASE ~(Op[c] \in {"refresh", "load_more_activity"} /\ pc'[c] \in AnswerPc)
    BY <2>2, ElsewhereKeeps, Zenon
  <2> QED
    BY <2>1, <2>2
<1> QED
  BY <1>1, <1>2, <1>4, Zenon DEF ListInv, Aside

-----------------------------------------------------------------------------
(* The steps of the feed.                                                  *)

\* A step leaves the slot of the refresh and what it shows alone, or the slot is
\* empty or owned by the call that moved.
Undisturbed ==
  \/ active'["Refresh"] = 0
  \/ \E k \in Calls : Holds(k, "Refresh")' /\ gen'[k] = active'["Refresh"] /\ ~Same(k)
  \/ /\ active'["Refresh"] = active["Refresh"] /\ feed' = feed
     /\ resource'["account"] = resource["account"]
     /\ resource'["activity"] = resource["activity"]

UndisturbedPages ==
  \/ active'["Pagination"] = 0
  \/ \E k \in Calls : Holds(k, "Pagination")' /\ gen'[k] = active'["Pagination"] /\ ~Same(k)
  \/ active'["Pagination"] = active["Pagination"] /\ feed' = feed

\* A call that a step does not move keeps its part of the invariant.
LEMMA OthersKeep ==
  ASSUME SlotInv, SlotInv', ListInv, chain' \in Nat, chain <= chain',
         Undisturbed, UndisturbedPages, NEW c \in Calls, Same(c)
  PROVE  RefreshInv(c)' /\ HeadInv(c)' /\ TailInv(c)'
<1>1. RefreshInv(c) /\ HeadInv(c) /\ TailInv(c) /\ chain \in Nat
  BY Zenon DEF ListInv, FeedInv
<1>2. "Refresh" \in Family /\ "Pagination" \in Family
  BY Zenon DEF Family
<1>3. \/ Holds(c, "Refresh")' => ~is_current("Refresh", gen[c])'
      \/ /\ active'["Refresh"] = active["Refresh"] /\ feed' = feed
         /\ resource'["account"] = resource["account"]
         /\ resource'["activity"] = resource["activity"]
  BY <1>2, Displaced, Zenon DEF Undisturbed
<1>4. \/ Holds(c, "Pagination")' => ~is_current("Pagination", gen[c])'
      \/ active'["Pagination"] = active["Pagination"] /\ feed' = feed
  BY <1>2, Displaced, Zenon DEF UndisturbedPages
<1> QED
  BY <1>1, <1>3, <1>4, SameKeeps, Zenon

\* The invariant after a step of one call, put together.
LEMMA Together ==
  ASSUME SlotInv, SlotInv', ListInv, NEW c \in Calls, OnlyCall(c),
         RefreshInv(c)', HeadInv(c)', TailInv(c)', LoadingHasOwner', FeedInv',
         chain' = chain, Undisturbed, UndisturbedPages
  PROVE  ListInv'
<1>1. chain' \in Nat /\ chain <= chain'
  <2>1. chain \in Nat
    BY Zenon DEF ListInv, FeedInv
  <2> QED
    BY <2>1
<1>2. ASSUME NEW d \in Calls \ {c} PROVE RefreshInv(d)' /\ HeadInv(d)' /\ TailInv(d)'
  <2>1. Same(d)
    BY Zenon DEF OnlyCall, Same
  <2> QED
    BY <1>1, <2>1, OthersKeep, Zenon
<1> QED
  BY <1>2, Zenon DEF ListInv, OnlyCall

\* A refresh takes the slot from every earlier refresh and page load.
LEMMA RefreshBeginKeeps ==
  ASSUME SlotInv, SlotInv', ListInv, NEW c \in Calls, RefreshBegin(c)
  PROVE  ListInv'
<1>1. SlotTypes /\ Locals
  BY Zenon DEF SlotInv, ListInv
<1>2. /\ pc[c] = "start" /\ Op[c] = "refresh"
      /\ feed' = feed /\ skipped' = skipped /\ top' = top /\ chain' = chain
      /\ resource' = [resource EXCEPT !["account"] = "Loading",
                        !["activity"] = "Loading", !["activity_pages"] = "Idle"]
      /\ active' = [active EXCEPT !["Refresh"] = generation'["Refresh"],
                                  !["Pagination"] = 0]
      /\ take(c, "Refresh") /\ to(c, "waiting") /\ UNCHANGED <<arg, ans, outcome>>
  BY Zenon DEF RefreshBegin, environment, history
<1>3. OnlyCall(c) /\ pc'[c] = "waiting"
  BY <1>1, <1>2, TakeFrame, Zenon
<1>4. /\ active'["Refresh"] = generation'["Refresh"] /\ active'["Pagination"] = 0
      /\ active'["NftRefresh"] = active["NftRefresh"]
      /\ active'["NftPagination"] = active["NftPagination"]
  BY <1>1, <1>2, Zenon DEF SlotTypes, Family
<1>5. gen'[c] = generation'["Refresh"]
  BY <1>1, <1>2, Zenon DEF take, SlotTypes
<1>6. /\ resource'["activity_pages"] = "Idle"
      /\ resource'["nfts"] = resource["nfts"]
      /\ resource'["nft_pages"] = resource["nft_pages"]
  BY <1>1, <1>2, Zenon DEF SlotTypes, Resource
<1>7. Holds(c, "Refresh")' /\ "Refresh" \in Family
  BY <1>2, <1>3, FeedCalls, Zenon
<1>8. active'["Refresh"] # 0
  <2>1. 1 <= gen'[c] /\ gen'[c] \in Nat
    BY <1>7, Zenon DEF SlotInv, Given, SlotTypes
  <2> QED
    BY <1>4, <1>5, <2>1
<1>9. LoadingHasOwner'
  BY <1>4, <1>6, <1>8, Zenon DEF LoadingHasOwner, ListInv
<1>10. FeedInv'
  BY <1>2, Zenon DEF FeedInv, ListInv
<1>11. RefreshInv(c)' /\ HeadInv(c)' /\ TailInv(c)'
  BY <1>2, <1>3, Zenon DEF RefreshInv, HeadInv, TailInv
<1>12. ~Same(c)
  BY <1>2, <1>3, Zenon DEF Same
<1>13. Undisturbed /\ UndisturbedPages
  BY <1>4, <1>5, <1>7, <1>12, Zenon DEF Undisturbed, UndisturbedPages
<1> QED
  BY <1>2, <1>3, <1>9, <1>10, <1>11, <1>13, Together, Zenon

\* The answers of a refresh are those of one moment, in which the loaded list
\* was already on the chain.
LEMMA RefreshAnswerKeeps ==
  ASSUME SlotInv, SlotInv', ListInv, NEW c \in Calls, RefreshAnswer(c)
  PROVE  ListInv'
<1>1. SlotTypes /\ Locals
  BY Zenon DEF SlotInv, ListInv
<1>2. /\ pc[c] = "waiting" /\ Op[c] = "refresh"
      /\ feed' = feed /\ skipped' = skipped /\ top' = top /\ chain' = chain
      /\ resource' = resource /\ active' = active
      /\ to(c, "publish_account") /\ UNCHANGED <<gen, arg, outcome>>
  BY Zenon DEF RefreshAnswer, slots, snapshot, history
<1>3. PICK ok \in BOOLEAN, status \in {"ok", "error"} :
        ans' = [ans EXCEPT ![c] = Answer(status, ok, PageAt(chain, NoCursor))]
  BY Zenon DEF RefreshAnswer, PageAt
<1>4. OnlyCall(c)
  BY <1>1, <1>2, <1>3, Assigned, Zenon DEF to
<1>5. pc'[c] = "publish_account"
  BY <1>1, <1>2, Zenon DEF to, SlotTypes
<1>6. ans'[c] = Answer(status, ok, PageAt(chain, NoCursor))
  <2>1. DOMAIN ans = Calls
    BY <1>1, Zenon DEF Locals
  <2> QED
    BY <1>3, <2>1, Zenon
<1>7. /\ ans'[c].status = status /\ ans'[c].account = ok
      /\ ans'[c].page = PageAt(chain, NoCursor)
  BY <1>6 DEF Answer
<1>8. RefreshInv(c)' /\ TailInv(c)'
  BY <1>2, <1>5, <1>7, Zenon DEF RefreshInv, TailInv
<1>9. HeadInv(c)'
  <2>1. chain \in 0..chain'
    BY <1>2 DEF ListInv, FeedInv
  <2>2. feed.items # {} =>
          /\ feed.cursor <= chain
          /\ feed.cursor = 1 \/ feed.cursor + PageSize <= chain + 1
    BY Zenon DEF ListInv, FeedInv, FeedAt
  <2> QED
    BY <1>2, <1>7, <2>1, <2>2, Zenon DEF HeadInv
<1>10. LoadingHasOwner' /\ FeedInv'
  BY <1>2, Zenon DEF LoadingHasOwner, FeedInv, ListInv
<1>11. Undisturbed /\ UndisturbedPages
  BY <1>2, Zenon DEF Undisturbed, UndisturbedPages
<1> QED
  BY <1>2, <1>4, <1>8, <1>9, <1>10, <1>11, Together, Zenon

\* The account of a refresh is shown by the refresh that owns the slot.
LEMMA PublishAccountKeeps ==
  ASSUME SlotInv, SlotInv', ListInv, NEW c \in Calls, PublishAccount(c)
  PROVE  ListInv'
<1>1. SlotTypes /\ Locals
  BY Zenon DEF SlotInv, ListInv
<1>2. /\ pc[c] = "publish_account" /\ feed' = feed /\ skipped' = skipped
      /\ top' = top /\ chain' = chain /\ active' = active
      /\ to(c, "publish_activity") /\ UNCHANGED <<gen, arg, ans, outcome>>
  BY Zenon DEF PublishAccount, slots, environment, history
<1>3. OnlyCall(c) /\ pc'[c] = "publish_activity"
  BY <1>1, <1>2, ToFrame, Zenon
<1>4. Holds(c, "Refresh")' /\ Holds(c, "Refresh") /\ Op[c] = "refresh" /\ ~Same(c)
  BY <1>2, <1>3, FeedCalls, Zenon DEF Same
<1>5. RefreshInv(c) /\ HeadInv(c) /\ LoadingHasOwner /\ FeedInv
  BY Zenon DEF ListInv
<1>6. FeedInv' /\ HeadInv(c)' /\ TailInv(c)'
  BY <1>2, <1>3, <1>4, <1>5, Zenon DEF FeedInv, HeadInv, TailInv, is_current
<1>7. CASE is_current("Refresh", gen[c])
  <2>1. resource' = [resource EXCEPT !["account"] =
                       IF ans[c].account THEN "Ready" ELSE "Failed"]
    BY <1>7, Zenon DEF PublishAccount
  <2>2. /\ resource'["account"] = IF ans[c].account THEN "Ready" ELSE "Failed"
        /\ \A r \in Resource \ {"account"} : resource'[r] = resource[r]
    BY <1>1, <2>1, Zenon DEF SlotTypes, Resource
  <2>3. RefreshInv(c)'
    BY <1>2, <1>3, <1>5, <2>2, Zenon DEF RefreshInv
  <2>4. LoadingHasOwner'
    BY <1>2, <1>5, <2>2, Zenon DEF LoadingHasOwner, Resource
  <2>5. Undisturbed /\ UndisturbedPages
    BY <1>2, <1>4, <1>7, Zenon DEF Undisturbed, UndisturbedPages, is_current
  <2> QED
    BY <1>2, <1>3, <1>6, <2>3, <2>4, <2>5, Together, Zenon
<1>8. CASE ~is_current("Refresh", gen[c])
  <2>1. resource' = resource
    BY <1>8, Zenon DEF PublishAccount
  <2>2. RefreshInv(c)' /\ LoadingHasOwner'
    BY <1>2, <1>3, <1>5, <1>8, <2>1, Zenon DEF RefreshInv, LoadingHasOwner, is_current
  <2>3. Undisturbed /\ UndisturbedPages
    BY <1>2, <2>1, Zenon DEF Undisturbed, UndisturbedPages
  <2> QED
    BY <1>2, <1>3, <1>6, <2>2, <2>3, Together, Zenon
<1> QED
  BY <1>7, <1>8

\* The list of a refresh is published by the refresh that owns the slot: a first
\* page, or one that is merged above the loaded list.
LEMMA PublishActivityKeeps ==
  ASSUME Merges, SlotInv, SlotInv', ListInv, NEW c \in Calls, PublishActivity(c)
  PROVE  ListInv'
<1>1. SlotTypes /\ Locals
  BY Zenon DEF SlotInv, ListInv
<1>2. /\ pc[c] = "publish_activity" /\ chain' = chain /\ active' = active
      /\ to(c, "finish") /\ UNCHANGED <<gen, arg, ans, outcome>>
  BY Zenon DEF PublishActivity, slots, environment
<1>3. OnlyCall(c) /\ pc'[c] = "finish"
  BY <1>1, <1>2, ToFrame, Zenon
<1>4. Holds(c, "Refresh")' /\ Holds(c, "Refresh") /\ Op[c] = "refresh" /\ ~Same(c)
  BY <1>2, <1>3, FeedCalls, Zenon DEF Same
<1>5. RefreshInv(c) /\ HeadInv(c) /\ LoadingHasOwner /\ FeedInv
  BY Zenon DEF ListInv
<1>6. HeadInv(c)' /\ TailInv(c)'
  BY <1>3, <1>4, Zenon DEF HeadInv, TailInv
<1>7. CASE is_current("Refresh", gen[c])
  <2> DEFINE ok == ans[c].status = "ok"
             page == ans[c].page
  <2>1. /\ resource' = [resource EXCEPT !["activity"] = IF ok THEN "Ready" ELSE "Failed"]
        /\ feed' = IF ok THEN apply_refreshed_activity_page(feed, page) ELSE feed
        /\ skipped' = IF ok THEN Skips(feed, page, skipped) ELSE skipped
        /\ top' = IF feed.items = {} /\ feed'.items # {} THEN Max(feed'.items) ELSE top
    BY <1>7, Zenon DEF PublishActivity
  <2>2. /\ resource'["activity"] = IF ok THEN "Ready" ELSE "Failed"
        /\ \A r \in Resource \ {"activity"} : resource'[r] = resource[r]
    BY <1>1, <2>1, Zenon DEF SlotTypes, Resource
  <2>3. RefreshInv(c)'
    BY <1>2, <1>3, <1>5, <2>2, Zenon DEF RefreshInv, is_current, Resource
  <2>4. LoadingHasOwner'
    BY <1>2, <1>5, <2>2, Zenon DEF LoadingHasOwner, Resource
  <2>5. active'["Refresh"] = gen'[c]
    BY <1>2, <1>7, Zenon DEF is_current
  <2>6. active'["Pagination"] = 0
    <3>1. 1 <= gen'[c] /\ gen'[c] \in Nat
      BY <1>4, FeedCalls, Zenon DEF SlotInv, Given, SlotTypes
    <3>2. active'["Refresh"] # 0
      BY <2>5, <3>1
    <3> QED
      BY <3>2, Zenon DEF SlotInv, Exclusion
  <2>7. Undisturbed /\ UndisturbedPages
    BY <1>4, <2>5, <2>6, Zenon DEF Undisturbed, UndisturbedPages
  <2>8. FeedInv'
    <3>1. chain \in Nat /\ top \in Nat /\ FeedAt(feed, chain) /\ FullBelow(feed, top)
          /\ Above(feed, skipped) /\ (feed.items # {} => WholeBut(feed, skipped))
      BY <1>5, Zenon DEF FeedInv
    <3>2. CASE ~ok
      <4>1. feed' = feed /\ skipped' = skipped
        BY <2>1, <3>2, Zenon
      <4>2. top' = top
        BY <2>1, <4>1, Zenon
      <4> QED
        BY <1>2, <1>5, <4>1, <4>2, Zenon DEF FeedInv
    <3>3. CASE ok
      <4>1. PICK n \in 0..chain :
              /\ page = PageAt(n, NoCursor)
              /\ feed.items # {} => /\ feed.cursor <= n
                                    /\ feed.cursor = 1 \/ feed.cursor + PageSize <= n + 1
        BY <1>2, <1>5, <1>7, Zenon DEF HeadInv
      <4>2. feed' = apply_refreshed_activity_page(feed, page)
        BY <2>1, <3>3, Zenon
      <4>3. CASE feed.items = {}
        <5>1. feed' = page
          BY <4>2, <4>3, Zenon DEF apply_refreshed_activity_page
        <5>2. FeedAt(page, chain) /\ (page.items # {} =>
                WholeBut(page, {}) /\ Max(page.items) \in Nat /\ FullBelow(page, Max(page.items)))
          BY <3>1, <4>1, Zenon DEF Merges, FirstPages
        <5>3. /\ page.items # {} => top' = Max(page.items)
              /\ page.items = {} => top' = top
          BY <2>1, <4>3, <5>1, Zenon
        <5>4. top' \in Nat /\ FullBelow(page, top')
          BY <3>1, <5>2, <5>3, Zenon DEF FullBelow
        <5>5. skipped' = {}
          BY <2>1, <3>1, <3>3, <4>3, Zenon DEF Skips, Above
        <5>6. Above(page, {})
          BY Zenon DEF Above
        <5> QED
          BY <1>2, <3>1, <5>1, <5>2, <5>4, <5>5, <5>6, Zenon DEF FeedInv
      <4>4. CASE feed.items # {}
        <5>1. /\ FeedAt(feed', chain) /\ FullBelow(feed', top)
              /\ Above(feed', Skips(feed, page, skipped))
              /\ WholeBut(feed', Skips(feed, page, skipped))
          <6>1. feed \in Feeds /\ feed' = WithHead(feed, n) /\ skipped \in SUBSET Visible
            BY <3>1, <4>1, <4>2, Zenon DEF FeedAt, WithHead, Above
          <6> QED
            BY <3>1, <4>1, <4>4, <6>1, Zenon DEF Merges, HeadMerges
        <5>2. top' = top
          BY <2>1, <4>4, Zenon
        <5>3. skipped' = Skips(feed, page, skipped)
          BY <2>1, <3>3, Zenon
        <5> QED
          BY <1>2, <3>1, <5>1, <5>2, <5>3, Zenon DEF FeedInv
      <4> QED
        BY <4>3, <4>4
    <3> QED
      BY <3>2, <3>3
  <2> QED
    BY <1>2, <1>3, <1>6, <2>3, <2>4, <2>7, <2>8, Together, Zenon
<1>8. CASE ~is_current("Refresh", gen[c])
  <2>1. UNCHANGED <<resource, feed, skipped, top>>
    BY <1>8, Zenon DEF PublishActivity
  <2>2. RefreshInv(c)' /\ LoadingHasOwner' /\ FeedInv'
    BY <1>2, <1>3, <1>5, <1>8, <2>1, Zenon
       DEF RefreshInv, LoadingHasOwner, FeedInv, is_current
  <2>3. Undisturbed /\ UndisturbedPages
    BY <1>2, <2>1, Zenon DEF Undisturbed, UndisturbedPages
  <2> QED
    BY <1>2, <1>3, <1>6, <2>2, <2>3, Together, Zenon
<1> QED
  BY <1>7, <1>8

\* A refresh that ends leaves nothing loading.
LEMMA RefreshFinishKeeps ==
  ASSUME SlotInv, SlotInv', ListInv, NEW c \in Calls, RefreshFinish(c)
  PROVE  ListInv'
<1>1. SlotTypes /\ Locals
  BY Zenon DEF SlotInv, ListInv
<1>2. /\ pc[c] = "finish" /\ chain' = chain /\ resource' = resource
      /\ feed' = feed /\ skipped' = skipped /\ top' = top
      /\ \E result : return(c, result)
  BY Zenon DEF RefreshFinish, snapshot, environment, history
<1>3. OnlyCall(c) /\ pc'[c] = "done"
  BY <1>1, <1>2, ReturnFrame, Zenon
<1>4. RefreshInv(c) /\ LoadingHasOwner /\ FeedInv
  BY Zenon DEF ListInv
<1>5. RefreshInv(c)' /\ HeadInv(c)' /\ TailInv(c)'
  BY <1>3, Zenon DEF RefreshInv, HeadInv, TailInv
<1>6. FeedInv'
  BY <1>2, <1>4, Zenon DEF FeedInv
<1>7. \/ active' = active
      \/ /\ is_current("Refresh", gen[c])
         /\ active' = [active EXCEPT !["Refresh"] = 0]
  BY Zenon DEF RefreshFinish
<1>8. \A f \in Family \ {"Refresh"} : active'[f] = active[f]
  BY <1>1, <1>7, Zenon DEF SlotTypes
<1>9. \/ active'["Refresh"] = active["Refresh"]
      \/ is_current("Refresh", gen[c]) /\ active'["Refresh"] = 0
  BY <1>1, <1>7, Zenon DEF SlotTypes, Family
<1>10. active'["Refresh"] = active["Refresh"] \/
         "Loading" \notin {resource["account"], resource["activity"]}
  BY <1>2, <1>4, <1>9, Zenon DEF RefreshInv
<1>11. LoadingHasOwner'
  BY <1>2, <1>4, <1>8, <1>10, Zenon DEF LoadingHasOwner, Family
<1>12. Undisturbed /\ UndisturbedPages
  BY <1>2, <1>8, <1>9, Zenon DEF Undisturbed, UndisturbedPages, Family
<1> QED
  BY <1>2, <1>3, <1>5, <1>6, <1>11, <1>12, Together, Zenon

\* A page load takes a free slot, with the cursor of the loaded list.
LEMMA PageStartsKeeps ==
  ASSUME SlotInv, SlotInv', ListInv, NEW c \in Calls, PageStarts(c)
  PROVE  ListInv'
<1>1. SlotTypes /\ Locals
  BY Zenon DEF SlotInv, ListInv
<1>2. /\ pc[c] = "idle" /\ Op[c] = "load_more_activity"
      /\ feed.cursor # NoCursor
      /\ feed' = feed /\ skipped' = skipped /\ top' = top /\ chain' = chain
      /\ resource' = [resource EXCEPT !["activity_pages"] = "Loading"]
      /\ active' = [active EXCEPT !["Pagination"] = generation'["Pagination"]]
      /\ take(c, "Pagination") /\ to(c, "waiting")
      /\ arg' = [arg EXCEPT ![c] = feed.cursor]
      /\ UNCHANGED <<ans, outcome>>
  BY Zenon DEF PageStarts, PageBegin, environment, history
<1>3. OnlyCall(c) /\ pc'[c] = "waiting"
  BY <1>1, <1>2, TakeFrame, Zenon
<1>4. /\ active'["Pagination"] = generation'["Pagination"]
      /\ \A f \in Family \ {"Pagination"} : active'[f] = active[f]
  BY <1>1, <1>2, Zenon DEF SlotTypes, Family
<1>5. gen'[c] = generation'["Pagination"]
  BY <1>1, <1>2, Zenon DEF take, SlotTypes
<1>6. /\ resource'["activity_pages"] = "Loading"
      /\ \A r \in Resource \ {"activity_pages"} : resource'[r] = resource[r]
  BY <1>1, <1>2, Zenon DEF SlotTypes, Resource
<1>7. Holds(c, "Pagination")' /\ "Pagination" \in Family
  BY <1>2, <1>3, FeedCalls, Zenon
<1>8. active'["Pagination"] # 0
  <2>1. 1 <= gen'[c] /\ gen'[c] \in Nat
    BY <1>7, Zenon DEF SlotInv, Given, SlotTypes
  <2> QED
    BY <1>4, <1>5, <2>1
<1>9. LoadingHasOwner'
  BY <1>4, <1>6, <1>8, Zenon DEF LoadingHasOwner, ListInv, Resource, Family
<1>10. FeedInv'
  BY <1>2, Zenon DEF FeedInv, ListInv
<1>11. arg'[c] = feed.cursor
  <2>1. DOMAIN arg = Calls
    BY <1>1, Zenon DEF Locals
  <2> QED
    BY <1>2, <2>1, Zenon
<1>12. RefreshInv(c)' /\ HeadInv(c)' /\ TailInv(c)'
  BY <1>2, <1>3, <1>11, Zenon DEF RefreshInv, HeadInv, TailInv
<1>13. ~Same(c)
  BY <1>2, <1>3, Zenon DEF Same
<1>14. Undisturbed /\ UndisturbedPages
  BY <1>2, <1>4, <1>5, <1>6, <1>7, <1>13, Zenon
     DEF Undisturbed, UndisturbedPages, Family, Resource
<1> QED
  BY <1>2, <1>3, <1>9, <1>10, <1>12, <1>14, Together, Zenon

\* The answer of a page load is a page below its cursor.
LEMMA PageAnswerKeeps ==
  ASSUME SlotInv, SlotInv', ListInv, NEW c \in Calls, PageAnswer(c)
  PROVE  ListInv'
<1>1. SlotTypes /\ Locals
  BY Zenon DEF SlotInv, ListInv
<1>2. /\ pc[c] = "waiting" /\ Op[c] = "load_more_activity"
      /\ feed' = feed /\ skipped' = skipped /\ top' = top /\ chain' = chain
      /\ resource' = resource /\ active' = active
      /\ to(c, "publish") /\ UNCHANGED <<gen, arg, outcome>>
  BY Zenon DEF PageAnswer, slots, snapshot, history
<1>3. PICK status \in {"ok", "error", "cancelled"} :
        ans' = [ans EXCEPT ![c] = Answer(status, FALSE, PageAt(chain, arg[c]))]
  BY Zenon DEF PageAnswer, PageAt
<1>4. OnlyCall(c)
  BY <1>1, <1>2, <1>3, Assigned, Zenon DEF to
<1>5. pc'[c] = "publish"
  BY <1>1, <1>2, Zenon DEF to, SlotTypes
<1>6. ans'[c] = Answer(status, FALSE, PageAt(chain, arg[c]))
  <2>1. DOMAIN ans = Calls
    BY <1>1, Zenon DEF Locals
  <2> QED
    BY <1>3, <2>1, Zenon
<1>7. ans'[c].page = PageAt(chain, arg[c])
  BY <1>6 DEF Answer
<1>8. RefreshInv(c)' /\ HeadInv(c)'
  BY <1>5, Zenon DEF RefreshInv, HeadInv
<1>9. TailInv(c)'
  <2>1. chain \in 0..chain'
    BY <1>2 DEF ListInv, FeedInv
  <2>2. TailInv(c) /\ feed.cursor <= chain
    BY Zenon DEF ListInv, FeedInv, FeedAt
  <2> QED
    BY <1>2, <1>7, <2>1, <2>2, Zenon DEF TailInv, is_current
<1>10. LoadingHasOwner' /\ FeedInv'
  BY <1>2, Zenon DEF LoadingHasOwner, FeedInv, ListInv
<1>11. Undisturbed /\ UndisturbedPages
  BY <1>2, Zenon DEF Undisturbed, UndisturbedPages
<1> QED
  BY <1>2, <1>4, <1>8, <1>9, <1>10, <1>11, Together, Zenon

\* A page that is current is merged below the loaded list.
LEMMA PageEndsKeeps ==
  ASSUME Merges, SlotInv, SlotInv', ListInv, NEW c \in Calls, PageEnds(c)
  PROVE  ListInv'
<1>1. SlotTypes /\ Locals
  BY Zenon DEF SlotInv, ListInv
<1>2. /\ pc[c] = "publish" /\ Op[c] = "load_more_activity"
      /\ is_current("Pagination", gen[c])
      /\ active' = [active EXCEPT !["Pagination"] = 0]
      /\ resource' = [resource EXCEPT !["activity_pages"] = PageResult(ans[c])[1]]
      /\ feed' = IF ans[c].status = "ok"
                 THEN apply_activity_page(feed, ans[c].page) ELSE feed
      /\ top' = IF feed.items = {} /\ feed'.items # {} THEN Max(feed'.items) ELSE top
      /\ skipped' = skipped /\ chain' = chain
      /\ \E result : return(c, result)
  BY Zenon DEF PageEnds, PagePublish, environment
<1>3. OnlyCall(c) /\ pc'[c] = "done"
  BY <1>1, <1>2, ReturnFrame, Zenon
<1>4. TailInv(c) /\ LoadingHasOwner /\ FeedInv
  BY Zenon DEF ListInv
<1>5. RefreshInv(c)' /\ HeadInv(c)' /\ TailInv(c)'
  BY <1>3, Zenon DEF RefreshInv, HeadInv, TailInv
<1>6. /\ active'["Pagination"] = 0
      /\ \A f \in Family \ {"Pagination"} : active'[f] = active[f]
  BY <1>1, <1>2, Zenon DEF SlotTypes, Family
<1>7. /\ resource'["activity_pages"] = PageResult(ans[c])[1]
      /\ \A r \in Resource \ {"activity_pages"} : resource'[r] = resource[r]
  BY <1>1, <1>2, Zenon DEF SlotTypes, Resource
<1>8. PageResult(ans[c])[1] # "Loading"
  BY DEF PageResult
<1>9. LoadingHasOwner'
  BY <1>4, <1>6, <1>7, <1>8, Zenon DEF LoadingHasOwner, Resource, Family
<1>10. active'["Refresh"] = 0
  <2>1. 1 <= gen[c] /\ gen[c] \in Nat
    BY <1>2, FeedCalls, Zenon DEF SlotInv, Given, SlotTypes
  <2>2. active["Pagination"] # 0
    BY <1>2, <2>1 DEF is_current
  <2> QED
    BY <1>6, <2>2, Zenon DEF SlotInv, Exclusion, Family
<1>11. Undisturbed /\ UndisturbedPages
  BY <1>6, <1>10, Zenon DEF Undisturbed, UndisturbedPages
<1>12. FeedInv'
  <2>1. chain \in Nat /\ top \in Nat /\ FeedAt(feed, chain) /\ FullBelow(feed, top)
        /\ Above(feed, skipped) /\ (feed.items # {} => WholeBut(feed, skipped))
    BY <1>4, Zenon DEF FeedInv
  <2>2. CASE ans[c].status # "ok"
    <3>1. feed' = feed
      BY <1>2, <2>2, Zenon
    <3>2. top' = top
      BY <1>2, <3>1, Zenon
    <3> QED
      BY <1>2, <1>4, <3>1, <3>2, Zenon DEF FeedInv
  <2>3. CASE ans[c].status = "ok"
    <3>1. PICK n \in 0..chain : feed.cursor <= n /\ ans[c].page = PageAt(n, feed.cursor)
      BY <1>2, <1>4, Zenon DEF TailInv
    <3>2. feed.cursor # NoCursor
      BY <1>2, <1>4, Zenon DEF TailInv
    <3>3. feed' = apply_activity_page(feed, PageAt(n, feed.cursor))
      BY <1>2, <2>3, <3>1, Zenon
    <3>4. /\ FeedAt(feed', chain) /\ top' \in Nat /\ FullBelow(feed', top')
          /\ Above(feed', skipped) /\ (feed'.items # {} => WholeBut(feed', skipped))
      <4>1. /\ feed \in Feeds /\ feed' = WithTail(feed, n) /\ top' = TopOf(feed, feed', top)
            /\ skipped \in SUBSET Visible
        BY <1>2, <2>1, <3>3, Zenon DEF FeedAt, WithTail, TopOf, Above
      <4> QED
        BY <2>1, <3>1, <3>2, <4>1, Zenon DEF Merges, TailMerges
    <3> QED
      BY <1>2, <2>1, <3>4, Zenon DEF FeedInv
  <2> QED
    BY <2>2, <2>3
<1> QED
  BY <1>2, <1>3, <1>5, <1>9, <1>11, <1>12, Together, Zenon

\* A shutdown empties every slot and leaves nothing loading.
LEMMA ShutsDownKeeps ==
  ASSUME SlotInv, SlotInv', ListInv, NEW c \in Calls, ShutsDown(c)
  PROVE  ListInv'
<1>1. SlotTypes /\ Locals
  BY Zenon DEF SlotInv, ListInv
<1>2. /\ return(c, "Ok") /\ active' = [f \in Family |-> 0] /\ resource' = shut_resources
      /\ feed' = feed /\ skipped' = skipped /\ top' = top /\ chain' = chain
  <2>1. return(c, "Ok") /\ active' = [f \in Family |-> 0] /\ resource' = shut_resources
    BY Zenon DEF ShutsDown, prepare_shutdown
  <2>2. feed' = feed /\ skipped' = skipped /\ top' = top /\ chain' = chain
    BY Zenon DEF ShutsDown, Shutdown, refuse, snapshot, environment, history
  <2> QED
    BY <2>1, <2>2, Zenon
<1>3. OnlyCall(c) /\ pc'[c] = "done"
  BY <1>1, <1>2, ReturnFrame, Zenon
<1>4. RefreshInv(c)' /\ HeadInv(c)' /\ TailInv(c)'
  BY <1>3, Zenon DEF RefreshInv, HeadInv, TailInv
<1>5. \A f \in Family : active'[f] = 0
  BY <1>2, Zenon
<1>6. /\ resource'["account"] = "Loading" =>
           resource["account"] = "Loading" /\ active["Refresh"] = 0
      /\ resource'["activity"] = "Loading" =>
           resource["activity"] = "Loading" /\ active["Refresh"] = 0
      /\ resource'["activity_pages"] = "Loading" =>
           resource["activity_pages"] = "Loading" /\ active["Pagination"] = 0
      /\ resource'["nfts"] = "Loading" =>
           resource["nfts"] = "Loading" /\ active["NftRefresh"] = 0
      /\ resource'["nft_pages"] = "Loading" =>
           resource["nft_pages"] = "Loading" /\ active["NftPagination"] = 0
  BY <1>2 DEF shut_resources, Resource
<1>7. LoadingHasOwner /\ FeedInv
  BY Zenon DEF ListInv
<1>8. LoadingHasOwner'
  BY <1>5, <1>6, <1>7, Zenon DEF LoadingHasOwner, Family
<1>9. FeedInv'
  BY <1>2, <1>7, Zenon DEF FeedInv
<1>10. Undisturbed /\ UndisturbedPages
  BY <1>5, Zenon DEF Undisturbed, UndisturbedPages, Family
<1> QED
  BY <1>2, <1>3, <1>4, <1>8, <1>9, <1>10, Together, Zenon

\* The invariant after a step that moves no call.
LEMMA StillTogether ==
  ASSUME SlotInv, SlotInv', ListInv, UNCHANGED call, LoadingHasOwner', FeedInv',
         chain <= chain', Undisturbed, UndisturbedPages
  PROVE  ListInv'
<1>1. chain' \in Nat
  BY Zenon DEF FeedInv
<1>2. Locals'
  BY Zenon DEF Locals, ListInv, call
<1>3. ASSUME NEW d \in Calls PROVE RefreshInv(d)' /\ HeadInv(d)' /\ TailInv(d)'
  <2>1. Same(d)
    BY Zenon DEF Same, call
  <2> QED
    BY <1>1, <2>1, OthersKeep, Zenon
<1> QED
  BY <1>2, <1>3, Zenon DEF ListInv

\* The two cancellations: the slot is emptied and what was loading is idle.
LEMMA CancelKeeps ==
  ASSUME SlotInv, SlotInv', ListInv, cancel_refresh \/ cancel_load_more_activity
  PROVE  ListInv'
<1>1. SlotTypes /\ LoadingHasOwner /\ FeedInv
  BY Zenon DEF SlotInv, ListInv
<1>2. /\ UNCHANGED call /\ feed' = feed /\ skipped' = skipped /\ top' = top
      /\ chain' = chain
  BY Zenon DEF cancel_refresh, cancel_load_more_activity, history
<1>3. chain <= chain' /\ FeedInv'
  <2>1. FeedInv' /\ chain \in Nat
    BY <1>1, <1>2, Zenon DEF FeedInv
  <2> QED
    BY <1>2, <2>1
<1>4. CASE cancel_refresh
  <2>1. /\ active' = [active EXCEPT !["Refresh"] = 0]
        /\ resource' = mark_loading_cancelled({"account", "activity"})
    BY <1>4, Zenon DEF cancel_refresh
  <2>2. /\ active'["Refresh"] = 0
        /\ \A f \in Family \ {"Refresh"} : active'[f] = active[f]
    BY <1>1, <2>1, Zenon DEF SlotTypes, Family
  <2>3. /\ resource'["account"] # "Loading" /\ resource'["activity"] # "Loading"
        /\ resource'["activity_pages"] = resource["activity_pages"]
        /\ resource'["nfts"] = resource["nfts"]
        /\ resource'["nft_pages"] = resource["nft_pages"]
    BY <2>1 DEF mark_loading_cancelled, Resource
  <2>4. LoadingHasOwner'
    BY <1>1, <2>2, <2>3, Zenon DEF LoadingHasOwner, Family
  <2>5. Undisturbed /\ UndisturbedPages
    BY <1>2, <2>2, Zenon DEF Undisturbed, UndisturbedPages, Family
  <2> QED
    BY <1>2, <1>3, <2>4, <2>5, StillTogether, Zenon
<1>5. CASE cancel_load_more_activity
  <2>1. /\ active' = [active EXCEPT !["Pagination"] = 0]
        /\ resource' = [resource EXCEPT !["activity_pages"] = "Idle"]
    BY <1>5, Zenon DEF cancel_load_more_activity
  <2>2. /\ active'["Pagination"] = 0
        /\ \A f \in Family \ {"Pagination"} : active'[f] = active[f]
    BY <1>1, <2>1, Zenon DEF SlotTypes, Family
  <2>3. /\ resource'["activity_pages"] = "Idle"
        /\ \A r \in Resource \ {"activity_pages"} : resource'[r] = resource[r]
    BY <1>1, <2>1, Zenon DEF SlotTypes, Resource
  <2>4. LoadingHasOwner'
    BY <1>1, <2>2, <2>3, Zenon DEF LoadingHasOwner, Family, Resource
  <2>5. Undisturbed /\ UndisturbedPages
    BY <1>2, <2>2, <2>3, Zenon DEF Undisturbed, UndisturbedPages, Family, Resource
  <2> QED
    BY <1>2, <1>3, <2>4, <2>5, StillTogether, Zenon
<1> QED
  BY <1>4, <1>5

\* A new transaction of the wallet is newer than the loaded list.
LEMMA TransactKeeps ==
  ASSUME Configured, SlotInv, SlotInv', ListInv, Transact
  PROVE  ListInv'
<1>1. LoadingHasOwner /\ FeedInv
  BY Zenon DEF ListInv
<1>2. /\ UNCHANGED call /\ UNCHANGED <<feed, skipped, top, active, resource>>
      /\ chain' = chain + 1
  BY Zenon DEF Transact, slots, snapshot, history
<1>3. chain \in Nat /\ chain' \in Nat /\ chain <= chain'
  BY <1>1, <1>2 DEF FeedInv
<1>4. FeedAt(feed, chain')
  <2>1. FeedAt(feed, chain)
    BY <1>1, Zenon DEF FeedInv
  <2>2. feed.cursor \in Nat
    BY <2>1 DEF FeedAt, Feeds
  <2>3. feed.cursor <= chain'
    BY <1>2, <1>3, <2>1, <2>2 DEF FeedAt
  <2>4. feed.cursor + PageSize <= chain + 1 => feed.cursor + PageSize <= chain' + 1
    BY <1>2, <1>3, <2>2 DEF Configured
  <2>5. \A t \in Visible : t <= chain => t <= chain'
    BY <1>2, <1>3 DEF Configured
  <2>6. VisibleIn(feed.cursor, chain) \subseteq VisibleIn(feed.cursor, chain')
    BY <2>5, Zenon DEF VisibleIn
  <2> QED
    BY <2>1, <2>3, <2>4, <2>6, Zenon DEF FeedAt
<1>5. FeedInv' /\ LoadingHasOwner'
  BY <1>1, <1>2, <1>3, <1>4, Zenon DEF FeedInv, LoadingHasOwner
<1>6. Undisturbed /\ UndisturbedPages
  BY <1>2, Zenon DEF Undisturbed, UndisturbedPages
<1> QED
  BY <1>2, <1>3, <1>5, <1>6, StillTogether, Zenon

\* A new client shows an empty list and loads nothing.
LEMMA ListInit ==
  ASSUME Configured, Init
  PROVE  ListInv
<1>1. Locals /\ pc = [c \in Calls |-> "idle"]
  BY Zenon DEF Init, Locals
<1>2. \A r \in Resource, f \in Family : resource[r] = "Idle" /\ active[f] = 0
  BY Zenon DEF Init
<1>3. LoadingHasOwner
  BY <1>2 DEF LoadingHasOwner, Resource, Family
<1>4. \A c \in Calls : RefreshInv(c) /\ HeadInv(c) /\ TailInv(c)
  BY <1>1, Zenon DEF RefreshInv, HeadInv, TailInv
<1>5. FeedInv
  <2>1. feed = EmptyFeed /\ chain \in 0..MaxTx /\ top = 0 /\ skipped = {}
    BY Zenon DEF Init
  <2>2. chain \in Nat /\ top \in Nat /\ 0 <= chain
    BY <2>1 DEF Configured
  <2>3. feed.items = {} /\ feed.cursor = 0 /\ feed.has_more = FALSE
    BY <2>1 DEF EmptyFeed, NoCursor
  <2>4. FeedAt(feed, chain)
    BY <2>1, <2>2 DEF FeedAt, Feeds, EmptyFeed, NoCursor
  <2>5. Above(feed, skipped)
    BY <2>1, Zenon DEF Above
  <2> QED
    BY <2>2, <2>3, <2>4, <2>5, Zenon DEF FeedInv, FullBelow
<1> QED
  BY <1>1, <1>3, <1>4, <1>5, Zenon DEF ListInv

\* The induction step: every step of the client keeps both invariants.
LEMMA ClientKeeps ==
  ASSUME Configured, Merges, SlotInv, ListInv, [Next]_vars
  PROVE  SlotInv' /\ ListInv'
<1>1. SlotInv'
  BY SlotsKeep, Zenon
<1>2. Aside \/ FeedStep
  BY Classified, Zenon DEF ListInv
<1>3. CASE Aside
  BY <1>1, <1>3, AsideKeeps, Zenon
<1>4. CASE FeedStep
  <2>1. ASSUME NEW c \in Calls,
               RefreshBegin(c) \/ RefreshAnswer(c) \/ PublishAccount(c) \/ PublishActivity(c)
        PROVE  ListInv'
    BY <1>1, <2>1, RefreshBeginKeeps, RefreshAnswerKeeps, PublishAccountKeeps,
       PublishActivityKeeps, Zenon
  <2>2. ASSUME NEW c \in Calls,
               \/ RefreshFinish(c) \/ PageStarts(c) \/ PageAnswer(c) \/ PageEnds(c)
               \/ ShutsDown(c)
        PROVE  ListInv'
    BY <1>1, <2>2, RefreshFinishKeeps, PageStartsKeeps, PageAnswerKeeps, PageEndsKeeps,
       ShutsDownKeeps, Zenon
  <2>3. ASSUME cancel_refresh \/ cancel_load_more_activity \/ Transact PROVE ListInv'
    BY <1>1, <2>3, CancelKeeps, TransactKeeps, Zenon
  <2> QED
    BY <1>1, <1>4, <2>1, <2>2, <2>3, Zenon DEF FeedStep
<1> QED
  BY <1>1, <1>2, <1>3, <1>4, Zenon

\* Only refresh itself takes a call from its last stretch to its end.
LEMMA FinishStep ==
  ASSUME SlotTypes, Locals, NEW c \in Calls, pc[c] = "finish", pc'[c] = "done", [Next]_vars
  PROVE  RefreshFinish(c)
<1>1. ASSUME NEW d \in Calls, \E x : pc' = [pc EXCEPT ![d] = x] PROVE d = c
  BY <1>1, Zenon DEF SlotTypes
<1>2. ASSUME NEW d \in Calls, Begin(d) \/ Continue(d)
      PROVE  (\E x : pc' = [pc EXCEPT ![d] = x]) /\ (pc[d] = "finish" => RefreshFinish(d))
  <2>1. ASSUME SweepBegin(d) \/ PageBegin(d) \/ NftRefreshBegin(d) \/ NftPageBegin(d)
        PROVE  (\E x : pc' = [pc EXCEPT ![d] = x]) /\ pc[d] # "finish"
    BY <2>1, Zenon DEF SweepBegin, PageBegin, NftRefreshBegin, NftPageBegin, to, refuse, return
  <2>2. ASSUME PreviewBegin(d) \/ PrepareBegin(d) \/ SendBegin(d) \/ EnsureRunning(d)
        PROVE  (\E x : pc' = [pc EXCEPT ![d] = x]) /\ pc[d] # "finish"
    BY <2>2, Zenon DEF PreviewBegin, PrepareBegin, SendBegin, EnsureRunning, to, refuse, return
  <2>3. ASSUME Shutdown(d)
        PROVE  (\E x : pc' = [pc EXCEPT ![d] = x]) /\ pc[d] # "finish"
    BY <2>3, Zenon DEF Shutdown, to, refuse, return
  <2>4. ASSUME \/ SweepEnd(d) \/ RefreshBegin(d) \/ RefreshAnswer(d) \/ PublishAccount(d)
               \/ PublishActivity(d)
        PROVE  (\E x : pc' = [pc EXCEPT ![d] = x]) /\ pc[d] # "finish"
    BY <2>4, Zenon DEF SweepEnd, RefreshBegin, RefreshAnswer, PublishAccount,
       PublishActivity, to
  <2>5. ASSUME \/ PageAnswer(d) \/ PagePublish(d) \/ NftAnswer(d) \/ NftRefreshPublish(d)
               \/ NftPagePublish(d)
        PROVE  (\E x : pc' = [pc EXCEPT ![d] = x]) /\ pc[d] # "finish"
    BY <2>5, Zenon DEF PageAnswer, PagePublish, NftAnswer, NftRefreshPublish,
       NftPagePublish, NftPublish, to, refuse, return
  <2>6. ASSUME PreviewAnswer(d) \/ PrepareAnswer(d)
        PROVE  (\E x : pc' = [pc EXCEPT ![d] = x]) /\ pc[d] # "finish"
    BY <2>6, Zenon DEF PreviewAnswer, PrepareAnswer, to, refuse, return
  <2>7. ASSUME WaitBegin(d) \/ WaitWake(d) \/ SendCommit(d) \/ SendEnd(d)
        PROVE  (\E x : pc' = [pc EXCEPT ![d] = x]) /\ pc[d] # "finish"
    BY <2>7, Zenon DEF WaitBegin, WaitWake, SendCommit, SendEnd, to, refuse, return
  <2>8. ASSUME RefreshFinish(d) PROVE \E x : pc' = [pc EXCEPT ![d] = x]
    BY <2>8, Zenon DEF RefreshFinish, to, return
  <2> QED
    BY <1>2, <2>1, <2>2, <2>3, <2>4, <2>5, <2>6, <2>7, <2>8, Zenon DEF Begin, Continue
<1>3. ASSUME Cancel \/ Environment \/ UNCHANGED vars PROVE pc' = pc
  BY <1>3, Zenon DEF Cancel, cancel_refresh, cancel_load_more_activity, cancel_refresh_nfts,
     cancel_load_more_nfts, cancel_nfts, cancel_send_preview, cancel_send, Environment,
     Transact, NftUse, NftLeave, vars, call
<1> QED
  BY <1>1, <1>2, <1>3, Zenon DEF Next
=============================================================================
