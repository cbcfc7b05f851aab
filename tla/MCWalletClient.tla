--------------------------- MODULE MCWalletClient ---------------------------
(***************************************************************************)
(* Small instances of WalletClient.  A behavior follows one plan: which    *)
(* calls the host makes, and how many transactions, owned NFTs, changes of *)
(* the NFT list and failures there are.                                    *)
(***************************************************************************)
EXTENDS WalletClient, TLC

CONSTANTS a, b, d

VARIABLE plan

\* Nothing tells one NFT from another.
Symmetry == Permutations({a, b, d})

MCOp ==
  [refresh |-> "refresh", refresh2 |-> "refresh",
   page |-> "load_more_activity", page2 |-> "load_more_activity",
   nfts |-> "refresh_nfts", nfts2 |-> "refresh_nfts",
   nftpage |-> "load_more_nfts", nftpage2 |-> "load_more_nfts",
   preview |-> "preview", prepare |-> "prepare_transfer", send |-> "send",
   shutdown |-> "shutdown"]

MCCalls == DOMAIN MCOp

\* Transaction 3 moves no value.
MCVisible == (1..MaxTx) \ {3}

Plan(calls, transactions, nfts_, moves, failures) ==
  [calls |-> calls, transactions |-> transactions, nfts |-> nfts_, moves |-> moves,
   failures |-> failures]

\* Two refreshes and two older pages over a chain that grows; two refreshes one
\* request of which fails.
FeedPlans ==
  {Plan({"refresh", "refresh2", "page", "page2"}, 4, 0, 0, 0),
   Plan({"refresh", "refresh2"}, 1, 0, 0, 1)}

\* Two refreshes and two further pages of an NFT list that changes once, and two
\* refreshes and a page of one that changes twice.
NftPlans ==
  {Plan({"nfts", "nfts2", "nftpage", "nftpage2"}, 0, 3, 1, 0),
   Plan({"nfts", "nfts2", "nftpage"}, 0, 3, 2, 0)}

\* One call of every family with a slot of its own, and the end of the client;
\* a failure of the ones that use the slots of a payment, and of those of reads.
SlotPlans ==
  {Plan({"refresh", "preview", "prepare", "send", "shutdown"}, 0, 0, 0, 0),
   Plan({"preview", "prepare", "send", "shutdown"}, 0, 0, 0, 1),
   Plan({"refresh", "preview", "send", "shutdown"}, 0, 0, 0, 1)}

\* Every call that shows a loading state, with a failure or the end of the client.
LoadingPlans ==
  {Plan({"refresh", "page", "nfts", "nftpage"}, 2, 1, 0, 1),
   Plan({"refresh", "page", "nfts", "nftpage", "shutdown"}, 2, 1, 0, 0)}

Plans == FeedPlans \cup NftPlans \cup SlotPlans \cup LoadingPlans

\* Of two calls of one operation, which are interchangeable, this one is first.
First ==
  [refresh2 |-> "refresh", page2 |-> "page", nfts2 |-> "nfts", nftpage2 |-> "nftpage"]

Within ==
  chain <= plan.transactions /\ Cardinality(Range(owned)) <= plan.nfts

\* The chain, the NFT list and the failures stay within the plan, and of two
\* interchangeable calls the first is made first.
Planned ==
  /\ UNCHANGED plan
  /\ \A c \in DOMAIN First : pc'[First[c]] = "idle" => pc'[c] = "idle"
  /\ Within' /\ changes' <= plan.moves /\ faults' <= plan.failures

PlannedInit == Init /\ plan \in Plans /\ Within

\* The host makes the calls of the plan alone.
PlannedNext ==
  /\ (\E c \in plan.calls : Begin(c) \/ Continue(c)) \/ Cancel \/ Environment
  /\ Planned

PlannedSpec == PlannedInit /\ [][PlannedNext]_<<vars, plan>>
=============================================================================
