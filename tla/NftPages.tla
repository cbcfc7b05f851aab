------------------------------ MODULE NftPages ------------------------------
(***************************************************************************)
(* The NFT list of src/engine/nft.rs: pages by offset into a list that the *)
(* provider keeps sorted by last transaction, newest first.  An NFT is its *)
(* address.                                                                *)
(***************************************************************************)
EXTENDS Naturals, Sequences, Functions

CONSTANT NftPageSize  \* the `limit` of nft/items, 60 in the code

EmptyNfts == [items |-> <<>>, offset |-> 0, has_more |-> FALSE]

\* The provider's answer: the rows from the offset on, at most a page of them.
nft_items(owned, offset) ==
  SubSeq(owned, offset + 1,
         IF offset + NftPageSize < Len(owned)
         THEN offset + NftPageSize ELSE Len(owned))

\* has_more counts the raw rows, before duplicates are removed.
parse_nft_page(rows) ==
  [items |-> rows, raw_count |-> Len(rows),
   has_more |-> Len(rows) >= NftPageSize]

\* `seen.insert(address)` of the two merges: the first row of an address stays.
AppendUnseen(items, item) ==
  IF item \in Range(items) THEN items ELSE Append(items, item)

\* The rows are looked at one by one, in the order of the page.
AppendRows(items, rows) ==
  LET upto[i \in 0..Len(rows)] ==
        IF i = 0 THEN items ELSE AppendUnseen(upto[i - 1], rows[i])
  IN upto[Len(rows)]

deduplicate_nfts(items) == AppendRows(<<>>, items)

apply_refreshed_nft_page(page) ==
  [items |-> deduplicate_nfts(page.items), offset |-> page.raw_count,
   has_more |-> page.has_more]

\* Mutant: the rows of the page are appended without looking for duplicates.
apply_nft_page_blindly(nfts, page) ==
  [items |-> nfts.items \o page.items,
   offset |-> nfts.offset + page.raw_count, has_more |-> page.has_more]

\* The offset advances by raw rows, not by the rows that were new.
apply_nft_page(nfts, page) ==
  [items |-> AppendRows(nfts.items, page.items),
   offset |-> nfts.offset + page.raw_count, has_more |-> page.has_more]

\* What the merge of a page keeps and adds, for every page of NFTs in Items.
RowsMerge(Items) ==
  \A items, rows \in Seq(Items) :
    IsInjective(items) =>
      LET t == AppendRows(items, rows) IN
      t \in Seq(Items) /\ IsInjective(t) /\ Range(t) = Range(items) \cup Range(rows)
=============================================================================
