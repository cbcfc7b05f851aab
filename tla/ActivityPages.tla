--------------------------- MODULE ActivityPages ----------------------------
(***************************************************************************)
(* The activity list of src/engine/activity.rs: how a refreshed first page *)
(* and an older page are merged into the list that is already loaded.      *)
(*                                                                         *)
(* A transaction is its logical time, a positive natural; the chain is the *)
(* set 1..n.  The list is a set: activity_record_order is a total order,   *)
(* so the sorted list is determined by its elements.  Transactions outside *)
(* Visible move no value and yield no activity item, but they do take part *)
(* in the cursor.                                                          *)
(***************************************************************************)
EXTENDS Naturals, FiniteSetsExt

CONSTANTS PageSize,  \* the `limit` of getTransactions, 10 in the code
          Visible    \* the transactions that yield an activity item

\* The absence of a cursor.
NoCursor == 0

\* A feed: the loaded items, the cursor of the next older page, and has_more.
EmptyFeed == [items |-> {}, cursor |-> NoCursor, has_more |-> FALSE]

\* The provider's answer: the newest transactions at or below the cursor,
\* which is itself part of the page.
getTransactions(chain, from) ==
  LET older == {t \in chain : from = NoCursor \/ t <= from}
  IN {t \in older : Cardinality({u \in older : u >= t}) <= PageSize}

\* Mutant: the visible transactions are counted, not the raw ones.
parse_activity_visible(raw) ==
  [items |-> raw \cap Visible,
   cursor |-> IF raw = {} THEN NoCursor ELSE Min(raw),
   has_more |-> Cardinality(raw \cap Visible) >= PageSize]

\* The cursor comes from the oldest raw transaction, visible or not.
parse_activity(raw) ==
  [items |-> raw \cap Visible,
   cursor |-> IF raw = {} THEN NoCursor ELSE Min(raw),
   has_more |-> Cardinality(raw) >= PageSize]

\* An older page is merged only when its cursor is strictly older.
apply_activity_page(feed, page) ==
  IF feed.cursor # NoCursor /\ page.cursor # NoCursor
     /\ page.cursor < feed.cursor
  THEN [items |-> feed.items \cup page.items, cursor |-> page.cursor,
        has_more |-> page.has_more]
  ELSE [feed EXCEPT !.has_more = FALSE]

\* A refreshed head is merged into the list; the deepest cursor is kept.
apply_refreshed_activity_page(feed, page) ==
  IF feed.items = {} THEN page
  ELSE [feed EXCEPT !.items = feed.items \cup page.items]

\* What is missing from the list above its cursor, when s was missing and this
\* page is merged: a refreshed page shorter than what is new leaves the
\* transactions between the list and itself out.
Skips(feed, page, s) ==
  (s \ page.items)
    \cup {t \in Visible : feed.items # {} /\ Max(feed.items) < t /\ t < page.cursor}

-----------------------------------------------------------------------------
(* What the merges promise of any pages.                                  *)

\* A page has at least two transactions (10 in the code), and logical times are
\* positive.
Paged == PageSize \in Nat /\ PageSize > 1 /\ Visible \subseteq Nat \ {0}

\* A page of the provider, read when the chain has n transactions.
PageAt(n, from) == parse_activity(getTransactions(1..n, from))

\* The visible transactions from the one time to the other.
VisibleIn(from, upto) == {t \in Visible : from <= t /\ t <= upto}

Feeds == [items : SUBSET Visible, cursor : Nat, has_more : BOOLEAN]

\* A feed: no item is older than its cursor, which is the oldest transaction
\* or leaves a whole page above it.
FeedAt(f, n) ==
  /\ f \in Feeds
  /\ f.items \subseteq VisibleIn(f.cursor, n) /\ f.cursor <= n
  /\ f.items # {} => f.cursor # NoCursor
  /\ f.cursor # NoCursor =>
       /\ f.cursor = 1 \/ f.cursor + PageSize <= n + 1
       /\ ~f.has_more => f.cursor = 1

\* Below t, the feed has everything down to its cursor.
FullBelow(f, t) == f.items # {} => VisibleIn(f.cursor, t) \subseteq f.items

\* The feed has everything from its cursor to its newest item but s.
WholeBut(f, s) == f.items = VisibleIn(f.cursor, Max(f.items)) \ s

\* What a feed lacks is newer than its cursor.
Above(f, s) ==
  /\ s \subseteq Visible /\ \A t \in s : f.cursor < t
  /\ f.items = {} => s = {}

\* What the invariant needs of the merges: a first page is a whole feed,
FirstPages ==
  \A n \in Nat : \A m \in 0..n :
    /\ FeedAt(PageAt(m, NoCursor), n)
    /\ PageAt(m, NoCursor).items # {} =>
         /\ WholeBut(PageAt(m, NoCursor), {}) /\ Max(PageAt(m, NoCursor).items) \in Nat
         /\ FullBelow(PageAt(m, NoCursor), Max(PageAt(m, NoCursor).items))

\* a refreshed page, read when the chain had m transactions, adds what it has and
\* leaves out what is between,
WithHead(f, m) == apply_refreshed_activity_page(f, PageAt(m, NoCursor))

HeadMerges ==
  \A f \in Feeds, n \in Nat, t \in Nat, s \in SUBSET Visible : \A m \in 0..n :
    /\ FeedAt(f, n) /\ FullBelow(f, t) /\ f.items # {} /\ f.cursor <= m
    /\ Above(f, s) /\ WholeBut(f, s)
    /\ f.cursor = 1 \/ f.cursor + PageSize <= m + 1
    => /\ FeedAt(WithHead(f, m), n) /\ FullBelow(WithHead(f, m), t)
       /\ Above(WithHead(f, m), Skips(f, PageAt(m, NoCursor), s))
       /\ WholeBut(WithHead(f, m), Skips(f, PageAt(m, NoCursor), s))

\* and an older page leaves nothing out.
WithTail(f, m) == apply_activity_page(f, PageAt(m, f.cursor))

TopOf(f, g, t) == IF f.items = {} /\ g.items # {} THEN Max(g.items) ELSE t

TailMerges ==
  \A f \in Feeds, n \in Nat, t \in Nat, s \in SUBSET Visible : \A m \in 0..n :
    /\ FeedAt(f, n) /\ FullBelow(f, t) /\ f.cursor # NoCursor /\ f.cursor <= m
    /\ Above(f, s) /\ (f.items # {} => WholeBut(f, s))
    => /\ FeedAt(WithTail(f, m), n) /\ TopOf(f, WithTail(f, m), t) \in Nat
       /\ FullBelow(WithTail(f, m), TopOf(f, WithTail(f, m), t))
       /\ Above(WithTail(f, m), s)
       /\ WithTail(f, m).items # {} => WholeBut(WithTail(f, m), s)

Merges == FirstPages /\ HeadMerges /\ TailMerges
=============================================================================
