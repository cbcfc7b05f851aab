------------------------- MODULE WalletClientPages --------------------------
(***************************************************************************)
(* What a client makes of the pages of the provider: the merges of the     *)
(* activity feed, for every page size and every chain, and the NFT list,   *)
(* against a list of the provider that moves between the pages.            *)
(***************************************************************************)
EXTENDS WalletClientSlots

-----------------------------------------------------------------------------
(* The pages of the provider.                                              *)

\* The newest transaction that a request from `from` can see, and the oldest
\* one of its page.
Newest(n, from) == IF from = NoCursor THEN n ELSE from
Oldest(m) == IF m > PageSize THEN m - PageSize + 1 ELSE 1

\* What a page of the provider is.
PageShapes ==
  \A n \in Nat : \A from \in 0..n :
    LET m == Newest(n, from) IN
    /\ m = 0 => PageAt(n, from) = [items |-> {}, cursor |-> NoCursor, has_more |-> FALSE]
    /\ m # 0 => PageAt(n, from) = [items |-> VisibleIn(Oldest(m), m),
                                   cursor |-> Oldest(m), has_more |-> m >= PageSize]

\* A non-empty bounded set of logical times has a newest member.
NewestExists ==
  \A n \in Nat, S \in SUBSET Nat :
    S # {} /\ (\A x \in S : x <= n) => Max(S) \in S /\ \A x \in S : x <= Max(S)

-----------------------------------------------------------------------------
(* How pages are merged.                                                   *)

\* The shape of the page of a whole chain and of a request at a cursor.
LEMMA PageFacts ==
  ASSUME Paged, PageShapes, NewestExists, NEW n \in Nat, NEW from \in 0..n, Newest(n, from) # 0
  PROVE  LET p == PageAt(n, from)
             m == Newest(n, from) IN
         /\ p \in Feeds
         /\ p.items = VisibleIn(p.cursor, m) /\ p.cursor = Oldest(m)
         /\ p.has_more = (m >= PageSize)
         /\ 1 <= p.cursor /\ p.cursor <= m /\ m \in Nat
         /\ p.cursor = 1 \/ p.cursor + PageSize = m + 1
         /\ ~p.has_more => p.cursor = 1
<1> DEFINE p == PageAt(n, from)
           m == Newest(n, from)
<1>1. m \in Nat /\ PageSize \in Nat /\ PageSize > 1
  BY DEF Newest, NoCursor, Paged
<1>2. p = [items |-> VisibleIn(Oldest(m), m), cursor |-> Oldest(m), has_more |-> m >= PageSize]
  BY Zenon DEF PageShapes
<1> HIDE DEF p, m
<1>3. /\ p.items = VisibleIn(Oldest(m), m) /\ p.cursor = Oldest(m)
      /\ p.has_more = (m >= PageSize)
  BY <1>2, Zenon
<1>4. m # 0
  BY Zenon DEF m
<1>5. /\ Oldest(m) \in Nat /\ 1 <= Oldest(m) /\ Oldest(m) <= m
      /\ Oldest(m) = 1 \/ Oldest(m) + PageSize = m + 1
      /\ ~(m >= PageSize) => Oldest(m) = 1
  BY <1>1, <1>4 DEF Oldest
<1>6. VisibleIn(Oldest(m), m) \in SUBSET Visible /\ (m >= PageSize) \in BOOLEAN
  BY <1>1 DEF VisibleIn
<1>7. p \in Feeds
  BY <1>2, <1>5, <1>6 DEF Feeds
<1> QED
  BY <1>1, <1>3, <1>5, <1>7, Zenon DEF p, m

\* An empty chain has an empty page.
LEMMA EmptyPage ==
  ASSUME Paged, PageShapes, NewestExists
  PROVE  PageAt(0, NoCursor) = EmptyFeed
<1>1. 0 \in Nat /\ NoCursor \in 0..0 /\ Newest(0, NoCursor) = 0
  BY DEF NoCursor, Newest
<1> QED
  BY <1>1, Zenon DEF PageShapes, EmptyFeed

\* A list that runs from its cursor to m, but for s, runs to its newest item.
LEMMA IntervalIsWhole ==
  ASSUME Paged, PageShapes, NewestExists, NEW f, NEW s, NEW m \in Nat, f.cursor \in Nat,
         f.items # {}, f.items = VisibleIn(f.cursor, m) \ s
  PROVE  WholeBut(f, s) /\ Max(f.items) \in Nat
<1>1. Visible \subseteq Nat
  BY Zenon DEF Paged
<1>2. f.items \in SUBSET Nat /\ \A x \in f.items : x <= m
  BY <1>1, Zenon DEF VisibleIn
<1>3. Max(f.items) \in f.items /\ \A x \in f.items : x <= Max(f.items)
  BY <1>2, Zenon DEF NewestExists
<1>4. Max(f.items) \in Nat /\ Max(f.items) <= m
  BY <1>2, <1>3, Zenon
<1>5. ASSUME NEW x \in Visible, x <= Max(f.items) PROVE x <= m
  <2>1. x \in Nat
    BY <1>1, Zenon
  <2> QED
    BY <1>4, <1>5, <2>1
<1>6. f.items = VisibleIn(f.cursor, Max(f.items)) \ s
  BY <1>3, <1>5, Zenon DEF VisibleIn
<1> QED
  BY <1>4, <1>6, Zenon DEF WholeBut

\* A list that runs from its cursor to m has all of it.
LEMMA IntervalIsFull ==
  ASSUME Paged, PageShapes, NewestExists, NEW f, NEW m \in Nat, f.cursor \in Nat, f.items # {},
         f.items = VisibleIn(f.cursor, m)
  PROVE  WholeBut(f, {}) /\ Max(f.items) \in Nat /\ FullBelow(f, Max(f.items))
<1>1. f.items = VisibleIn(f.cursor, m) \ {}
  BY Zenon
<1>2. WholeBut(f, {}) /\ Max(f.items) \in Nat
  BY <1>1, IntervalIsWhole, Zenon
<1> QED
  BY <1>2, Zenon DEF WholeBut, FullBelow

\* The first page that is loaded is a feed of its own.
LEMMA FirstPage ==
  ASSUME Paged, PageShapes, NewestExists, NEW n \in Nat, NEW m \in 0..n
  PROVE  LET p == PageAt(m, NoCursor) IN
         /\ FeedAt(p, n)
         /\ p.items # {} =>
              WholeBut(p, {}) /\ Max(p.items) \in Nat /\ FullBelow(p, Max(p.items))
<1> DEFINE p == PageAt(m, NoCursor)
<1>1. CASE m = 0
  <2>1. p = EmptyFeed
    BY <1>1, EmptyPage, Zenon
  <2>2. FeedAt(EmptyFeed, n)
    BY DEF FeedAt, EmptyFeed, NoCursor, VisibleIn, Feeds
  <2>3. EmptyFeed.items = {}
    BY Zenon DEF EmptyFeed
  <2> QED
    BY <2>1, <2>2, <2>3, Zenon
<1>2. CASE m # 0
  <2>1. m \in Nat /\ NoCursor \in 0..m /\ Newest(m, NoCursor) = m
    BY DEF NoCursor, Newest
  <2>2. /\ p \in Feeds
        /\ p.items = VisibleIn(p.cursor, m)
        /\ 1 <= p.cursor /\ p.cursor <= m
        /\ p.cursor = 1 \/ p.cursor + PageSize = m + 1
        /\ ~p.has_more => p.cursor = 1
    BY <1>2, <2>1, PageFacts, Zenon
  <2> HIDE DEF p
  <2>3. p.cursor \in Nat /\ PageSize \in Nat /\ Visible \subseteq Nat
    BY <2>2 DEF Paged, Feeds
  <2>4. p.items \subseteq VisibleIn(p.cursor, n)
    <3>1. \A x \in Visible : x <= m => x <= n
      BY <2>1, <2>3
    <3> QED
      BY <2>2, <3>1, Zenon DEF VisibleIn
  <2>5. p.cursor <= n /\ (p.cursor = 1 \/ p.cursor + PageSize <= n + 1)
        /\ p.cursor # NoCursor
    BY <2>1, <2>2, <2>3 DEF NoCursor
  <2>6. FeedAt(p, n)
    BY <2>2, <2>4, <2>5, Zenon DEF FeedAt
  <2>7. p.items # {} => WholeBut(p, {}) /\ Max(p.items) \in Nat /\ FullBelow(p, Max(p.items))
    BY <2>1, <2>2, <2>3, IntervalIsFull, Zenon
  <2> QED
    BY <2>6, <2>7, Zenon DEF p
<1> QED
  BY <1>1, <1>2, Zenon

\* A refreshed head is merged above the deepest cursor: the list stays a feed
\* that lacks what it lacked and what is between the list and the head.
LEMMA HeadMerge ==
  ASSUME Paged, PageShapes, NewestExists, NEW n \in Nat, NEW m \in 0..n, NEW f, NEW t \in Nat,
         NEW s \in SUBSET Visible,
         FeedAt(f, n), FullBelow(f, t), f.items # {}, f.cursor <= m,
         f.cursor = 1 \/ f.cursor + PageSize <= m + 1,
         Above(f, s), WholeBut(f, s)
  PROVE  LET p == PageAt(m, NoCursor)
             g == apply_refreshed_activity_page(f, p) IN
         /\ FeedAt(g, n) /\ FullBelow(g, t) /\ g.items # {}
         /\ Above(g, Skips(f, p, s)) /\ WholeBut(g, Skips(f, p, s))
<1> DEFINE p == PageAt(m, NoCursor)
           g == apply_refreshed_activity_page(f, p)
<1>1. /\ f \in Feeds
      /\ f.items \subseteq VisibleIn(f.cursor, n) /\ f.cursor # NoCursor
      /\ f.cursor \in Nat /\ f.cursor >= 1
  <2>1. /\ f \in Feeds
        /\ f.items \subseteq VisibleIn(f.cursor, n) /\ f.cursor # NoCursor
    BY Zenon DEF FeedAt
  <2>2. f.cursor \in Nat
    BY <2>1 DEF Feeds
  <2> QED
    BY <2>1, <2>2 DEF NoCursor
<1>2. m \in Nat /\ NoCursor \in 0..m /\ Newest(m, NoCursor) = m /\ m # 0
  BY <1>1 DEF NoCursor, Newest
<1>3. /\ p \in Feeds
      /\ p.items = VisibleIn(p.cursor, m)
      /\ 1 <= p.cursor /\ p.cursor <= m
      /\ p.cursor = 1 \/ p.cursor + PageSize = m + 1
      /\ ~p.has_more => p.cursor = 1
      /\ p.cursor = Oldest(m)
  BY <1>2, PageFacts, Zenon
<1>4. g = [f EXCEPT !.items = f.items \cup p.items]
  BY Zenon DEF apply_refreshed_activity_page
<1> HIDE DEF p, g
<1>5. p.cursor \in Nat /\ PageSize \in Nat /\ PageSize > 1 /\ p.items \in SUBSET Visible
      /\ \A x \in Visible : x \in Nat
  BY <1>3 DEF Paged, Feeds
<1>6. /\ g \in Feeds
      /\ g.items = f.items \cup p.items /\ g.cursor = f.cursor /\ g.has_more = f.has_more
  BY <1>1, <1>4, <1>5 DEF Feeds
<1>7. f.cursor <= p.cursor
  BY <1>1, <1>2, <1>3, <1>5 DEF Oldest
<1>8. p.items \subseteq VisibleIn(f.cursor, n)
  <2>1. \A x \in Visible : p.cursor <= x /\ x <= m => f.cursor <= x /\ x <= n
    BY <1>1, <1>2, <1>5, <1>7
  <2> QED
    BY <1>3, <2>1, Zenon DEF VisibleIn
<1>9. FeedAt(g, n) /\ FullBelow(g, t) /\ g.items # {}
  BY <1>1, <1>6, <1>8, Zenon DEF FeedAt, FullBelow
<1>10. Above(g, Skips(f, p, s)) /\ WholeBut(g, Skips(f, p, s))
  <2> DEFINE M == Max(f.items)
             N == IF M <= m THEN m ELSE M
             S == Skips(f, p, s)
  <2>1. f.items \in SUBSET Nat /\ \A x \in f.items : x <= n
    BY <1>1, <1>5, Zenon DEF VisibleIn
  <2>2. M \in f.items /\ M \in Nat
    BY <2>1, Zenon DEF NewestExists
  <2>3. f.items = VisibleIn(f.cursor, M) \ s
    BY Zenon DEF WholeBut
  <2>4. f.cursor <= M
    BY <2>2, <2>3, Zenon DEF VisibleIn
  <2>5. S = (s \ p.items) \cup {x \in Visible : M < x /\ x < p.cursor}
    BY Zenon DEF Skips
  <2> HIDE DEF M, S
  <2>6. ASSUME NEW x \in Visible
        PROVE  \/ f.cursor <= x /\ x <= M /\ x \notin s
               \/ p.cursor <= x /\ x <= m
               <=> /\ f.cursor <= x /\ x <= N
                   /\ ~(x \in s /\ ~(p.cursor <= x /\ x <= m))
                   /\ ~(M < x /\ x < p.cursor)
    BY <1>1, <1>2, <1>5, <1>7, <2>2
  <2> HIDE DEF N
  <2>7. g.items = VisibleIn(g.cursor, N) \ S
    BY <1>3, <1>6, <2>3, <2>5, <2>6, Zenon DEF VisibleIn
  <2>8. N \in Nat /\ g.cursor \in Nat
    BY <1>1, <1>2, <1>6, <2>2 DEF N
  <2>9. WholeBut(g, S)
    BY <1>9, <2>7, <2>8, IntervalIsWhole, Zenon
  <2>10. \A x \in Visible : M < x => f.cursor < x
    BY <1>1, <1>5, <2>2, <2>4
  <2>11. Above(g, S)
    BY <1>6, <1>9, <2>5, <2>10, Zenon DEF Above
  <2> QED
    BY <2>9, <2>11, Zenon DEF S
<1> QED
  BY <1>9, <1>10, Zenon DEF p, g

\* An older page is merged below the list, or the list ends at its cursor.
LEMMA TailMerge ==
  ASSUME Paged, PageShapes, NewestExists, NEW n \in Nat, NEW m \in 0..n, NEW f, NEW t \in Nat,
         NEW s \in SUBSET Visible,
         FeedAt(f, n), FullBelow(f, t), f.cursor # NoCursor, f.cursor <= m,
         Above(f, s), f.items # {} => WholeBut(f, s)
  PROVE  LET g == apply_activity_page(f, PageAt(m, f.cursor))
             u == IF f.items = {} /\ g.items # {} THEN Max(g.items) ELSE t IN
         /\ FeedAt(g, n) /\ u \in Nat /\ FullBelow(g, u)
         /\ Above(g, s) /\ (g.items # {} => WholeBut(g, s))
<1> DEFINE p == PageAt(m, f.cursor)
           g == apply_activity_page(f, p)
           u == IF f.items = {} /\ g.items # {} THEN Max(g.items) ELSE t
           c == f.cursor
           Kept == /\ FeedAt(g, n) /\ u \in Nat /\ FullBelow(g, u)
                   /\ Above(g, s) /\ (g.items # {} => WholeBut(g, s))
<1>1. /\ f \in Feeds
      /\ f.items \subseteq VisibleIn(c, n)
      /\ c = 1 \/ c + PageSize <= n + 1
  BY Zenon DEF FeedAt
<1>2. c \in Nat /\ c >= 1 /\ m \in Nat /\ c \in 0..m /\ Newest(m, c) = c /\ c # 0
      /\ c # NoCursor /\ c <= n
  <2>1. c \in Nat
    BY <1>1 DEF Feeds
  <2> QED
    BY <2>1 DEF NoCursor, Newest
<1>3. /\ p \in Feeds
      /\ p.items = VisibleIn(p.cursor, c)
      /\ 1 <= p.cursor /\ p.cursor <= c
      /\ p.cursor = 1 \/ p.cursor + PageSize = c + 1
      /\ ~p.has_more => p.cursor = 1
  <2> DEFINE k == Newest(m, c)
  <2>1. k # 0 /\ k = c
    BY <1>2, Zenon
  <2>2. /\ p \in Feeds
        /\ p.items = VisibleIn(p.cursor, k)
        /\ 1 <= p.cursor /\ p.cursor <= k
        /\ p.cursor = 1 \/ p.cursor + PageSize = k + 1
        /\ ~p.has_more => p.cursor = 1
    BY <1>2, <2>1, PageFacts, Zenon
  <2> HIDE DEF k, c, p
  <2> QED
    BY <2>1, <2>2, Zenon
<1>4. g = IF p.cursor < c
          THEN [items |-> f.items \cup p.items, cursor |-> p.cursor, has_more |-> p.has_more]
          ELSE [f EXCEPT !.has_more = FALSE]
  <2>1. p.cursor # NoCursor
    BY <1>3 DEF NoCursor
  <2> QED
    BY <1>2, <2>1, Zenon DEF apply_activity_page
<1> HIDE DEF p, g, c
<1>5. p.cursor \in Nat /\ PageSize \in Nat /\ PageSize > 1 /\ p.items \in SUBSET Visible
      /\ p.has_more \in BOOLEAN /\ \A x \in Visible : x \in Nat
  BY <1>3 DEF Paged, Feeds
<1>6. ASSUME p.cursor < c PROVE Kept
  <2>1. /\ g.items = f.items \cup p.items /\ g.cursor = p.cursor
        /\ g.has_more = p.has_more
    BY <1>4, <1>6, Zenon
  <2>2. g \in Feeds
    BY <1>1, <1>4, <1>5, <1>6 DEF Feeds
  <2>3. \A x \in Visible : /\ p.cursor <= x /\ x <= c => x <= n
                           /\ c <= x => p.cursor <= x
    BY <1>2, <1>3, <1>5
  <2>4. g.items \subseteq VisibleIn(g.cursor, n)
    BY <1>1, <1>3, <2>1, <2>3, Zenon DEF VisibleIn
  <2>5. /\ g.cursor <= n /\ g.cursor # NoCursor
        /\ g.cursor = 1 \/ g.cursor + PageSize <= n + 1
        /\ ~g.has_more => g.cursor = 1
    BY <1>2, <1>3, <1>5, <2>1 DEF NoCursor
  <2>6. FeedAt(g, n)
    BY <2>2, <2>4, <2>5, Zenon DEF FeedAt
  <2>7. CASE f.items = {}
    <3>1. g.items = VisibleIn(g.cursor, c)
      BY <1>3, <2>1, <2>7
    <3>2. g.items # {} => WholeBut(g, {}) /\ Max(g.items) \in Nat /\ FullBelow(g, Max(g.items))
      BY <1>2, <1>5, <2>1, <3>1, IntervalIsFull, Zenon
    <3>3. g.items # {} => u \in Nat /\ FullBelow(g, u)
      BY <2>7, <3>2, Zenon
    <3>4. g.items = {} => u \in Nat /\ FullBelow(g, u)
      BY Zenon DEF FullBelow
    <3>5. s = {} /\ Above(g, s)
      BY <2>7, Zenon DEF Above
    <3> QED
      BY <2>6, <3>2, <3>3, <3>4, <3>5, Zenon
  <2>8. CASE f.items # {}
    <3>1. u = t
      BY <2>8, Zenon
    <3> HIDE DEF u
    <3>2. \A x \in Visible : p.cursor <= x => c <= x \/ x <= c
      BY <1>2, <1>5
    <3>3. FullBelow(g, t)
      BY <1>3, <2>1, <2>8, <3>2, Zenon DEF FullBelow, VisibleIn, c
    <3>4. WholeBut(g, s)
      <4> DEFINE M == Max(f.items)
      <4>1. f.items \in SUBSET Nat /\ \A x \in f.items : x <= n
        BY <1>1, <1>5, Zenon DEF VisibleIn
      <4>2. M \in f.items /\ M \in Nat
        BY <2>8, <4>1, Zenon DEF NewestExists
      <4>3. f.items = VisibleIn(c, M) \ s
        BY <2>8, Zenon DEF WholeBut, c
      <4>4. c <= M
        BY <4>2, <4>3, Zenon DEF VisibleIn
      <4> HIDE DEF M
      <4>5. \A x \in Visible :
              \/ c <= x /\ x <= M /\ x \notin s
              \/ p.cursor <= x /\ x <= c
              <=> p.cursor <= x /\ x <= M /\ x \notin s
        <5>1. \A x \in s : c < x
          BY Zenon DEF Above, c
        <5> QED
          BY <1>2, <1>3, <1>5, <4>2, <4>4, <5>1
      <4>6. g.items = VisibleIn(g.cursor, M) \ s
        BY <1>3, <2>1, <4>3, <4>5, Zenon DEF VisibleIn
      <4> QED
        BY <1>5, <2>1, <2>8, <4>2, <4>6, IntervalIsWhole, Zenon
    <3>5. Above(g, s)
      <4>1. \A x \in s : c < x /\ x \in Visible
        BY Zenon DEF Above, c
      <4>2. \A x \in s : p.cursor < x
        BY <1>2, <1>5, <1>6, <4>1
      <4> QED
        BY <2>1, <2>8, <4>2, Zenon DEF Above
    <3> QED
      BY <2>6, <2>8, <3>1, <3>3, <3>4, <3>5, Zenon
  <2> QED
    BY <2>7, <2>8, Zenon
<1>7. ASSUME ~(p.cursor < c) PROVE Kept
  <2>1. c = 1
    BY <1>2, <1>3, <1>5, <1>7
  <2>2. g.items = f.items /\ g.cursor = c /\ g.has_more = FALSE
    BY <1>1, <1>4, <1>7 DEF c
  <2>3. g \in Feeds
    BY <1>1, <1>4, <1>7, Zenon DEF Feeds
  <2>4. FeedAt(g, n)
    BY <1>1, <1>2, <2>1, <2>2, <2>3, Zenon DEF FeedAt, c
  <2>5. u = t
    BY <2>2, Zenon
  <2> HIDE DEF u
  <2>6. FullBelow(g, t) /\ (WholeBut(f, s) => WholeBut(g, s)) /\ Above(g, s)
    BY <2>2, Zenon DEF FullBelow, WholeBut, Above, c
  <2> QED
    BY <2>2, <2>4, <2>5, <2>6, Zenon
<1>8. Kept
  BY <1>6, <1>7, Zenon
<1> QED
  BY <1>8, Zenon DEF g, p, c

\* The merges do what the invariant needs.
LEMMA MergesHold ==
  ASSUME Paged, PageShapes, NewestExists
  PROVE  Merges
<1>1. FirstPages
  BY FirstPage, Zenon DEF FirstPages
<1>2. HeadMerges
  <2> SUFFICES ASSUME NEW f \in Feeds, NEW n \in Nat, NEW t \in Nat,
                      NEW s \in SUBSET Visible, NEW m \in 0..n,
                      /\ FeedAt(f, n) /\ FullBelow(f, t) /\ f.items # {} /\ f.cursor <= m
                      /\ Above(f, s) /\ WholeBut(f, s)
                      /\ f.cursor = 1 \/ f.cursor + PageSize <= m + 1
               PROVE  /\ FeedAt(WithHead(f, m), n) /\ FullBelow(WithHead(f, m), t)
                      /\ Above(WithHead(f, m), Skips(f, PageAt(m, NoCursor), s))
                      /\ WholeBut(WithHead(f, m), Skips(f, PageAt(m, NoCursor), s))
    BY Zenon DEF HeadMerges
  <2> DEFINE p == PageAt(m, NoCursor)
             g == apply_refreshed_activity_page(f, p)
  <2>1. /\ FeedAt(g, n) /\ FullBelow(g, t)
        /\ Above(g, Skips(f, p, s)) /\ WholeBut(g, Skips(f, p, s))
    BY HeadMerge, Zenon
  <2> QED
    BY <2>1, Zenon DEF WithHead
<1>3. TailMerges
  <2> SUFFICES ASSUME NEW f \in Feeds, NEW n \in Nat, NEW t \in Nat,
                      NEW s \in SUBSET Visible, NEW m \in 0..n,
                      /\ FeedAt(f, n) /\ FullBelow(f, t) /\ f.cursor # NoCursor /\ f.cursor <= m
                      /\ Above(f, s) /\ (f.items # {} => WholeBut(f, s))
               PROVE  /\ FeedAt(WithTail(f, m), n) /\ TopOf(f, WithTail(f, m), t) \in Nat
                      /\ FullBelow(WithTail(f, m), TopOf(f, WithTail(f, m), t))
                      /\ Above(WithTail(f, m), s)
                      /\ WithTail(f, m).items # {} => WholeBut(WithTail(f, m), s)
    BY Zenon DEF TailMerges
  <2> DEFINE g == apply_activity_page(f, PageAt(m, f.cursor))
             u == IF f.items = {} /\ g.items # {} THEN Max(g.items) ELSE t
  <2>1. /\ FeedAt(g, n) /\ u \in Nat /\ FullBelow(g, u)
        /\ Above(g, s) /\ (g.items # {} => WholeBut(g, s))
    BY TailMerge, Zenon
  <2> QED
    BY <2>1, Zenon DEF WithTail, TopOf
<1> QED
  BY <1>1, <1>2, <1>3, Zenon DEF Merges

-----------------------------------------------------------------------------
(* Parts of the provider's list.                                           *)

\* A part of a sequence.
LEMMA PartOf ==
  ASSUME NEW S, NEW s \in Seq(S), NEW m \in Nat, NEW n \in Nat,
         1 <= m, n <= Len(s), m <= n + 1
  PROVE  /\ SubSeq(s, m, n) \in Seq(S) /\ Len(SubSeq(s, m, n)) = n - m + 1
         /\ \A k \in 1..(n - m + 1) : SubSeq(s, m, n)[k] = s[k + m - 1]
<1>1. SubSeq(s, m, n) \in Seq(S)
  OBVIOUS
<1>2. Len(SubSeq(s, m, n)) = n - m + 1
  OBVIOUS
<1>3. \A k \in 1..(n - m + 1) : SubSeq(s, m, n)[k] = s[k + m - 1]
  OBVIOUS
<1> QED
  BY <1>1, <1>2, <1>3

\* Two sequences, one after the other.
LEMMA Joined ==
  ASSUME NEW S, NEW l \in Seq(S), NEW r \in Seq(S)
  PROVE  /\ l \o r \in Seq(S) /\ Len(l \o r) = Len(l) + Len(r)
         /\ \A k \in 1..Len(l \o r) :
              (l \o r)[k] = IF k <= Len(l) THEN l[k] ELSE r[k - Len(l)]
<1>1. l \o r \in Seq(S) /\ Len(l \o r) = Len(l) + Len(r)
  OBVIOUS
<1>2. \A k \in 1..(Len(l) + Len(r)) :
        (l \o r)[k] = IF k <= Len(l) THEN l[k] ELSE r[k - Len(l)]
  OBVIOUS
<1> QED
  BY <1>1, <1>2, Zenon

\* A list without one of its members: nothing moves up by more than a place.
LEMMA TakenOut ==
  ASSUME NEW S, NEW s \in Seq(S), IsInjective(s), NEW n
  PROVE  LET t == Without(s, n) IN
         /\ t \in Seq(S) /\ IsInjective(t) /\ n \notin Range(t)
         /\ \A k \in 1..Len(t) : \E j \in 1..Len(s) : s[j] = t[k] /\ k <= j /\ j <= k + 1
<1> DEFINE t == Without(s, n)
<1>1. Len(s) \in Nat /\ DOMAIN s = 1..Len(s) /\ \A i \in 1..Len(s) : s[i] \in S
  OBVIOUS
<1>2. \A i, j \in 1..Len(s) : s[i] = s[j] => i = j
  BY <1>1, Zenon DEF IsInjective
<1>3. CASE n \notin Range(s)
  <2>1. t = s
    BY <1>3, Zenon DEF Without
  <2>2. \A k \in 1..Len(s) : k <= k /\ k <= k + 1
    BY <1>1
  <2> QED
    BY <1>3, <2>1, <2>2, Zenon
<1>4. CASE n \in Range(s)
  <2> DEFINE i == CHOOSE i \in DOMAIN s : s[i] = n
  <2>1. i \in 1..Len(s) /\ s[i] = n
    BY <1>1, <1>4, Zenon DEF Range
  <2>2. t = SubSeq(s, 1, i - 1) \o SubSeq(s, i + 1, Len(s))
    BY <1>4, Zenon DEF Without
  <2> HIDE DEF i, t
  <2> DEFINE l == SubSeq(s, 1, i - 1)
             r == SubSeq(s, i + 1, Len(s))
  <2>3. /\ i \in Nat /\ 1 <= i /\ i <= Len(s) /\ i - 1 \in Nat /\ i + 1 \in Nat
        /\ Len(s) - i \in Nat
    BY <1>1, <2>1
  <2>4. l \in Seq(S) /\ Len(l) = i - 1 /\ \A k \in 1..(i - 1) : l[k] = s[k]
    <3>1. 1 \in Nat /\ 1 <= 1 /\ i - 1 <= Len(s) /\ 1 <= (i - 1) + 1
          /\ (i - 1) - 1 + 1 = i - 1 /\ \A k \in 1..(i - 1) : k + 1 - 1 = k
      BY <1>1, <2>3
    <3> QED
      BY <2>3, <3>1, PartOf
  <2>5. r \in Seq(S) /\ Len(r) = Len(s) - i /\ \A k \in 1..(Len(s) - i) : r[k] = s[k + i]
    <3>1. 1 <= i + 1 /\ Len(s) <= Len(s) /\ i + 1 <= Len(s) + 1
          /\ Len(s) - (i + 1) + 1 = Len(s) - i
          /\ \A k \in 1..(Len(s) - i) : k + (i + 1) - 1 = k + i
      BY <1>1, <2>3
    <3> DEFINE m == i + 1
               e == Len(s)
    <3>2. m \in Nat /\ e \in Nat /\ 1 <= m /\ e <= Len(s) /\ m <= e + 1
      BY <1>1, <2>3, <3>1
    <3>3. r = SubSeq(s, m, e)
      OBVIOUS
    <3> HIDE DEF m, e, r
    <3>4. /\ SubSeq(s, m, e) \in Seq(S) /\ Len(SubSeq(s, m, e)) = e - m + 1
          /\ \A k \in 1..(e - m + 1) : SubSeq(s, m, e)[k] = s[k + m - 1]
      BY <3>2, PartOf
    <3> QED
      BY <3>1, <3>3, <3>4, Zenon DEF m, e
  <2> HIDE DEF l, r
  <2>6. /\ t \in Seq(S) /\ Len(t) = Len(l) + Len(r)
        /\ \A k \in 1..Len(t) : t[k] = IF k <= Len(l) THEN l[k] ELSE r[k - Len(l)]
    <3>1. t = l \o r
      BY <2>2, Zenon DEF l, r
    <3> QED
      BY <2>4, <2>5, <3>1, Joined, Zenon
  <2>14. Len(t) = Len(s) - 1
    <3>1. Len(l) = i - 1 /\ Len(r) = Len(s) - i /\ Len(t) = Len(l) + Len(r)
      BY <2>4, <2>5, <2>6, Zenon
    <3> QED
      BY <1>1, <2>3, <3>1
  <2>7. ASSUME NEW k \in 1..Len(t) PROVE t[k] = IF k < i THEN s[k] ELSE s[k + 1]
    <3>2. t[k] = IF k <= Len(l) THEN l[k] ELSE r[k - Len(l)]
      BY <2>6, Zenon
    <3>3. CASE k < i
      BY <2>3, <2>4, <3>2, <3>3
    <3>4. CASE ~(k < i)
      <4>1. ~(k <= Len(l)) /\ k - Len(l) \in 1..(Len(s) - i) /\ (k - Len(l)) + i = k + 1
        BY <1>1, <2>3, <2>4, <2>14, <3>4
      <4> QED
        BY <2>5, <3>2, <3>4, <4>1, Zenon
    <3> QED
      BY <3>3, <3>4
  <2>8. DOMAIN t = 1..Len(t)
    BY <2>6
  <2> DEFINE from(k) == IF k < i THEN k ELSE k + 1
  <2>9. \A k \in 1..Len(t) : /\ from(k) \in 1..Len(s) /\ from(k) # i
                             /\ k <= from(k) /\ from(k) <= k + 1
    BY <1>1, <2>3, <2>14
  <2>10. \A k, j \in 1..Len(t) : from(k) = from(j) => k = j
    BY <1>1, <2>3, <2>14
  <2>11. \A k \in 1..Len(t) : t[k] = s[from(k)]
    BY <2>7, Zenon
  <2> HIDE DEF from
  <2>12. IsInjective(t)
    BY <1>2, <2>8, <2>9, <2>10, <2>11 DEF IsInjective
  <2>13. n \notin Range(t)
    BY <1>2, <2>1, <2>8, <2>9, <2>11 DEF Range
  <2> QED
    BY <2>6, <2>9, <2>11, <2>12, <2>13, Zenon DEF t
<1> QED
  BY <1>3, <1>4

\* A used NFT goes to the head: no other one moves up.
LEMMA MovedToHead ==
  ASSUME NEW S, NEW s \in Seq(S), IsInjective(s), NEW n \in S
  PROVE  LET t == <<n>> \o Without(s, n) IN
         /\ t \in Seq(S) /\ IsInjective(t)
         /\ \A k \in 1..Len(t) :
              t[k] = n \/ \E j \in 1..Len(s) : s[j] = t[k] /\ j <= k
<1> DEFINE w == Without(s, n)
           t == <<n>> \o w
<1>1. /\ w \in Seq(S) /\ IsInjective(w) /\ n \notin Range(w)
      /\ \A k \in 1..Len(w) : \E j \in 1..Len(s) : s[j] = w[k] /\ k <= j /\ j <= k + 1
  BY TakenOut, Zenon
<1> HIDE DEF w
<1>2. t \in Seq(S) /\ Len(t) = Len(w) + 1 /\ Len(w) \in Nat /\ DOMAIN w = 1..Len(w)
  BY <1>1
<1>3. t[1] = n /\ \A k \in 1..Len(w) : t[k + 1] = w[k]
  BY <1>1, <1>2
<1> HIDE DEF t
<1>4. \A k \in 1..Len(t) : k = 1 \/ (k - 1 \in 1..Len(w) /\ (k - 1) + 1 = k)
  BY <1>2
<1>5. \A k \in 1..Len(t) : k = 1 \/ t[k] = w[k - 1]
  BY <1>3, <1>4, Zenon
<1>6. DOMAIN t = 1..Len(t) /\ \A k \in 1..Len(w) : w[k] # n
  <2>1. DOMAIN t = 1..Len(t)
    BY <1>2
  <2> QED
    BY <1>1, <1>2, <2>1, Zenon DEF Range
<1>7. ASSUME NEW a \in 1..Len(t), NEW b \in 1..Len(t), t[a] = t[b] PROVE a = b
  <2>1. CASE a = 1 \/ b = 1
    BY <1>3, <1>4, <1>5, <1>6, <1>7, <2>1, Zenon
  <2>2. CASE a # 1 /\ b # 1
    <3>1. a - 1 \in 1..Len(w) /\ b - 1 \in 1..Len(w) /\ w[a - 1] = w[b - 1]
      BY <1>4, <1>5, <1>7, <2>2
    <3>2. a - 1 = b - 1
      BY <1>1, <1>2, <3>1, Zenon DEF IsInjective
    <3> QED
      BY <1>4, <2>2, <3>2
  <2> QED
    BY <2>1, <2>2
<1>8. ASSUME NEW k \in 1..Len(t), t[k] # n
      PROVE  \E j \in 1..Len(s) : s[j] = t[k] /\ j <= k
  <2>1. k # 1
    BY <1>3, <1>8, Zenon
  <2>2. PICK j \in 1..Len(s) : s[j] = w[k - 1] /\ j <= (k - 1) + 1
    BY <1>1, <1>4, <2>1, Zenon
  <2> QED
    BY <1>4, <1>5, <2>1, <2>2, Zenon
<1> QED
  BY <1>2, <1>6, <1>7, <1>8, Zenon DEF IsInjective, t, w

\* The rows from an offset on: at most a page of them, and fewer only at the end.
LEMMA RowsOfPage ==
  ASSUME NEW S, NEW s \in Seq(S), NEW o \in Nat, NftPageSize \in Nat
  PROVE  LET rows == nft_items(s, o) IN
         /\ rows \in Seq(S)
         /\ \A k \in 1..Len(s) : o < k /\ k <= o + Len(rows) => s[k] \in Range(rows)
         /\ Len(rows) < NftPageSize => Len(s) <= o + Len(rows)
<1> DEFINE upto == IF o + NftPageSize < Len(s) THEN o + NftPageSize ELSE Len(s)
           rows == SubSeq(s, o + 1, upto)
<1>1. nft_items(s, o) = rows
  BY Zenon DEF nft_items
<1>2. Len(s) \in Nat /\ upto \in Nat /\ upto <= Len(s) /\ o + 1 \in Nat /\ 1 <= o + 1
  OBVIOUS
<1>3. upto < Len(s) => upto = o + NftPageSize
  BY <1>2
<1> HIDE DEF upto
<1>4. CASE o + 1 <= upto
  <2>1. rows \in Seq(S)
    BY <1>2, <1>4
  <2>2. Len(rows) = upto - o
    BY <1>2, <1>4
  <2>3. \A k \in 1..(upto - o) : rows[k] = s[k + o]
    BY <1>2, <1>4
  <2> HIDE DEF rows
  <2>4. DOMAIN rows = 1..(upto - o)
    BY <2>1, <2>2
  <2>5. ASSUME NEW k \in 1..Len(s), o < k, k <= o + Len(rows) PROVE s[k] \in Range(rows)
    <3>1. k - o \in 1..(upto - o) /\ (k - o) + o = k
      BY <1>2, <2>2, <2>5
    <3> QED
      BY <2>3, <2>4, <3>1, Zenon DEF Range
  <2>6. Len(rows) < NftPageSize => Len(s) <= o + Len(rows)
    BY <1>2, <1>3, <1>4, <2>2
  <2> QED
    BY <1>1, <2>1, <2>5, <2>6, Zenon
<1>5. CASE ~(o + 1 <= upto)
  <2>1. rows = <<>>
    BY <1>2, <1>5
  <2>2. rows \in Seq(S) /\ Len(rows) = 0
    <3>1. <<>> \in Seq(S)
      OBVIOUS
    <3>2. Len(<<>>) = 0
      OBVIOUS
    <3> QED
      BY <2>1, <3>1, <3>2, Zenon
  <2>3. NftPageSize > 0 => Len(s) <= o
    BY <1>2, <1>3, <1>5
  <2> HIDE DEF rows
  <2>4. Len(rows) < NftPageSize => Len(s) <= o + Len(rows)
    BY <1>2, <2>2, <2>3
  <2>5. \A k \in 1..Len(s) : ~(o < k /\ k <= o + Len(rows))
    BY <1>2, <2>2
  <2> QED
    BY <1>1, <2>2, <2>4, <2>5, Zenon
<1> QED
  BY <1>4, <1>5

-----------------------------------------------------------------------------
(* The invariant of the NFT list.                                          *)

NftOps == {"refresh_nfts", "load_more_nfts"}

\* An NFT that has stayed where it was since the change `since`, and that is
\* among the first `upto` ones or among all if there are no more, is in S,
\* unless an NFT has left.
Covers(since, upto, more, S) ==
  gone < since =>
    \A k \in 1..Len(owned) :
      moved[owned[k]] < since /\ (k <= upto \/ ~more) => owned[k] \in S

NftTypes ==
  /\ changes \in Nat /\ gone \in Nat
  /\ moved \in [Nfts -> Nat] /\ read \in [Calls -> Nat] /\ base \in Nat
  /\ base <= changes + 1 /\ \A c \in Calls : read[c] <= changes
  /\ owned \in Seq(Nfts) /\ IsInjective(owned)
  /\ nfts.items \in Seq(Nfts) /\ IsInjective(nfts.items) /\ nfts.offset \in Nat

\* The list has what its offset says, and the NFTs that stayed at its end.
ListCovers == Covers(base, nfts.offset, nfts.has_more, Range(nfts.items))

IsPage(p) == p.items \in Seq(Nfts) /\ p.raw_count \in Nat

\* A first page covers what it was read from.
FirstRows(c) ==
  Op[c] = "refresh_nfts" =>
    /\ arg[c] = 0
    /\ pc[c] = "publish" =>
         LET p == ans[c].page IN
         IsPage(p) /\ Covers(read[c] + 1, p.raw_count, p.has_more, Range(p.items))

\* A further page continues the list, and covers it together with the list.
MoreRows(c) ==
  Op[c] = "load_more_nfts" /\ pc[c] \in {"waiting", "publish"}
    /\ is_current("NftPagination", gen[c]) =>
      /\ arg[c] = nfts.offset
      /\ pc[c] = "publish" =>
           LET p == ans[c].page IN
           /\ IsPage(p)
           /\ Covers(base, nfts.offset + p.raw_count, p.has_more,
                     Range(nfts.items) \cup Range(p.items))

NftExclusion == active["NftRefresh"] = 0 \/ active["NftPagination"] = 0

NftInv ==
  /\ NftTypes /\ ListCovers /\ NftExclusion
  /\ \A c \in Calls : FirstRows(c) /\ MoreRows(c)

-----------------------------------------------------------------------------
(* The steps that have nothing to do with NFTs.                            *)

nftData == <<nfts, owned, changes, moved, gone, read, base>>

\* A call for NFTs stands where it stood or has ended.
NftStays(c) ==
  Op[c] \in NftOps => Same(c) \/ (pc'[c] = "done" /\ arg'[c] = 0)

NftAside == UNCHANGED nftData /\ \A c \in Calls : NftStays(c)

\* A slot of the NFTs is only taken by a call for NFTs.
LEMMA NftSlots ==
  ASSUME SlotInv, Configured, [Next]_vars, \A c \in Calls : NftStays(c)
  PROVE  \A f \in {"NftRefresh", "NftPagination"} :
           active'[f] = active[f] \/ active'[f] = 0
<1> SUFFICES ASSUME NEW f \in {"NftRefresh", "NftPagination"}
             PROVE  active'[f] = active[f] \/ active'[f] = 0
  BY Zenon
<1>1. SlotStep /\ f \in Family /\ SlotTypes
  BY EveryStep, Zenon DEF Family, SlotInv
<1>2. CASE Clears
  BY <1>1, <1>2, Zenon DEF Clears, SlotTypes
<1>3. ASSUME NEW c \in Calls, Shuts(c) PROVE active'[f] = 0
  BY <1>1, <1>3, Zenon DEF Shuts
<1>4. ASSUME NEW c \in Calls, NEW where \in Pc, Moves(c, where) \/ Rests(c, where)
      PROVE  active'[f] = active[f] \/ active'[f] = 0
  BY <1>1, <1>4, Zenon DEF Moves, Rests, SlotTypes
<1>5. ASSUME NEW c \in Calls, NEW where \in Pc, NEW g \in Family, Starts(c, g, where)
      PROVE  active'[f] = active[f] \/ active'[f] = 0
  <2>1. /\ pc'[c] = where /\ where \in WorkPc /\ pc[c] \in RestPc
        /\ g = FamilyAt(Op[c], where) /\ Emptied(g)
    BY <1>1, <1>5, Zenon DEF Starts, SlotTypes
  <2>2. pc'[c] # pc[c] /\ pc'[c] # "done"
    BY <2>1 DEF WorkPc, RestPc
  <2>3. Op[c] \notin NftOps
    BY <2>2, Zenon DEF NftStays, Same
  <2>4. g # f
    BY <2>1, <2>3 DEF FamilyAt, FamilyOf, NftOps
  <2> QED
    BY <1>1, <2>1, <2>4, Zenon DEF Emptied
<1> QED
  BY <1>1, <1>2, <1>3, <1>4, <1>5, Zenon DEF SlotStep

\* The calls for NFTs hold the slots of their families.
LEMMA NftCalls ==
  ASSUME NEW c \in Calls
  PROVE  /\ SlotInv /\ Op[c] = "load_more_nfts" /\ pc[c] \in {"waiting", "publish"} =>
              Holds(c, "NftPagination")
         /\ SlotInv' /\ Op[c] = "load_more_nfts" /\ pc'[c] \in {"waiting", "publish"} =>
              Holds(c, "NftPagination")'
         /\ SlotInv /\ Op[c] = "refresh_nfts" /\ pc[c] \in {"waiting", "publish"} =>
              Holds(c, "NftRefresh")
         /\ "NftRefresh" \in Family /\ "NftPagination" \in Family
<1>1. "NftRefresh" \in Family /\ "NftPagination" \in Family
  BY Zenon DEF Family
<1>2. \A where \in {"waiting", "publish"} :
        /\ where \in WorkPc
        /\ FamilyAt("load_more_nfts", where) = "NftPagination"
        /\ FamilyAt("refresh_nfts", where) = "NftRefresh"
  BY DEF WorkPc, FamilyAt, FamilyOf
<1> QED
  BY <1>1, <1>2, Zenon DEF Holds

\* A call that holds a slot has a generation.
LEMMA HasGeneration ==
  ASSUME SlotInv, NEW c \in Calls, NEW f \in Family, Holds(c, f)
  PROVE  gen[c] # 0
<1>1. 1 <= gen[c] /\ gen[c] \in Nat
  BY Zenon DEF SlotInv, Given, SlotTypes
<1> QED
  BY <1>1

\* A call that does not move keeps its part of the invariant when the NFTs and
\* the list are as they were, or when it has lost its slot.
LEMMA NftSame ==
  ASSUME SlotInv, SlotInv', NEW c \in Calls, Same(c), FirstRows(c), MoreRows(c),
         UNCHANGED <<owned, moved, gone>>, read'[c] = read[c],
         \/ active'["NftPagination"] = 0
         \/ \E k \in Calls \ {c} : Holds(k, "NftPagination")' /\ gen'[k] = active'["NftPagination"]
         \/ active'["NftPagination"] = active["NftPagination"] /\ UNCHANGED <<nfts, base>>
  PROVE  FirstRows(c)' /\ MoreRows(c)'
<1>1. pc'[c] = pc[c] /\ gen'[c] = gen[c] /\ arg'[c] = arg[c] /\ ans'[c] = ans[c]
  BY Zenon DEF Same
<1>2. FirstRows(c)'
  BY <1>1, Zenon DEF FirstRows, Covers, IsPage
<1>3. ASSUME Op[c] = "load_more_nfts", pc'[c] \in {"waiting", "publish"},
             is_current("NftPagination", gen[c])'
      PROVE  active'["NftPagination"] = active["NftPagination"] /\ UNCHANGED <<nfts, base>>
  <2>1. Holds(c, "NftPagination")' /\ "NftPagination" \in Family
    BY <1>3, NftCalls, Zenon
  <2> QED
    BY <1>3, <2>1, Displaced, Zenon
<1>4. MoreRows(c)'
  BY <1>1, <1>3, Zenon DEF MoreRows, Covers, IsPage, is_current
<1> QED
  BY <1>2, <1>4

\* A call for something else, or one that has ended, has no part in it.
LEMMA NftElsewhere ==
  ASSUME NEW c \in Calls, Op[c] \notin NftOps \/ (pc'[c] = "done" /\ arg'[c] = 0)
  PROVE  FirstRows(c)' /\ MoreRows(c)'
BY Zenon DEF FirstRows, MoreRows, NftOps

\* A step aside keeps the invariant.
LEMMA NftAsideKeeps ==
  ASSUME SlotInv, SlotInv', Configured, NftInv, [Next]_vars, NftAside
  PROVE  NftInv'
<1>1. \A f \in {"NftRefresh", "NftPagination"} : active'[f] = active[f] \/ active'[f] = 0
  BY NftSlots, Zenon DEF NftAside
<1>2. UNCHANGED <<nfts, owned, changes, moved, gone, read, base>>
  BY Zenon DEF NftAside, nftData
<1>3. NftTypes' /\ ListCovers'
  BY <1>2, Zenon DEF NftInv, NftTypes, ListCovers, Covers
<1>4. NftExclusion'
  BY <1>1, Zenon DEF NftInv, NftExclusion
<1>5. ASSUME NEW c \in Calls PROVE FirstRows(c)' /\ MoreRows(c)'
  <2>1. CASE Same(c)
    BY <1>1, <1>2, <2>1, NftSame, Zenon DEF NftInv
  <2>2. CASE ~Same(c)
    BY <2>2, NftElsewhere, Zenon DEF NftAside, NftStays
  <2> QED
    BY <2>1, <2>2
<1> QED
  BY <1>3, <1>4, <1>5, Zenon DEF NftInv

-----------------------------------------------------------------------------
(* Every step has to do with NFTs or leaves them aside.                    *)

\* The steps that have to do with NFTs.
NftPageStarts(c) ==
  NftPageBegin(c) /\ active["NftRefresh"] = 0 /\ active["NftPagination"] = 0 /\ nfts.has_more

NftRefreshEnds(c) == NftRefreshPublish(c) /\ is_current("NftRefresh", gen[c])

NftPageEnds(c) == NftPagePublish(c) /\ is_current("NftPagination", gen[c])

NftStep ==
  \/ \E c \in Calls : \/ NftRefreshBegin(c) \/ NftPageStarts(c) \/ NftAnswer(c)
                      \/ NftRefreshEnds(c) \/ NftPageEnds(c)
  \/ \E n \in Nfts : NftUse(n) \/ NftLeave(n)

\* A call for something else, or one that ends, leaves the NFTs aside.
LEMMA OtherCall ==
  ASSUME NEW c \in Calls, OnlyCall(c), UNCHANGED nftData,
         Op[c] \notin NftOps \/ (pc'[c] = "done" /\ arg'[c] = 0)
  PROVE  NftAside
<1>1. \A d \in Calls : NftStays(d)
  BY Zenon DEF OnlyCall, NftStays, Same
<1> QED
  BY <1>1, Zenon DEF NftAside

\* A call that returns, with the NFTs as they were.
LEMMA ReturnsAside ==
  ASSUME SlotTypes, Locals, NEW c \in Calls, NEW result, return(c, result),
         UNCHANGED nftData
  PROVE  NftAside
<1>1. OnlyCall(c) /\ pc'[c] = "done"
  BY ReturnFrame, Zenon
<1>2. arg'[c] = 0
  BY Zenon DEF return, Locals
<1> QED
  BY <1>1, <1>2, OtherCall, Zenon

\* A refused call.
LEMMA RefusesAside ==
  ASSUME SlotTypes, Locals, NEW c \in Calls, NEW result, refuse(c, result)
  PROVE  NftAside
<1>1. UNCHANGED nftData
  BY Zenon DEF refuse, nftData, snapshot, environment, history
<1> QED
  BY <1>1, ReturnsAside, Zenon DEF refuse

\* A round of the shutdown.
LEMMA ShutdownAside ==
  ASSUME SlotTypes, Locals, NEW c \in Calls, Shutdown(c)
  PROVE  NftAside
<1>1. CASE shutdown
  BY <1>1, RefusesAside, Zenon DEF Shutdown
<1>2. CASE ~shutdown
  <2>1. UNCHANGED nftData /\ Op[c] \notin NftOps
    BY <1>2, Zenon DEF Shutdown, prepare_shutdown, NftOps, nftData, environment, history
  <2>2. CASE active["Send"] # 0 /\ commit
    <3>1. OnlyCall(c)
      BY <1>2, <2>2, ToFrame, Zenon DEF Shutdown, locals
    <3> QED
      BY <2>1, <3>1, OtherCall, Zenon
  <2>3. CASE ~(active["Send"] # 0 /\ commit)
    BY <1>2, <2>1, <2>3, ReturnsAside, Zenon DEF Shutdown
  <2> QED
    BY <2>2, <2>3
<1> QED
  BY <1>1, <1>2

\* The beginnings of the other calls.
LEMMA BeginsAside ==
  ASSUME SlotTypes, Locals, NEW c \in Calls, Begin(c)
  PROVE  NftAside \/ NftRefreshBegin(c) \/ NftPageStarts(c)
<1>1. \A result : refuse(c, result) => NftAside
  BY RefusesAside, Zenon
<1>2. ASSUME Op[c] \notin NftOps, \E x : pc' = [pc EXCEPT ![c] = x],
             gen' = gen \/ \E x : gen' = [gen EXCEPT ![c] = x],
             arg' = arg \/ \E x : arg' = [arg EXCEPT ![c] = x],
             UNCHANGED <<ans, outcome>>, UNCHANGED nftData
      PROVE  NftAside
  <2>1. OnlyCall(c)
    BY <1>2, Assigned, Zenon
  <2> QED
    BY <1>2, <2>1, OtherCall, Zenon
<1>3. ASSUME SweepBegin(c) PROVE NftAside
  <2>1. UNCHANGED nftData /\ Op[c] \notin NftOps
    BY <1>3, Zenon
       DEF SweepBegin, Sweeping, NftOps, nftData, snapshot, environment, history
  <2> QED
    BY <1>2, <1>3, <2>1, Zenon DEF SweepBegin, take, to
<1>4. ASSUME PageBegin(c) PROVE NftAside
  <2>1. CASE active["Refresh"] # 0 \/ active["Pagination"] # 0 \/ ~feed.has_more
             \/ feed.cursor = NoCursor
    BY <1>1, <1>4, <2>1, Zenon DEF PageBegin
  <2>2. CASE ~(active["Refresh"] # 0 \/ active["Pagination"] # 0 \/ ~feed.has_more
               \/ feed.cursor = NoCursor)
    <3>1. UNCHANGED nftData /\ Op[c] \notin NftOps
      BY <1>4, <2>2, Zenon DEF PageBegin, NftOps, nftData, environment, history
    <3> QED
      BY <1>2, <1>4, <2>2, <3>1, Zenon DEF PageBegin, take, to
  <2> QED
    BY <2>1, <2>2
<1>5. ASSUME PreviewBegin(c) PROVE NftAside
  <2>1. CASE active["Send"] # 0 \/ active["Preview"] # 0
    BY <1>1, <1>5, <2>1, Zenon DEF PreviewBegin
  <2>2. CASE ~(active["Send"] # 0 \/ active["Preview"] # 0)
    <3>1. UNCHANGED nftData /\ Op[c] \notin NftOps
      BY <1>5, <2>2, Zenon
         DEF PreviewBegin, NftOps, nftData, snapshot, environment, history
    <3> QED
      BY <1>2, <1>5, <2>2, <3>1, Zenon DEF PreviewBegin, take, to
  <2> QED
    BY <2>1, <2>2
<1>6. ASSUME PrepareBegin(c) PROVE NftAside
  <2>1. CASE active["Send"] # 0 \/ active["Resolution"] # 0
    BY <1>1, <1>6, <2>1, Zenon DEF PrepareBegin
  <2>2. CASE ~(active["Send"] # 0 \/ active["Resolution"] # 0)
    <3>1. UNCHANGED nftData /\ Op[c] \notin NftOps
      BY <1>6, <2>2, Zenon
         DEF PrepareBegin, NftOps, nftData, snapshot, environment, history
    <3> QED
      BY <1>2, <1>6, <2>2, <3>1, Zenon DEF PrepareBegin, take, to
  <2> QED
    BY <2>1, <2>2
<1>7. ASSUME SendBegin(c) PROVE NftAside
  <2>1. CASE active["Send"] # 0 \/ active["Resolution"] # 0
    BY <1>1, <1>7, <2>1, Zenon DEF SendBegin
  <2>2. CASE ~(active["Send"] # 0 \/ active["Resolution"] # 0)
    <3>1. UNCHANGED nftData /\ Op[c] \notin NftOps
      BY <1>7, <2>2, Zenon DEF SendBegin, NftOps, nftData, environment, history
    <3> QED
      BY <1>2, <1>7, <2>2, <3>1, Zenon DEF SendBegin, take, to
  <2> QED
    BY <2>1, <2>2
<1>8. ASSUME NftPageBegin(c) PROVE NftAside \/ NftPageStarts(c)
  BY <1>1, <1>8, Zenon DEF NftPageBegin, NftPageStarts
<1>9. ASSUME Shutdown(c) PROVE NftAside
  BY <1>9, ShutdownAside, Zenon
<1>10. ASSUME EnsureRunning(c) PROVE NftAside
  BY <1>1, <1>10, Zenon DEF EnsureRunning
<1> QED
  BY <1>3, <1>4, <1>5, <1>6, <1>7, <1>8, <1>9, <1>10, Zenon DEF Begin

\* The later stretches of the other calls.
LEMMA ContinuesAside ==
  ASSUME SlotInv, Locals, NEW c \in Calls, Continue(c)
  PROVE  NftAside \/ NftAnswer(c) \/ NftRefreshEnds(c) \/ NftPageEnds(c)
<1>1. SlotTypes /\ ControlAt(Op[c], pc[c])
  BY Zenon DEF SlotInv, Control
<1>2. \A result : refuse(c, result) => NftAside
  BY <1>1, RefusesAside, Zenon
<1>3. ASSUME NEW result, return(c, result), UNCHANGED nftData PROVE NftAside
  BY <1>1, <1>3, ReturnsAside, Zenon
<1>4. ASSUME Op[c] \notin NftOps, \E x : pc' = [pc EXCEPT ![c] = x],
             gen' = gen \/ \E x : gen' = [gen EXCEPT ![c] = x],
             arg' = arg \/ \E x : arg' = [arg EXCEPT ![c] = x],
             ans' = ans \/ \E x : ans' = [ans EXCEPT ![c] = x],
             UNCHANGED outcome, UNCHANGED nftData
      PROVE  NftAside
  <2>1. OnlyCall(c)
    BY <1>1, <1>4, Assigned, Zenon
  <2> QED
    BY <1>4, <2>1, OtherCall, Zenon
<1>5. pc[c] \in {"sweeping", "publish_account", "publish_activity", "finish", "signing",
                 "committed"} => Op[c] \notin NftOps
  BY <1>1 DEF ControlAt, Sweeping, NftOps
<1>6. ASSUME SweepEnd(c) PROVE NftAside
  <2>1. UNCHANGED nftData
    BY <1>6, Zenon DEF SweepEnd, nftData, environment, history
  <2> QED
    BY <1>4, <1>5, <1>6, <2>1, Zenon DEF SweepEnd, to
<1>7. ASSUME RefreshBegin(c) PROVE NftAside
  <2>1. UNCHANGED nftData /\ Op[c] \notin NftOps
    BY <1>7, Zenon DEF RefreshBegin, NftOps, nftData, environment, history
  <2> QED
    BY <1>4, <1>7, <2>1, Zenon DEF RefreshBegin, take, to
<1>8. ASSUME RefreshAnswer(c) PROVE NftAside
  <2>1. UNCHANGED nftData /\ Op[c] \notin NftOps
    BY <1>8, Zenon DEF RefreshAnswer, NftOps, nftData, snapshot, history
  <2> QED
    BY <1>4, <1>8, <2>1, Zenon DEF RefreshAnswer, to
<1>9. ASSUME PublishAccount(c) PROVE NftAside
  <2>1. UNCHANGED nftData
    BY <1>9, Zenon DEF PublishAccount, nftData, environment, history
  <2> QED
    BY <1>4, <1>5, <1>9, <2>1, Zenon DEF PublishAccount, to
<1>10. ASSUME PublishActivity(c) PROVE NftAside
  <2>1. UNCHANGED nftData
    BY <1>10, Zenon DEF PublishActivity, nftData, environment
  <2> QED
    BY <1>4, <1>5, <1>10, <2>1, Zenon DEF PublishActivity, to
<1>11. ASSUME RefreshFinish(c) PROVE NftAside
  <2>1. UNCHANGED nftData
    BY <1>11, Zenon DEF RefreshFinish, nftData, snapshot, environment, history
  <2> QED
    BY <1>3, <1>11, <2>1, Zenon DEF RefreshFinish
<1>12. ASSUME PageAnswer(c) PROVE NftAside
  <2>1. UNCHANGED nftData /\ Op[c] \notin NftOps
    BY <1>12, Zenon DEF PageAnswer, NftOps, nftData, snapshot, history
  <2> QED
    BY <1>4, <1>12, <2>1, Zenon DEF PageAnswer, to
<1>13. ASSUME PagePublish(c) PROVE NftAside
  <2>1. CASE ~is_current("Pagination", gen[c])
    BY <1>2, <1>13, <2>1, Zenon DEF PagePublish
  <2>2. CASE is_current("Pagination", gen[c])
    <3>1. UNCHANGED nftData
      BY <1>13, <2>2, Zenon DEF PagePublish, nftData, environment
    <3> QED
      BY <1>3, <1>13, <2>2, <3>1, Zenon DEF PagePublish
  <2> QED
    BY <2>1, <2>2
<1>14. ASSUME NftRefreshPublish(c) PROVE NftAside \/ NftRefreshEnds(c)
  BY <1>2, <1>14, Zenon DEF NftRefreshPublish, NftPublish, NftRefreshEnds
<1>15. ASSUME NftPagePublish(c) PROVE NftAside \/ NftPageEnds(c)
  BY <1>2, <1>15, Zenon DEF NftPagePublish, NftPublish, NftPageEnds
<1>16. ASSUME PreviewAnswer(c) PROVE NftAside
  <2>1. CASE ~running \/ ~is_current("Preview", gen[c])
    BY <1>2, <1>16, <2>1, Zenon DEF PreviewAnswer
  <2>2. CASE running /\ is_current("Preview", gen[c])
    <3>1. UNCHANGED nftData /\ Op[c] \notin NftOps
      BY <1>16, <2>2, Zenon DEF PreviewAnswer, NftOps, nftData, snapshot, history
    <3>2. \/ \E where : to(c, where) /\ UNCHANGED <<outcome, locals>>
          \/ \E result : return(c, result)
      BY <1>16, <2>2, Zenon DEF PreviewAnswer
    <3> QED
      BY <1>3, <1>4, <3>1, <3>2, Zenon DEF to, locals
  <2> QED
    BY <2>1, <2>2
<1>17. ASSUME PrepareAnswer(c) PROVE NftAside
  <2>1. CASE ~is_current("Resolution", gen[c])
    BY <1>2, <1>17, <2>1, Zenon DEF PrepareAnswer
  <2>2. CASE is_current("Resolution", gen[c])
    <3>1. UNCHANGED nftData /\ Op[c] \notin NftOps
      BY <1>17, <2>2, Zenon DEF PrepareAnswer, NftOps, nftData, snapshot, history
    <3>2. \/ \E where : to(c, where) /\ UNCHANGED <<outcome, locals>>
          \/ \E result : return(c, result)
      BY <1>17, <2>2, Zenon DEF PrepareAnswer
    <3> QED
      BY <1>3, <1>4, <3>1, <3>2, Zenon DEF to, locals
  <2> QED
    BY <2>1, <2>2
<1>18. ASSUME WaitBegin(c) PROVE NftAside
  <2>1. UNCHANGED nftData /\ Op[c] \notin NftOps
    BY <1>18, Zenon DEF WaitBegin, NftOps, nftData, snapshot, environment, history
  <2>2. (\E result : return(c, result)) \/
        (\E x : /\ arg' = [arg EXCEPT ![c] = x] /\ to(c, "asleep")
                /\ UNCHANGED <<gen, ans, outcome>>)
    BY <1>18, Zenon DEF WaitBegin
  <2> QED
    BY <1>3, <1>4, <2>1, <2>2, Zenon DEF to
<1>19. ASSUME WaitWake(c) PROVE NftAside
  BY <1>2, <1>19, Zenon DEF WaitWake
<1>20. ASSUME SendCommit(c) PROVE NftAside
  <2>1. CASE shutdown \/ ~is_current("Send", gen[c])
    BY <1>2, <1>20, <2>1, Zenon DEF SendCommit
  <2>2. CASE ~(shutdown \/ ~is_current("Send", gen[c]))
    <3>1. UNCHANGED nftData
      BY <1>20, <2>2, Zenon DEF SendCommit, nftData, snapshot, environment, history
    <3> QED
      BY <1>4, <1>5, <1>20, <2>2, <3>1, Zenon DEF SendCommit, to
  <2> QED
    BY <2>1, <2>2
<1>21. ASSUME SendEnd(c) PROVE NftAside
  <2>1. UNCHANGED nftData
    BY <1>21, Zenon DEF SendEnd, nftData, environment, history
  <2> QED
    BY <1>3, <1>21, <2>1, Zenon DEF SendEnd
<1>22. ASSUME Shutdown(c) PROVE NftAside
  BY <1>1, <1>22, ShutdownAside, Zenon
<1>23. ASSUME EnsureRunning(c) PROVE NftAside
  BY <1>2, <1>23, Zenon DEF EnsureRunning
<1> QED
  BY <1>6, <1>7, <1>8, <1>9, <1>10, <1>11, <1>12, <1>13, <1>14, <1>15, <1>16, <1>17, <1>18,
     <1>19, <1>20, <1>21, <1>22, <1>23, Zenon DEF Continue

\* Every step has to do with NFTs or leaves them aside.
LEMMA NftClassified ==
  ASSUME SlotInv, Locals, [Next]_vars
  PROVE  NftAside \/ NftStep
<1>1. SlotTypes
  BY Zenon DEF SlotInv
<1>2. ASSUME UNCHANGED call, UNCHANGED nftData PROVE NftAside
  BY <1>2, Zenon DEF NftAside, NftStays, Same, call
<1>3. ASSUME cancel_refresh \/ cancel_load_more_activity \/ cancel_refresh_nfts
             \/ cancel_load_more_nfts
      PROVE  NftAside
  <2>1. UNCHANGED call /\ UNCHANGED nftData
    BY <1>3, Zenon DEF cancel_refresh, cancel_load_more_activity, cancel_refresh_nfts,
       cancel_load_more_nfts, cancel_nfts, nftData, history
  <2> QED
    BY <1>2, <2>1, Zenon
<1>4. ASSUME cancel_send_preview \/ cancel_send \/ Transact \/ UNCHANGED vars
      PROVE  NftAside
  <2>1. UNCHANGED call /\ UNCHANGED nftData
    BY <1>4, Zenon DEF cancel_send_preview, cancel_send, Transact, vars, nftData, snapshot,
       environment, history
  <2> QED
    BY <1>2, <2>1, Zenon
<1>5. ASSUME NEW c \in Calls, Begin(c) \/ Continue(c) PROVE NftAside \/ NftStep
  BY <1>1, <1>5, BeginsAside, ContinuesAside, Zenon DEF NftStep
<1> QED
  BY <1>3, <1>4, <1>5, Zenon DEF Next, Cancel, Environment, NftStep

-----------------------------------------------------------------------------
(* The steps of the NFTs.                                                  *)

\* The parts of the invariant after a step of one call.
LEMMA NftTogether ==
  ASSUME SlotInv, SlotInv', NftInv, NEW c \in Calls, OnlyCall(c),
         NftTypes', ListCovers', NftExclusion', FirstRows(c)', MoreRows(c)',
         UNCHANGED <<owned, moved, gone>>, \A d \in Calls \ {c} : read'[d] = read[d],
         \/ active'["NftPagination"] = 0
         \/ Holds(c, "NftPagination")' /\ gen'[c] = active'["NftPagination"]
         \/ active'["NftPagination"] = active["NftPagination"] /\ UNCHANGED <<nfts, base>>
  PROVE  NftInv'
<1>1. ASSUME NEW d \in Calls \ {c} PROVE FirstRows(d)' /\ MoreRows(d)'
  <2>1. Same(d) /\ FirstRows(d) /\ MoreRows(d) /\ read'[d] = read[d]
    BY Zenon DEF OnlyCall, Same, NftInv
  <2> QED
    BY <2>1, NftSame, Zenon
<1> QED
  BY <1>1, Zenon DEF NftInv

\* A refresh of the NFTs begins: it takes the slot of the pages too.
LEMMA NftRefreshBeginKeeps ==
  ASSUME SlotInv, SlotInv', Locals, NftInv, NEW c \in Calls, NftRefreshBegin(c)
  PROVE  NftInv'
<1>1. /\ UNCHANGED nftData /\ Op[c] = "refresh_nfts" /\ arg' = arg
  BY Zenon DEF NftRefreshBegin, nftData, environment, history
<1>2. OnlyCall(c) /\ pc'[c] = "waiting"
  BY TakeFrame, Zenon DEF NftRefreshBegin, SlotInv
<1>3. active'["NftPagination"] = 0
  BY Zenon DEF NftRefreshBegin, SlotInv, SlotTypes, Family
<1>4. NftTypes' /\ ListCovers' /\ NftExclusion'
  BY <1>1, <1>3, Zenon
     DEF NftInv, NftTypes, ListCovers, Covers, NftExclusion, nftData
<1>5. FirstRows(c)' /\ MoreRows(c)'
  BY <1>1, <1>2, Zenon DEF FirstRows, MoreRows, NftInv
<1> QED
  BY <1>1, <1>2, <1>3, <1>4, <1>5, NftTogether, Zenon DEF nftData

\* A page load begins at the offset of the list.
LEMMA NftPageStartsKeeps ==
  ASSUME SlotInv, SlotInv', Locals, NftInv, NEW c \in Calls, NftPageStarts(c)
  PROVE  NftInv'
<1>1. /\ UNCHANGED nftData /\ Op[c] = "load_more_nfts"
      /\ arg' = [arg EXCEPT ![c] = nfts.offset] /\ active["NftRefresh"] = 0
      /\ take(c, "NftPagination") /\ to(c, "waiting") /\ UNCHANGED <<ans, outcome>>
      /\ active' = [active EXCEPT !["NftPagination"] = generation'["NftPagination"]]
  BY Zenon DEF NftPageStarts, NftPageBegin, nftData, environment, history
<1>2. OnlyCall(c) /\ pc'[c] = "waiting"
  BY <1>1, TakeFrame, Zenon DEF SlotInv
<1>3. /\ active'["NftRefresh"] = 0
      /\ active'["NftPagination"] = generation'["NftPagination"]
      /\ gen'[c] = generation'["NftPagination"] /\ arg'[c] = nfts.offset
  BY <1>1, Zenon DEF take, SlotInv, SlotTypes, Family, Locals
<1>4. NftTypes' /\ ListCovers' /\ NftExclusion'
  BY <1>1, <1>3, Zenon
     DEF NftInv, NftTypes, ListCovers, Covers, NftExclusion, nftData
<1>5. FirstRows(c)' /\ MoreRows(c)'
  BY <1>1, <1>2, <1>3, Zenon DEF FirstRows, MoreRows, nftData
<1>6. Holds(c, "NftPagination")'
  BY <1>1, <1>2, NftCalls, Zenon
<1> QED
  BY <1>1, <1>2, <1>3, <1>4, <1>5, <1>6, NftTogether, Zenon DEF nftData

\* The rows that are read at an offset cover what follows it.
LEMMA RowsCover ==
  ASSUME NftTypes, NftPageSize \in Nat, NEW since \in Nat, NEW o \in Nat, NEW S,
         NEW more, Covers(since, o, more, S)
  PROVE  LET p == parse_nft_page(nft_items(owned, o)) IN
         IsPage(p) /\ Covers(since, o + p.raw_count, p.has_more, S \cup Range(p.items))
<1> DEFINE rows == nft_items(owned, o)
           p == parse_nft_page(rows)
<1>1. owned \in Seq(Nfts) /\ Len(owned) \in Nat
  <2>1. owned \in Seq(Nfts)
    BY Zenon DEF NftTypes
  <2> QED
    BY <2>1
<1>2. /\ rows \in Seq(Nfts)
      /\ \A k \in 1..Len(owned) : o < k /\ k <= o + Len(rows) => owned[k] \in Range(rows)
      /\ Len(rows) < NftPageSize => Len(owned) <= o + Len(rows)
  BY <1>1, RowsOfPage, Zenon
<1> HIDE DEF rows
<1>3. p.items = rows /\ p.raw_count = Len(rows) /\ p.has_more = (Len(rows) >= NftPageSize)
  BY Zenon DEF parse_nft_page
<1>4. Len(rows) \in Nat
  BY <1>2
<1> HIDE DEF p
<1>5. IsPage(p)
  BY <1>2, <1>3, <1>4, Zenon DEF IsPage
<1>6. ASSUME gone < since, NEW k \in 1..Len(owned), moved[owned[k]] < since,
             k <= o + Len(rows) \/ ~(Len(rows) >= NftPageSize)
      PROVE  owned[k] \in S \cup Range(rows)
  <2>1. CASE k <= o
    BY <1>6, <2>1, Zenon DEF Covers
  <2>2. CASE ~(k <= o)
    <3>1. o < k /\ k <= o + Len(rows)
      BY <1>1, <1>2, <1>4, <1>6, <2>2
    <3> QED
      BY <1>2, <3>1, Zenon
  <2> QED
    BY <2>1, <2>2
<1>7. Covers(since, o + p.raw_count, p.has_more, S \cup Range(p.items))
  BY <1>3, <1>6, Zenon DEF Covers
<1> QED
  BY <1>5, <1>7, Zenon DEF p, rows

\* Rows are read for a call.
LEMMA NftAnswerKeeps ==
  ASSUME SlotInv, SlotInv', Locals, NftPageSize \in Nat, NftInv, NEW c \in Calls, NftAnswer(c)
  PROVE  NftInv'
<1>1. /\ UNCHANGED <<nfts, owned, changes, moved, gone, base, active, gen, arg, outcome>>
      /\ read' = [read EXCEPT ![c] = changes] /\ to(c, "publish")
      /\ Op[c] \in NftOps /\ pc[c] = "waiting"
  BY Zenon DEF NftAnswer, slots, snapshot, NftOps
<1>2. PICK p : p = parse_nft_page(nft_items(owned, arg[c]))
  BY Zenon
<1>3. OnlyCall(c) /\ pc'[c] = "publish" /\ ans'[c].page = p /\ arg'[c] = arg[c]
      /\ gen'[c] = gen[c]
  <2>1. PICK status : ans' = [ans EXCEPT ![c] = Answer(status, FALSE, p)]
    BY <1>2, Zenon DEF NftAnswer
  <2>2. OnlyCall(c)
    BY <1>1, <2>1, Assigned, Zenon DEF SlotInv, to
  <2>3. ans'[c] = Answer(status, FALSE, p)
    BY <2>1, Zenon DEF Locals
  <2> QED
    <3>1. ans'[c].page = p
      BY <2>3 DEF Answer
    <3>2. pc'[c] = "publish" /\ arg' = arg /\ gen' = gen
      BY <1>1, Zenon DEF to, SlotInv, SlotTypes
    <3> QED
      BY <2>2, <3>1, <3>2, Zenon
<1>4. /\ changes \in Nat /\ read'[c] = changes /\ \A d \in Calls \ {c} : read'[d] = read[d]
      /\ read' \in [Calls -> Nat] /\ \A d \in Calls : read'[d] <= changes'
  <2>1. changes \in Nat /\ read \in [Calls -> Nat] /\ \A d \in Calls : read[d] <= changes
    BY Zenon DEF NftInv, NftTypes
  <2>2. changes <= changes
    BY <2>1
  <2>3. /\ read'[c] = changes /\ \A d \in Calls \ {c} : read'[d] = read[d]
        /\ read' \in [Calls -> Nat]
    BY <1>1, <2>1, Zenon
  <2> QED
    BY <1>1, <2>1, <2>2, <2>3, Zenon
<1>5. NftTypes' /\ ListCovers' /\ NftExclusion'
  BY <1>1, <1>4, Zenon DEF NftInv, NftTypes, ListCovers, Covers, NftExclusion
<1>6. FirstRows(c)'
  <2> SUFFICES ASSUME Op[c] = "refresh_nfts"
               PROVE  /\ arg'[c] = 0 /\ IsPage(p)
                      /\ Covers(changes + 1, p.raw_count, p.has_more, Range(p.items))'
    BY <1>1, <1>3, <1>4, Zenon DEF FirstRows, IsPage
  <2>1. arg[c] = 0
    BY Zenon DEF NftInv, FirstRows
  <2>2. Covers(changes + 1, 0, TRUE, {})
    <3>1. \A k \in 1..Len(owned) : ~(k <= 0)
      OBVIOUS
    <3> QED
      BY <3>1, Zenon DEF Covers
  <2>3. 0 \in Nat /\ changes + 1 \in Nat
    BY <1>4
  <2>4. IsPage(p) /\ Covers(changes + 1, 0 + p.raw_count, p.has_more, {} \cup Range(p.items))
    BY <1>2, <2>1, <2>2, <2>3, RowsCover, Zenon DEF NftInv
  <2>5. 0 + p.raw_count = p.raw_count
    <3>1. p.raw_count \in Nat
      BY <2>4, Zenon DEF IsPage
    <3> QED
      BY <3>1
  <2>6. {} \cup Range(p.items) = Range(p.items)
    BY Zenon
  <2>7. Covers(changes + 1, p.raw_count, p.has_more, Range(p.items))
    BY <2>4, <2>5, <2>6, Zenon
  <2> QED
    BY <1>1, <1>3, <2>1, <2>4, <2>7, Zenon DEF Covers
<1>7. MoreRows(c)'
  <2> SUFFICES ASSUME Op[c] = "load_more_nfts", is_current("NftPagination", gen[c])
               PROVE  /\ arg[c] = nfts.offset /\ IsPage(p)
                      /\ Covers(base, nfts.offset + p.raw_count, p.has_more,
                                Range(nfts.items) \cup Range(p.items))
    BY <1>1, <1>3, Zenon DEF MoreRows, is_current, Covers
  <2>1. arg[c] = nfts.offset
    BY <1>1, Zenon DEF NftInv, MoreRows
  <2>2. NftTypes /\ base \in Nat /\ nfts.offset \in Nat
        /\ Covers(base, nfts.offset, nfts.has_more, Range(nfts.items))
    BY Zenon DEF NftInv, NftTypes, ListCovers
  <2> QED
    BY <1>2, <2>1, <2>2, RowsCover, Zenon
<1> QED
  BY <1>1, <1>3, <1>4, <1>5, <1>6, <1>7, NftTogether, Zenon

\* A first page replaces the list.
LEMMA NftRefreshEndsKeeps ==
  ASSUME RowsMerge(Nfts), SlotInv, SlotInv', Locals, NftInv, NEW c \in Calls, NftRefreshEnds(c)
  PROVE  NftInv'
<1>1. /\ UNCHANGED <<owned, changes, moved, gone, read>>
      /\ active' = [active EXCEPT !["NftRefresh"] = 0]
      /\ Op[c] = "refresh_nfts" /\ pc[c] = "publish" /\ gen[c] = active["NftRefresh"]
      /\ \E result : return(c, result)
      /\ nfts' = IF ans[c].status # "ok" THEN nfts ELSE apply_refreshed_nft_page(ans[c].page)
      /\ base' = IF ans[c].status = "ok" THEN read[c] + 1 ELSE base
  BY Zenon DEF NftRefreshEnds, NftRefreshPublish, NftPublish, is_current, environment
<1>2. OnlyCall(c) /\ pc'[c] = "done" /\ arg'[c] = 0
  <2>1. OnlyCall(c) /\ pc'[c] = "done"
    BY <1>1, ReturnFrame, Zenon DEF SlotInv
  <2> QED
    BY <1>1, <2>1, Zenon DEF return, Locals
<1>3. FirstRows(c)' /\ MoreRows(c)'
  BY <1>2, NftElsewhere, Zenon
<1>4. active'["NftPagination"] = 0 /\ active'["NftRefresh"] = 0
  <2>1. Holds(c, "NftRefresh") /\ "NftRefresh" \in Family /\ "NftPagination" \in Family
    BY <1>1, NftCalls, Zenon
  <2>2. gen[c] # 0
    BY <2>1, HasGeneration, Zenon
  <2> QED
    BY <1>1, <2>1, <2>2, Zenon DEF NftInv, NftExclusion, SlotInv, SlotTypes
<1>5. CASE ans[c].status # "ok"
  <2>1. NftTypes' /\ ListCovers'
    BY <1>1, <1>5, Zenon DEF NftInv, NftTypes, ListCovers, Covers
  <2> QED
    BY <1>1, <1>2, <1>3, <1>4, <2>1, NftTogether, Zenon DEF NftExclusion
<1>6. CASE ans[c].status = "ok"
  <2>1. PICK p : p = ans[c].page
    BY Zenon
  <2>2. IsPage(p) /\ Covers(read[c] + 1, p.raw_count, p.has_more, Range(p.items))
    BY <1>1, <2>1, Zenon DEF NftInv, FirstRows
  <2>3. /\ nfts'.items = AppendRows(<<>>, p.items) /\ nfts'.offset = p.raw_count
        /\ nfts'.has_more = p.has_more
    BY <1>1, <1>6, <2>1, Zenon DEF apply_refreshed_nft_page, deduplicate_nfts
  <2>4. /\ nfts'.items \in Seq(Nfts) /\ IsInjective(nfts'.items)
        /\ Range(nfts'.items) = Range(p.items)
    <3>1. PICK e : e = <<>>
      BY Zenon
    <3>2. e \in Seq(Nfts) /\ IsInjective(e)
      BY <3>1 DEF IsInjective
    <3>3. Range(e) = {}
      BY <3>1 DEF Range
    <3>4. p.items \in Seq(Nfts)
      BY <2>2, Zenon DEF IsPage
    <3>5. nfts'.items = AppendRows(e, p.items)
      BY <2>3, <3>1, Zenon
    <3>6. LET t == AppendRows(e, p.items) IN
          t \in Seq(Nfts) /\ IsInjective(t) /\ Range(t) = Range(e) \cup Range(p.items)
      BY <3>2, <3>4, Zenon DEF RowsMerge
    <3> QED
      BY <3>3, <3>5, <3>6, Zenon
  <2>5. base' = read[c] + 1 /\ base' \in Nat /\ base' <= changes' + 1
    <3>1. base' = read[c] + 1 /\ changes' = changes
      BY <1>1, <1>6, Zenon
    <3>2. read[c] \in Nat /\ read[c] <= changes /\ changes \in Nat
      BY Zenon DEF NftInv, NftTypes
    <3> QED
      BY <3>1, <3>2
  <2>6. NftTypes'
    BY <1>1, <2>2, <2>3, <2>4, <2>5, Zenon DEF NftInv, NftTypes, IsPage
  <2>7. ListCovers'
    BY <1>1, <2>2, <2>3, <2>4, <2>5, Zenon DEF ListCovers, Covers
  <2> QED
    BY <1>1, <1>2, <1>3, <1>4, <2>6, <2>7, NftTogether, Zenon DEF NftExclusion
<1> QED
  BY <1>5, <1>6

\* A further page is merged into the list.
LEMMA NftPageEndsKeeps ==
  ASSUME RowsMerge(Nfts), SlotInv, SlotInv', Locals, NftInv, NEW c \in Calls, NftPageEnds(c)
  PROVE  NftInv'
<1>1. /\ UNCHANGED <<owned, changes, moved, gone, read, base>>
      /\ active' = [active EXCEPT !["NftPagination"] = 0]
      /\ Op[c] = "load_more_nfts" /\ pc[c] = "publish"
      /\ is_current("NftPagination", gen[c])
      /\ \E result : return(c, result)
      /\ nfts' = IF ans[c].status # "ok" THEN nfts ELSE apply_nft_page(nfts, ans[c].page)
  BY Zenon DEF NftPageEnds, NftPagePublish, NftPublish, environment
<1>2. OnlyCall(c) /\ pc'[c] = "done" /\ arg'[c] = 0
  <2>1. OnlyCall(c) /\ pc'[c] = "done"
    BY <1>1, ReturnFrame, Zenon DEF SlotInv
  <2> QED
    BY <1>1, <2>1, Zenon DEF return, Locals
<1>3. FirstRows(c)' /\ MoreRows(c)'
  BY <1>2, NftElsewhere, Zenon
<1>4. active'["NftPagination"] = 0
  BY <1>1, Zenon DEF SlotInv, SlotTypes, Family
<1>5. CASE ans[c].status # "ok"
  <2>1. NftTypes' /\ ListCovers'
    BY <1>1, <1>5, Zenon DEF NftInv, NftTypes, ListCovers, Covers
  <2> QED
    BY <1>1, <1>2, <1>3, <1>4, <2>1, NftTogether, Zenon DEF NftExclusion
<1>6. CASE ans[c].status = "ok"
  <2>1. PICK p : p = ans[c].page
    BY Zenon
  <2>2. /\ IsPage(p)
        /\ Covers(base, nfts.offset + p.raw_count, p.has_more,
                  Range(nfts.items) \cup Range(p.items))
    BY <1>1, <2>1, Zenon DEF NftInv, MoreRows
  <2>3. /\ nfts'.items = AppendRows(nfts.items, p.items)
        /\ nfts'.offset = nfts.offset + p.raw_count /\ nfts'.has_more = p.has_more
    BY <1>1, <1>6, <2>1, Zenon DEF apply_nft_page
  <2>4. /\ nfts'.items \in Seq(Nfts) /\ IsInjective(nfts'.items)
        /\ Range(nfts'.items) = Range(nfts.items) \cup Range(p.items)
    <3>1. p.items \in Seq(Nfts) /\ nfts.items \in Seq(Nfts) /\ IsInjective(nfts.items)
      BY <2>2, Zenon DEF IsPage, NftInv, NftTypes
    <3>2. nfts'.items = AppendRows(nfts.items, p.items)
      BY <2>3, Zenon
    <3>3. LET t == AppendRows(nfts.items, p.items) IN
          /\ t \in Seq(Nfts) /\ IsInjective(t)
          /\ Range(t) = Range(nfts.items) \cup Range(p.items)
      BY <3>1, Zenon DEF RowsMerge
    <3> QED
      BY <3>2, <3>3, Zenon
  <2>5. nfts'.offset \in Nat
    <3>1. nfts.offset \in Nat /\ p.raw_count \in Nat
      BY <2>2, Zenon DEF IsPage, NftInv, NftTypes
    <3> QED
      BY <2>3, <3>1
  <2>6. NftTypes'
    BY <1>1, <2>4, <2>5, Zenon DEF NftInv, NftTypes
  <2>7. ListCovers'
    BY <1>1, <2>2, <2>3, <2>4, Zenon DEF ListCovers, Covers
  <2> QED
    BY <1>1, <1>2, <1>3, <1>4, <2>6, <2>7, NftTogether, Zenon DEF NftExclusion
<1> QED
  BY <1>5, <1>6

\* The owner uses an NFT: what was covered still is, because no other NFT moves
\* up in the provider's list.
LEMMA UseCovers ==
  ASSUME NftTypes, NEW n \in Nfts, NftUse(n),
         NEW since \in Nat, since <= changes + 1, NEW upto \in Nat, NEW more, NEW S,
         Covers(since, upto, more, S)
  PROVE  Covers(since, upto, more, S)'
<1>1. /\ changes' = changes + 1 /\ gone' = gone
      /\ owned' = <<n>> \o Without(owned, n) /\ moved' = [moved EXCEPT ![n] = changes']
      /\ changes \in Nat /\ moved \in [Nfts -> Nat]
      /\ owned \in Seq(Nfts) /\ IsInjective(owned)
  BY Zenon DEF NftUse, NftTypes
<1>2. /\ owned' \in Seq(Nfts)
      /\ \A k \in 1..Len(owned') :
           owned'[k] = n \/ \E j \in 1..Len(owned) : owned[j] = owned'[k] /\ j <= k
  <2>1. LET t == <<n>> \o Without(owned, n) IN
        /\ t \in Seq(Nfts) /\ IsInjective(t)
        /\ \A k \in 1..Len(t) :
             t[k] = n \/ \E j \in 1..Len(owned) : owned[j] = t[k] /\ j <= k
    BY <1>1, MovedToHead, Zenon
  <2> QED
    BY <1>1, <2>1, Zenon
<1> SUFFICES ASSUME gone < since, NEW k \in 1..Len(owned'),
                    moved'[owned'[k]] < since, k <= upto \/ ~more
             PROVE  owned'[k] \in S
  BY <1>1, Zenon DEF Covers
<1>3. owned'[k] # n
  <2>1. ~(changes' < since)
    BY <1>1
  <2>2. moved'[n] = changes'
    BY <1>1, Zenon
  <2> QED
    BY <2>1, <2>2, Zenon
<1>4. PICK j \in 1..Len(owned) : owned[j] = owned'[k] /\ j <= k
  BY <1>2, <1>3, Zenon
<1>5. moved[owned[j]] < since
  <2>1. owned[j] \in Nfts
    BY <1>1
  <2>2. moved'[owned[j]] = moved[owned[j]]
    BY <1>1, <1>3, <1>4, <2>1, Zenon
  <2> QED
    BY <1>4, <2>2, Zenon
<1>6. j <= upto \/ ~more
  <2>1. j \in Nat /\ k \in Nat
    BY <1>1, <1>2
  <2>2. k <= upto => j <= upto
    BY <1>4, <2>1
  <2> QED
    BY <2>2, Zenon
<1> QED
  BY <1>4, <1>5, <1>6, Zenon DEF Covers

\* What the owner does to the NFTs: a use keeps what is covered; an NFT that
\* leaves ends what is promised since an earlier change.
LEMMA OwnerCovers ==
  ASSUME NftTypes, NEW n \in Nfts, NftUse(n) \/ NftLeave(n),
         NEW since \in Nat, since <= changes + 1, NEW upto \in Nat, NEW more, NEW S,
         Covers(since, upto, more, S)
  PROVE  Covers(since, upto, more, S)'
<1>1. CASE NftUse(n)
  BY <1>1, UseCovers, Zenon
<1>2. CASE NftLeave(n)
  <2>1. gone' = changes + 1 /\ changes \in Nat
    BY <1>2, Zenon DEF NftLeave, NftTypes
  <2>2. ~(gone' < since)
    BY <2>1
  <2> QED
    BY <2>2, Zenon DEF Covers
<1> QED
  BY <1>1, <1>2, Zenon

\* What the owner does to the NFTs concerns no call.
LEMMA OwnerKeeps ==
  ASSUME NftInv, NEW n \in Nfts, NftUse(n) \/ NftLeave(n)
  PROVE  NftInv'
<1>1. /\ UNCHANGED <<nfts, read, base, pc, gen, arg, ans, active>>
      /\ changes' = changes + 1
  BY Zenon DEF NftUse, NftLeave, slots, snapshot, call
<1>2. /\ changes \in Nat /\ base \in Nat /\ gone \in Nat /\ base <= changes + 1
      /\ owned \in Seq(Nfts) /\ IsInjective(owned) /\ moved \in [Nfts -> Nat]
      /\ read \in [Calls -> Nat] /\ \A c \in Calls : read[c] <= changes
      /\ nfts.items \in Seq(Nfts) /\ IsInjective(nfts.items) /\ nfts.offset \in Nat
      /\ NftTypes
  BY Zenon DEF NftInv, NftTypes
<1>3. /\ owned' \in Seq(Nfts) /\ IsInjective(owned') /\ moved' \in [Nfts -> Nat]
      /\ gone' \in Nat /\ changes' \in Nat
  <2>1. changes' \in Nat
    BY <1>1, <1>2
  <2>2. CASE NftUse(n)
    BY <1>2, <2>1, <2>2, MovedToHead, Zenon DEF NftUse
  <2>3. CASE NftLeave(n)
    BY <1>2, <2>1, <2>3, TakenOut, Zenon DEF NftLeave
  <2> QED
    BY <2>1, <2>2, <2>3, Zenon
<1>4. base' <= changes' + 1 /\ \A c \in Calls : read'[c] <= changes'
  BY <1>1, <1>2
<1>5. NftTypes'
  BY <1>1, <1>2, <1>3, <1>4, Zenon DEF NftTypes
<1>6. ListCovers'
  <2>1. Covers(base, nfts.offset, nfts.has_more, Range(nfts.items))'
    BY <1>1, <1>2, OwnerCovers, Zenon DEF NftInv, ListCovers, Covers
  <2> QED
    BY <2>1, Zenon DEF ListCovers
<1>7. ASSUME NEW c \in Calls PROVE FirstRows(c)' /\ MoreRows(c)'
  <2>1. PICK p : p = ans[c].page
    BY Zenon
  <2>2. read[c] + 1 \in Nat /\ read[c] + 1 <= changes + 1
    BY <1>2
  <2>3. IsPage(p) => p.raw_count \in Nat /\ nfts.offset + p.raw_count \in Nat
    BY <1>2 DEF IsPage
  <2>4. FirstRows(c)'
    <3>1. ASSUME IsPage(p), Covers(read[c] + 1, p.raw_count, p.has_more, Range(p.items))
          PROVE  Covers(read[c] + 1, p.raw_count, p.has_more, Range(p.items))'
      <4>1. PICK since \in Nat : since = read[c] + 1 /\ since <= changes + 1
        BY <2>2, Zenon
      <4>2. Covers(since, p.raw_count, p.has_more, Range(p.items))'
        BY <1>2, <2>3, <3>1, <4>1, OwnerCovers, Zenon
      <4> QED
        BY <1>1, <4>1, <4>2, Zenon
    <3> QED
      BY <1>1, <2>1, <3>1, Zenon DEF NftInv, FirstRows, IsPage
  <2>5. MoreRows(c)'
    <3> DEFINE S == Range(nfts.items) \cup Range(p.items)
    <3>1. ASSUME IsPage(p), Covers(base, nfts.offset + p.raw_count, p.has_more, S)
          PROVE  Covers(base, nfts.offset + p.raw_count, p.has_more, S)'
      <4>1. PICK since \in Nat, upto \in Nat :
              since = base /\ upto = nfts.offset + p.raw_count /\ since <= changes + 1
        BY <1>2, <2>3, <3>1, Zenon
      <4>2. PICK T : T = S
        BY Zenon
      <4>3. Covers(since, upto, p.has_more, T)'
        BY <1>2, <3>1, <4>1, <4>2, OwnerCovers, Zenon
      <4> QED
        BY <1>1, <4>1, <4>2, <4>3, Zenon
    <3> QED
      BY <1>1, <2>1, <3>1, Zenon DEF NftInv, MoreRows, IsPage, is_current
  <2> QED
    BY <2>4, <2>5
<1> QED
  BY <1>1, <1>5, <1>6, <1>7, Zenon DEF NftInv, NftExclusion

-----------------------------------------------------------------------------
(* The invariant holds at first and is kept.                               *)

\* At first the list is empty and says that there may be more.
LEMMA NftInit == Init => NftInv
<1> SUFFICES ASSUME Init PROVE NftInv
  OBVIOUS
<1>1. owned \in Seq(Nfts) /\ IsInjective(owned)
  <2>1. PICK n \in 0..Cardinality(Nfts) : owned \in Injection(1..n, Nfts)
    BY Zenon DEF Init
  <2>2. owned \in [1..n -> Nfts] /\ IsInjective(owned)
    BY <2>1, Zenon DEF Injection, IsInjective
  <2>3. n \in Nat
    OBVIOUS
  <2> QED
    BY <2>2, <2>3
<1>2. nfts.items = <<>> /\ nfts.offset = 0
  BY DEF Init, EmptyNfts
<1>3. nfts.items \in Seq(Nfts) /\ IsInjective(nfts.items)
  BY <1>2 DEF IsInjective
<1>4. /\ changes = 0 /\ gone = 0 /\ base = 0 /\ moved = [n \in Nfts |-> 0]
      /\ read = [c \in Calls |-> 0]
  BY Zenon DEF Init
<1>5. NftTypes
  BY <1>1, <1>2, <1>3, <1>4 DEF NftTypes
<1>6. ListCovers
  BY <1>4 DEF ListCovers, Covers
<1>7. ASSUME NEW c \in Calls PROVE FirstRows(c) /\ MoreRows(c)
  <2>1. arg[c] = 0 /\ pc[c] = "idle"
    BY Zenon DEF Init
  <2> QED
    BY <2>1 DEF FirstRows, MoreRows
<1>8. NftExclusion
  BY Zenon DEF Init, NftExclusion, Family
<1> QED
  BY <1>5, <1>6, <1>7, <1>8, Zenon DEF NftInv

\* Every step keeps the invariant.
LEMMA NftKeeps ==
  ASSUME RowsMerge(Nfts), Configured, SlotInv, SlotInv', Locals, NftInv, [Next]_vars
  PROVE  NftInv'
<1>1. CASE NftAside
  BY <1>1, NftAsideKeeps, Zenon
<1>2. CASE NftStep
  <2>1. ASSUME NEW c \in Calls, NftRefreshBegin(c) PROVE NftInv'
    BY <2>1, NftRefreshBeginKeeps, Zenon
  <2>2. ASSUME NEW c \in Calls, NftPageStarts(c) PROVE NftInv'
    BY <2>2, NftPageStartsKeeps, Zenon
  <2>3. ASSUME NEW c \in Calls, NftAnswer(c) PROVE NftInv'
    BY <2>3, NftAnswerKeeps, Zenon DEF Configured
  <2>4. ASSUME NEW c \in Calls, NftRefreshEnds(c) PROVE NftInv'
    BY <2>4, NftRefreshEndsKeeps, Zenon
  <2>5. ASSUME NEW c \in Calls, NftPageEnds(c) PROVE NftInv'
    BY <2>5, NftPageEndsKeeps, Zenon
  <2>6. ASSUME NEW n \in Nfts, NftUse(n) \/ NftLeave(n) PROVE NftInv'
    BY <2>6, OwnerKeeps, Zenon
  <2> QED
    BY <1>2, <2>1, <2>2, <2>3, <2>4, <2>5, <2>6, Zenon DEF NftStep
<1> QED
  BY <1>1, <1>2, NftClassified, Zenon
=============================================================================
