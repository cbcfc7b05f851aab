------------------------- MODULE WalletClientProofs -------------------------
(***************************************************************************)
(* The theorems about one client, and the facts about finite sets and      *)
(* about rows one by one that they rest on.                                *)
(***************************************************************************)
EXTENDS WalletClientLists, WalletClientPages, FiniteSetTheorems

-----------------------------------------------------------------------------
(* The pages of the provider.                                              *)

\* A page of getTransactions is an interval of the chain.
LEMMA RawPage ==
  ASSUME Paged, NEW n \in Nat, NEW from \in 0..n
  PROVE  getTransactions(1..n, from) = Oldest(Newest(n, from))..Newest(n, from)
<1> DEFINE m == Newest(n, from)
           older == {t \in 1..n : from = NoCursor \/ t <= from}
<1>1. m \in Nat /\ PageSize \in Nat /\ PageSize > 1
  BY DEF Newest, NoCursor, Paged
<1>2. older = 1..m
  BY DEF Newest, NoCursor
<1>3. getTransactions(1..n, from)
        = {t \in 1..m : Cardinality({u \in 1..m : u >= t}) <= PageSize}
  BY <1>2, Zenon DEF getTransactions
<1>4. ASSUME NEW t \in 1..m PROVE Cardinality({u \in 1..m : u >= t}) = m - t + 1
  <2>1. {u \in 1..m : u >= t} = t..m
    BY <1>1
  <2>2. t \in Int /\ m \in Int /\ ~(t > m)
    BY <1>1
  <2>3. Cardinality(t..m) = m - t + 1
    BY <2>2, FS_Interval
  <2> QED
    BY <2>1, <2>3, Zenon
<1>5. {t \in 1..m : Cardinality({u \in 1..m : u >= t}) <= PageSize}
        = {t \in 1..m : m - t + 1 <= PageSize}
  BY <1>4, Zenon
<1> HIDE DEF m
<1>6. {t \in 1..m : m - t + 1 <= PageSize} = Oldest(m)..m
  BY <1>1 DEF Oldest
<1> QED
  BY <1>3, <1>5, <1>6, Zenon DEF m

\* What parse_activity makes of a page.
LEMMA PageShape ==
  ASSUME Paged, NEW n \in Nat, NEW from \in 0..n
  PROVE  LET m == Newest(n, from) IN
         /\ m = 0 => PageAt(n, from) = [items |-> {}, cursor |-> NoCursor, has_more |-> FALSE]
         /\ m # 0 => PageAt(n, from) = [items |-> VisibleIn(Oldest(m), m),
                                        cursor |-> Oldest(m), has_more |-> m >= PageSize]
<1> DEFINE m == Newest(n, from)
           raw == Oldest(m)..m
<1>1. m \in Nat /\ PageSize \in Nat /\ PageSize > 1 /\ Visible \subseteq Nat \ {0}
  BY DEF Newest, NoCursor, Paged
<1>2. PageAt(n, from) = parse_activity(raw)
  BY RawPage, Zenon DEF PageAt
<1> HIDE DEF m
<1>3. Oldest(m) \in Nat /\ Oldest(m) >= 1 /\ (m # 0 => Oldest(m) <= m)
      /\ (m = 0 => Oldest(m) > m)
  BY <1>1 DEF Oldest
<1>4. Cardinality(raw) = IF Oldest(m) > m THEN 0 ELSE m - Oldest(m) + 1
  <2>1. Oldest(m) \in Int /\ m \in Int
    BY <1>1, <1>3
  <2> QED
    BY <2>1, FS_Interval, Zenon
<1>5. (Cardinality(raw) >= PageSize) = (m >= PageSize)
  <2>1. Cardinality(raw) = IF m > PageSize THEN PageSize ELSE m
    BY <1>1, <1>3, <1>4 DEF Oldest
  <2>2. CASE m > PageSize
    <3>1. Cardinality(raw) = PageSize
      BY <2>1, <2>2, Zenon
    <3>2. (PageSize >= PageSize) = (m >= PageSize)
      BY <1>1, <2>2
    <3> QED
      BY <3>1, <3>2, Zenon
  <2>3. CASE ~(m > PageSize)
    BY <2>1, <2>3, Zenon
  <2> QED
    BY <2>2, <2>3
<1>6. raw \cap Visible = VisibleIn(Oldest(m), m)
  <2>1. \A t \in Visible : t \in Nat
    BY <1>1, Zenon
  <2>2. \A t \in Visible : t \in raw <=> Oldest(m) <= t /\ t <= m
    BY <1>1, <1>3, <2>1
  <2> QED
    BY <2>2, Zenon DEF VisibleIn
<1>7. CASE m = 0
  <2>1. raw = {} /\ ~(m >= PageSize)
    BY <1>1, <1>3, <1>7
  <2>2. (Cardinality(raw) >= PageSize) = FALSE
    BY <1>5, <2>1
  <2> QED
    BY <1>2, <1>7, <2>1, <2>2, Zenon DEF parse_activity, m
<1>8. CASE m # 0
  <2>1. Oldest(m) \in raw /\ \A x \in raw : Oldest(m) <= x /\ raw \subseteq Nat
    BY <1>1, <1>3, <1>8
  <2>2. Min(raw) = Oldest(m)
    <3>1. \A x \in raw : (\A y \in raw : x <= y) => x = Oldest(m)
      BY <1>1, <1>3, <2>1
    <3> QED
      BY <2>1, <3>1, Zenon DEF Min
  <2>3. raw # {}
    BY <2>1
  <2> QED
    BY <1>2, <1>5, <1>6, <1>8, <2>2, <2>3, Zenon DEF parse_activity, m
<1> QED
  BY <1>7, <1>8 DEF m

\* A non-empty bounded set of logical times has a newest member.
LEMMA MaxIsNewest ==
  ASSUME NEW n \in Nat, NEW S \in SUBSET Nat, S # {}, \A x \in S : x <= n
  PROVE  Max(S) \in S /\ \A x \in S : x <= Max(S)
<1> DEFINE T == {k \in Nat : n - k \in S}
           R == OpToRel(<, Nat)
<1>1. T \subseteq Nat
  OBVIOUS
<1>2. T # {}
  <2>1. PICK x \in S : TRUE
    BY Zenon
  <2>2. n - x \in Nat /\ n - (n - x) = x
    BY <2>1
  <2> QED
    BY <2>1, <2>2
<1>3. IsWellFoundedOn(R, Nat)
  BY NatLessThanWellFounded, Zenon
<1> HIDE DEF R
<1>4. PICK k \in T : \A j \in T : ~(<<j, k>> \in R)
  BY <1>1, <1>2, <1>3, WFMin, Zenon
<1>5. \A j \in T : ~(j < k)
  <2>1. \A i, j \in Nat : i < j => <<i, j>> \in R
    BY DEF R, OpToRel
  <2> QED
    BY <1>1, <1>4, <2>1, Zenon
<1>6. n - k \in S /\ k \in Nat
  BY <1>4
<1>7. ASSUME NEW x \in S PROVE n - k >= x
  <2>1. n - x \in Nat /\ n - (n - x) = x
    BY <1>7
  <2>2. n - x \in T
    BY <2>1
  <2>3. ~(n - x < k)
    BY <1>5, <2>2, Zenon
  <2> QED
    BY <1>6, <1>7, <2>1, <2>3
<1>8. \E x \in S : \A y \in S : x >= y
  BY <1>6, <1>7, Zenon
<1>9. Max(S) \in S /\ \A y \in S : Max(S) >= y
  BY <1>8, Zenon DEF Max
<1> QED
  BY <1>9

\* How many of two resources failed.
LEMMA FailedResources ==
  ASSUME NEW phase, NEW failed,
         failed = {r \in {"account", "activity"} : phase[r] = "Failed"}
  PROVE  /\ Cardinality(failed) = 0 <=>
              phase["account"] # "Failed" /\ phase["activity"] # "Failed"
         /\ Cardinality(failed) = 2 <=>
              phase["account"] = "Failed" /\ phase["activity"] = "Failed"
         /\ Cardinality(failed) \in 0..2
<1>1. CASE failed = {}
  <2>1. phase["account"] # "Failed" /\ phase["activity"] # "Failed"
    BY <1>1, Zenon
  <2>2. Cardinality(failed) = 0
    BY <1>1, FS_EmptySet, Zenon
  <2> QED
    BY <2>1, <2>2
<1>2. ASSUME NEW x, failed = {x}, NEW y, x # y, {x, y} = {"account", "activity"}
      PROVE  Cardinality(failed) = 1 /\ phase[x] = "Failed" /\ phase[y] # "Failed"
  BY <1>2, FS_Singleton, Zenon
<1>3. CASE failed = {"account", "activity"}
  <2>1. phase["account"] = "Failed" /\ phase["activity"] = "Failed"
    BY <1>3, Zenon
  <2>2. IsFiniteSet({"account"}) /\ Cardinality({"account"}) = 1
    BY FS_Singleton, Zenon
  <2>3. failed = {"account"} \cup {"activity"} /\ "activity" \notin {"account"}
    BY <1>3
  <2>4. Cardinality(failed) = 2
    BY <2>2, <2>3, FS_AddElement
  <2> QED
    BY <2>1, <2>4
<1>4. CASE failed = {"account"}
  <2>1. {"account", "activity"} = {"account", "activity"} /\ "account" # "activity"
    OBVIOUS
  <2>2. Cardinality(failed) = 1 /\ phase["account"] = "Failed"
        /\ phase["activity"] # "Failed"
    BY <1>2, <1>4, <2>1, Zenon
  <2> QED
    BY <2>2
<1>5. CASE failed = {"activity"}
  <2>1. {"activity", "account"} = {"account", "activity"} /\ "account" # "activity"
    OBVIOUS
  <2>2. Cardinality(failed) = 1 /\ phase["activity"] = "Failed"
        /\ phase["account"] # "Failed"
    BY <1>2, <1>5, <2>1, Zenon
  <2> QED
    BY <2>2
<1>6. \/ failed = {} \/ failed = {"account", "activity"} \/ failed = {"account"}
      \/ failed = {"activity"}
  BY Zenon
<1> QED
  BY <1>1, <1>3, <1>4, <1>5, <1>6, Zenon

\* What the merges of the feed rest on.
LEMMA ActivityMerges ==
  ASSUME Paged
  PROVE  Merges
<1>1. PageShapes
  BY PageShape, Zenon DEF PageShapes
<1>2. NewestExists
  BY MaxIsNewest, Zenon DEF NewestExists
<1> QED
  BY <1>1, <1>2, MergesHold, Zenon

-----------------------------------------------------------------------------
(* The rows of an NFT page.                                                *)

\* A set of naturals that has 0 and with every number the next one has them all.
LEMMA Induction ==
  ASSUME NEW S, 0 \in S, \A k \in Nat : k \in S => k + 1 \in S
  PROVE  \A k \in Nat : k \in S
<1> DEFINE T == {k \in Nat : k \notin S}
           R == OpToRel(<, Nat)
<1> SUFFICES ASSUME T # {} PROVE FALSE
  BY Zenon
<1>1. IsWellFoundedOn(R, Nat)
  BY NatLessThanWellFounded, Zenon
<1>2. \A i, j \in Nat : i < j => <<i, j>> \in R
  BY DEF OpToRel
<1> HIDE DEF R
<1>3. PICK k \in T : \A j \in T : ~(<<j, k>> \in R)
  BY <1>1, WFMin, Zenon
<1>4. k \in Nat /\ k # 0
  BY <1>3, Zenon
<1>5. k - 1 \in Nat /\ k - 1 < k /\ (k - 1) + 1 = k
  BY <1>4
<1>6. k - 1 \in S
  BY <1>2, <1>3, <1>4, <1>5, Zenon
<1>7. (k - 1) + 1 \in S
  BY <1>5, <1>6, Zenon
<1> QED
  BY <1>3, <1>5, <1>7, Zenon

\* The lists that AppendRows goes through, row by row.
Merging(f, items, rows) ==
  f[0] = items /\ \A i \in 1..Len(rows) : f[i] = AppendUnseen(f[i - 1], rows[i])

\* AppendRows ends with the last of these lists.
LEMMA RowByRow ==
  ASSUME NEW items, NEW rows, Len(rows) \in Nat
  PROVE  \E f : Merging(f, items, rows) /\ AppendRows(items, rows) = f[Len(rows)]
<1> DEFINE Row(f, i) == IF i = 0 THEN items ELSE AppendUnseen(f[i - 1], rows[i])
           S == {k \in Nat : \E f : f = [i \in 0..k |-> Row(f, i)]}
<1>1. 0 \in S
  <2> DEFINE f == [i \in 0..0 |-> items]
  <2>1. \A i \in 0..0 : Row(f, i) = items
    OBVIOUS
  <2>2. f = [i \in 0..0 |-> Row(f, i)]
    BY <2>1, Zenon
  <2> QED
    BY <2>2, Zenon
<1>2. ASSUME NEW k \in Nat, k \in S PROVE k + 1 \in S
  <2>1. PICK f : f = [i \in 0..k |-> Row(f, i)]
    BY <1>2, Zenon
  <2> DEFINE g == [i \in 0..(k + 1) |->
                     IF i = k + 1 THEN AppendUnseen(f[k], rows[k + 1]) ELSE f[i]]
  <2>2. ASSUME NEW i \in 0..(k + 1) PROVE g[i] = Row(g, i)
    <3>1. CASE i = k + 1
      <4>1. i - 1 = k /\ k \in 0..(k + 1) /\ k # k + 1 /\ i # 0
        BY <3>1
      <4>2. g[k] = f[k] /\ g[i] = AppendUnseen(f[k], rows[k + 1])
        BY <3>1, <4>1, Zenon
      <4> QED
        BY <3>1, <4>1, <4>2, Zenon
    <3>2. CASE i # k + 1
      <4>1. i \in 0..k /\ (i # 0 => i - 1 \in 0..(k + 1) /\ i - 1 # k + 1)
        BY <3>2
      <4>2. g[i] = f[i] /\ (i # 0 => g[i - 1] = f[i - 1])
        BY <3>2, <4>1, Zenon
      <4>3. f[i] = Row(f, i)
        BY <2>1, <4>1, Zenon
      <4> QED
        BY <4>1, <4>2, <4>3, Zenon
    <3> QED
      BY <3>1, <3>2
  <2>3. g = [i \in 0..(k + 1) |-> g[i]]
    BY Zenon
  <2> HIDE DEF g
  <2>4. g = [i \in 0..(k + 1) |-> Row(g, i)]
    BY <2>2, <2>3, Zenon
  <2>5. k + 1 \in Nat
    OBVIOUS
  <2> QED
    BY <2>4, <2>5, Zenon
<1>3. Len(rows) \in S
  <2> HIDE DEF S
  <2> QED
    BY <1>1, <1>2, Induction, Zenon
<1> DEFINE f == CHOOSE f : f = [i \in 0..Len(rows) |-> Row(f, i)]
<1>4. f = [i \in 0..Len(rows) |-> Row(f, i)]
  BY <1>3, Zenon
<1>5. AppendRows(items, rows) = f[Len(rows)]
  BY Zenon DEF AppendRows
<1> HIDE DEF f
<1>6. 0 \in 0..Len(rows) /\ \A i \in 1..Len(rows) : i \in 0..Len(rows) /\ i # 0
  OBVIOUS
<1>7. f[0] = items /\ \A i \in 1..Len(rows) : f[i] = AppendUnseen(f[i - 1], rows[i])
  BY <1>4, <1>6, Zenon
<1> QED
  BY <1>5, <1>7, Zenon DEF Merging

\* One row: it is appended unless it is there.
LEMMA OneRow ==
  ASSUME NEW S, NEW s \in Seq(S), IsInjective(s), NEW x \in S
  PROVE  LET t == AppendUnseen(s, x) IN
         t \in Seq(S) /\ IsInjective(t) /\ Range(t) = Range(s) \cup {x}
<1> DEFINE t == AppendUnseen(s, x)
<1>1. CASE x \in Range(s)
  <2>1. t = s
    BY <1>1, Zenon DEF AppendUnseen
  <2> QED
    BY <1>1, <2>1, Zenon
<1>2. CASE x \notin Range(s)
  <2>1. t = Append(s, x)
    BY <1>2, Zenon DEF AppendUnseen
  <2> HIDE DEF t
  <2>2. /\ t \in Seq(S) /\ DOMAIN s = 1..Len(s) /\ DOMAIN t = 1..(Len(s) + 1)
        /\ Len(s) \in Nat /\ t[Len(s) + 1] = x
        /\ \A i \in 1..Len(s) : t[i] = s[i]
    BY <2>1
  <2>3. \A i \in 1..(Len(s) + 1) : i \in 1..Len(s) \/ i = Len(s) + 1
    BY <2>2
  <2>4. \A i \in 1..Len(s) : s[i] # x
    BY <1>2, <2>2, Zenon DEF Range
  <2>5. IsInjective(t)
    BY <2>2, <2>3, <2>4, Zenon DEF IsInjective
  <2>6. Len(s) + 1 \in 1..(Len(s) + 1) /\ \A i \in 1..Len(s) : i \in 1..(Len(s) + 1)
    BY <2>2
  <2>7. Range(t) = Range(s) \cup {x}
    BY <2>2, <2>3, <2>6, Zenon DEF Range
  <2> QED
    BY <2>2, <2>5, <2>7, Zenon DEF t
<1> QED
  BY <1>1, <1>2

\* What the merge of a page keeps and adds.
LEMMA AllRows ==
  ASSUME NEW S, NEW items \in Seq(S), IsInjective(items), NEW rows \in Seq(S)
  PROVE  LET t == AppendRows(items, rows) IN
         t \in Seq(S) /\ IsInjective(t) /\ Range(t) = Range(items) \cup Range(rows)
<1> DEFINE Upto(k) == {rows[i] : i \in 1..k}
<1>1. Len(rows) \in Nat /\ DOMAIN rows = 1..Len(rows) /\ \A i \in 1..Len(rows) : rows[i] \in S
  OBVIOUS
<1>2. PICK f : Merging(f, items, rows) /\ AppendRows(items, rows) = f[Len(rows)]
  BY <1>1, RowByRow, Zenon
<1> DEFINE T == {k \in Nat : k <= Len(rows) =>
                   /\ f[k] \in Seq(S) /\ IsInjective(f[k])
                   /\ Range(f[k]) = Range(items) \cup Upto(k)}
<1>3. 0 \in T
  <2>1. Upto(0) = {}
    OBVIOUS
  <2> HIDE DEF Upto
  <2> QED
    BY <1>2, <2>1 DEF Merging
<1>4. ASSUME NEW k \in Nat, k \in T PROVE k + 1 \in T
  <2> SUFFICES ASSUME k + 1 <= Len(rows)
               PROVE  /\ f[k + 1] \in Seq(S) /\ IsInjective(f[k + 1])
                      /\ Range(f[k + 1]) = Range(items) \cup Upto(k + 1)
    <3>1. k + 1 \in Nat
      OBVIOUS
    <3> QED
      BY <3>1, Zenon
  <2>1. k <= Len(rows) /\ k + 1 \in 1..Len(rows) /\ (k + 1) - 1 = k
    BY <1>1
  <2>2. /\ f[k] \in Seq(S) /\ IsInjective(f[k])
        /\ Range(f[k]) = Range(items) \cup Upto(k)
    BY <1>4, <2>1, Zenon
  <2>3. rows[k + 1] \in S /\ f[k + 1] = AppendUnseen(f[k], rows[k + 1])
    BY <1>1, <1>2, <2>1, Zenon DEF Merging
  <2>4. \A i : i \in 1..(k + 1) <=> i \in 1..k \/ i = k + 1
    OBVIOUS
  <2>5. Upto(k + 1) = Upto(k) \cup {rows[k + 1]}
    BY <2>4, Zenon
  <2> HIDE DEF Upto
  <2>6. f[k + 1] \in Seq(S) /\ IsInjective(f[k + 1])
        /\ Range(f[k + 1]) = Range(f[k]) \cup {rows[k + 1]}
    BY <2>2, <2>3, OneRow
  <2> QED
    BY <2>2, <2>5, <2>6, Zenon
<1>5. Len(rows) \in T
  <2> HIDE DEF T
  <2> QED
    BY <1>1, <1>3, <1>4, Induction, Zenon
<1>6. /\ f[Len(rows)] \in Seq(S) /\ IsInjective(f[Len(rows)])
      /\ Range(f[Len(rows)]) = Range(items) \cup Upto(Len(rows))
  <2>1. Len(rows) <= Len(rows)
    BY <1>1
  <2> QED
    BY <1>5, <2>1, Zenon
<1>7. Range(rows) = Upto(Len(rows))
  BY <1>1, Zenon DEF Range
<1> QED
  BY <1>2, <1>6, <1>7, Zenon

\* Every merge of a page of NFTs keeps and adds what it should.
LEMMA RowsMergeHolds ==
  ASSUME NEW Items
  PROVE  RowsMerge(Items)
BY AllRows, ZenonT(30) DEF RowsMerge

-----------------------------------------------------------------------------
(* The theorems.                                                           *)

\* The invariant holds in every reachable state of a client.
THEOREM ClientInvariant ==
  ASSUME Configured
  PROVE  Spec => [](SlotInv /\ ListInv)
<1>1. Merges
  BY ActivityMerges, Zenon DEF Configured, Paged
<1>2. Init => SlotInv /\ ListInv
  BY SlotsInit, ListInit, Zenon
<1>3. (SlotInv /\ ListInv) /\ [Next]_vars => (SlotInv /\ ListInv)'
  BY <1>1, ClientKeeps, Zenon
<1> QED
  BY <1>2, <1>3, PTL DEF Spec

\* The slots of a client work as locks, for any number of calls of any kind
\* (is_current, mark_loading_cancelled and prepare_shutdown): the owner of a slot
\* is a running call, a send excludes a resolution, and a resource is shown as
\* loading only while its operation owns the slot.
THEOREM ClientSlots ==
  ASSUME Configured
  PROVE  Spec => []SlotsAreOwned
<1>1. SlotInv /\ ListInv => SlotsAreOwned
  <2> SUFFICES ASSUME SlotInv, ListInv PROVE SlotsAreOwned
    OBVIOUS
  <2>1. ASSUME NEW c \in Calls, NEW f \in Family, Holds(c, f) PROVE HeldFamily(c) = f
    BY <2>1, Zenon DEF Holds, FamilyAt, HeldFamily
  <2>2. SlotHasOwner
    BY <2>1, Zenon DEF SlotHasOwner, SlotInv, Owned
  <2> QED
    BY <2>2, Zenon DEF SlotsAreOwned, SlotInv, Exclusion, ListInv
<1> QED
  BY <1>1, ClientInvariant, PTL

\* The activity feed has what it should, whatever refreshes, page loads,
\* cancellations and new transactions interleave (apply_refreshed_activity_page
\* and apply_activity_page): it lacks exactly what its refreshes jumped over, and
\* when it says that nothing older exists, all older than its first page is there.
THEOREM ClientActivity ==
  ASSUME Configured
  PROVE  Spec => []ActivityIsExact
<1>1. ListInv => ActivityIsExact
  <2> SUFFICES ASSUME ListInv PROVE ActivityIsExact
    OBVIOUS
  <2>1. FeedAt(feed, chain) /\ FullBelow(feed, top) /\ top \in Nat
        /\ (feed.items # {} => WholeBut(feed, skipped))
    BY Zenon DEF ListInv, FeedInv
  <2>2. OnlyRefreshesSkip
    BY <2>1, Zenon DEF OnlyRefreshesSkip
  <2>3. ASSUME feed.items # {}, ~feed.has_more
        PROVE  {t \in Visible : t <= top} \subseteq feed.items
    <3>1. feed.cursor = 1
      BY <2>1, <2>3, Zenon DEF FeedAt
    <3>2. \A t \in Visible : 1 <= t
      BY DEF Configured
    <3> QED
      BY <2>1, <2>3, <3>1, <3>2, Zenon DEF FullBelow, VisibleIn
  <2> QED
    BY <2>2, <2>3, Zenon DEF ActivityIsExact, ActivityEndIsReached
<1> QED
  BY <1>1, ClientInvariant, PTL

\* Every change of the snapshot has a revision of its own, revisions never go
\* back, after shutdown no late answer changes anything, and a refresh returns
\* what its own two requests answered (next_revision and the publishing calls).
THEOREM ClientPublishes ==
  ASSUME Configured
  PROVE  Spec => ChangesArePublished
<1>1. ASSUME SlotInv, ListInv, [Next]_vars PROVE PublishesChange
  <2>1. PubStep /\ revision \in Nat
    BY <1>1, EveryStep, Zenon DEF SlotInv, SlotTypes
  <2>2. revision' >= revision
    BY <2>1 DEF PubStep
  <2> QED
    BY <2>1, <2>2, Zenon DEF PubStep, PublishesChange, snapshot
<1>2. ASSUME SlotInv, ListInv, [Next]_vars PROVE OutcomeOfRefresh
  <2> SUFFICES ASSUME NEW c \in Calls, pc[c] = "finish", pc'[c] = "done"
               PROVE  /\ outcome'[c] = "Completed" => ans[c].account /\ ans[c].status = "ok"
                      /\ outcome'[c] = "Failed" => ~ans[c].account /\ ans[c].status = "error"
                      /\ outcome'[c] = "PartiallyCompleted" =>
                           (ans[c].account <=> ans[c].status = "error")
    BY <1>2, Zenon DEF OutcomeOfRefresh
  <2>1. RefreshFinish(c)
    BY <1>2, FinishStep, Zenon DEF SlotInv, ListInv
  <2>2. DOMAIN outcome = Calls
    BY <1>2, Zenon DEF ListInv, Locals
  <2>3. CASE ~is_current("Refresh", gen[c])
    <3>1. outcome'[c] = "Superseded"
      BY <2>1, <2>2, <2>3, Zenon DEF RefreshFinish, return
    <3> QED
      BY <3>1
  <2>4. CASE is_current("Refresh", gen[c])
    <3> DEFINE failed == {r \in {"account", "activity"} : resource[r] = "Failed"}
               k == Cardinality(failed)
    <3>1. outcome'[c] = <<"Completed", "PartiallyCompleted", "Failed">>[k + 1]
      BY <2>1, <2>2, <2>4, Zenon DEF RefreshFinish, return
    <3>2. /\ k = 0 <=> resource["account"] # "Failed" /\ resource["activity"] # "Failed"
          /\ k = 2 <=> resource["account"] = "Failed" /\ resource["activity"] = "Failed"
          /\ k \in 0..2
      BY FailedResources, Zenon
    <3> HIDE DEF k
    <3>3. /\ outcome'[c] = "Completed" => k = 0
          /\ outcome'[c] = "Failed" => k = 2
          /\ outcome'[c] = "PartiallyCompleted" => k # 0 /\ k # 2
      BY <3>1, <3>2
    <3>4. /\ ans[c].status \in {"ok", "error"} /\ ans[c].account \in BOOLEAN
          /\ resource["account"] = IF ans[c].account THEN "Ready" ELSE "Failed"
          /\ resource["activity"] = IF ans[c].status = "ok" THEN "Ready" ELSE "Failed"
      BY <1>2, <2>4, Zenon DEF ListInv, RefreshInv
    <3>5. (resource["account"] = "Failed") <=> ~ans[c].account
      BY <3>4, Zenon
    <3>6. (resource["activity"] = "Failed") <=> ans[c].status = "error"
      BY <3>4, Zenon
    <3>7. ans[c].status = "ok" <=> ~(ans[c].status = "error")
      BY <3>4, Zenon
    <3> QED
      BY <3>2, <3>3, <3>5, <3>6, <3>7, Zenon
  <2> QED
    BY <2>3, <2>4
<1> QED
  BY <1>1, <1>2, ClientInvariant, PTL DEF Spec, ChangesArePublished

\* What the invariants say of the list that a client shows.
LEMMA NftShown ==
  ASSUME ListInv, NftInv
  PROVE  NftListIsWhole
<1>1. PageContinuesList
  BY Zenon DEF ListInv, NftInv, TailInv, MoreRows, PageContinuesList
<1>2. NftsAreDistinct
  BY Zenon DEF NftInv, NftTypes, NftsAreDistinct
<1>3. NftsAreComplete
  <2>1. DOMAIN owned = 1..Len(owned)
    BY DEF NftInv, NftTypes
  <2> QED
    BY <2>1, Zenon DEF NftInv, ListCovers, Covers, NftsAreComplete, Range
<1> QED
  BY <1>1, <1>2, <1>3, Zenon DEF NftListIsWhole

\* The NFT list that a client shows is whole, for any number of calls of any kind
\* and any list of NFTs that moves between the pages (refresh_nfts and
\* load_more_nfts): a page continues the list that it is merged into, no NFT is
\* listed twice, and at the end of the list no NFT that stayed is missing.
THEOREM ClientNfts ==
  ASSUME Configured
  PROVE  Spec => []NftListIsWhole
<1>1. RowsMerge(Nfts)
  BY RowsMergeHolds, Zenon
<1>2. Init => NftInv
  BY NftInit
<1>3. (SlotInv /\ ListInv) /\ (SlotInv /\ ListInv)' /\ NftInv /\ [Next]_vars => NftInv'
  BY <1>1, NftKeeps, Zenon DEF ListInv
<1>4. ListInv /\ NftInv => NftListIsWhole
  BY NftShown, Zenon
<1> QED
  BY <1>2, <1>3, <1>4, ClientInvariant, PTL DEF Spec
=============================================================================
