----------------------------- MODULE PageProofs -----------------------------
(***************************************************************************)
(* Theorems about what a page shows: WorkspaceTabs, QueryTab, ChatStream,  *)
(* ChatCharts and ProviderKeys, for any number of tabs, edits, rows, turns,*)
(* documents and calls.                                                    *)
(***************************************************************************)
EXTENDS WorkspaceTabs, QueryTab, ChatStream, ChatCharts, ProviderKeys,
        Integers, FiniteSetTheorems, SequenceTheorems, WellFoundedInduction,
        TLAPS

-----------------------------------------------------------------------------
(* WorkspaceTabs: the tabs, their content and their way to disk and back.   *)

\* A set of places of a list is finite.
LEMMA IndicesAreFinite ==
    ASSUME NEW n \in Nat, NEW I \in SUBSET (1 .. n)
    PROVE  IsFiniteSet(I) /\ Cardinality(I) \in Nat
<1>1. IsFiniteSet(1 .. n)
  BY FS_Interval
<1> QED
  BY <1>1, FS_Subset, FS_CardinalityType

\* The rank of an index in a set of indices is a place in the list they give.
LEMMA RankIsPlace ==
    ASSUME NEW n \in Nat, NEW I \in SUBSET (1 .. n), NEW i \in I
    PROVE  Rank(I, i) \in 1 .. Cardinality(I)
<1> DEFINE upto == {j \in I : j <= i}
<1>1. upto \in SUBSET I /\ i \in upto
  OBVIOUS
<1>2. IsFiniteSet(I) /\ Cardinality(I) \in Nat
  BY IndicesAreFinite
<1>3. IsFiniteSet(upto) /\ Cardinality(upto) <= Cardinality(I)
  BY <1>1, <1>2, FS_Subset
<1>4. Cardinality(upto) \in Nat /\ Cardinality(upto) # 0
  BY <1>1, <1>3, FS_CardinalityType, FS_EmptySet
<1>5. Cardinality(upto) \in 1 .. Cardinality(I)
  BY <1>2, <1>3, <1>4
<1> QED
  BY <1>5 DEF Rank

\* No two indices have one rank.
LEMMA RankIsOwn ==
    ASSUME NEW n \in Nat, NEW I \in SUBSET (1 .. n), NEW i \in I, NEW j \in I, Rank(I, i) = Rank(I, j)
    PROVE  i = j
<1>1. ASSUME NEW x \in I, NEW y \in I, Rank(I, x) = Rank(I, y), x <= y PROVE x = y
  <2> DEFINE below == {k \in I : k <= x}
             upto  == {k \in I : k <= y}
  <2>0. \A k \in I : k \in Int
    OBVIOUS
  <2>1. \A k \in I : k <= x => k <= y
    BY <1>1, <2>0
  <2>1a. below \in SUBSET upto
    BY <2>1
  <2>2. IsFiniteSet(upto)
    BY IndicesAreFinite, FS_Subset
  <2>3. Cardinality(upto) = Cardinality(below)
    BY <1>1 DEF Rank
  <2>4. upto = below
    BY <2>1a, <2>2, <2>3, FS_Subset
  <2>5. y \in below
    BY <2>4
  <2> QED
    BY <1>1, <2>5
<1>2. i <= j \/ j <= i
  OBVIOUS
<1> QED
  BY <1>1, <1>2

\* The indices of a set can be counted off, each once: the rank is a one-to-one
\* map between finite sets of one size, so that it takes every value.
LEMMA NthIsThere ==
    ASSUME NEW n \in Nat, NEW I \in SUBSET (1 .. n)
    PROVE  /\ \A k \in 1 .. Cardinality(I) : Nth(I, k) \in I /\ Rank(I, Nth(I, k)) = k
           /\ \A i \in I : \E k \in 1 .. Cardinality(I) : Nth(I, k) = i
<1> DEFINE rank == [i \in I |-> Rank(I, i)]
           places == 1 .. Cardinality(I)
<1>1. IsFiniteSet(I) /\ Cardinality(I) \in Nat
  BY IndicesAreFinite
<1>2. IsFiniteSet(places) /\ Cardinality(places) = Cardinality(I)
  BY <1>1, FS_Interval
<1>3. rank \in [I -> places]
  BY RankIsPlace
<1>4. \A i, j \in I : rank[i] = rank[j] => i = j
  BY RankIsOwn
<1>5. rank \in Injection(I, places)
  BY <1>3, <1>4 DEF Injection, IsInjective
<1>6. rank \in Surjection(I, places)
  BY <1>2, <1>5, FS_Injection
<1>7. \A k \in places : \E i \in I : Rank(I, i) = k
  BY <1>6 DEF Surjection
<1>8. \A k \in places : Nth(I, k) \in I /\ Rank(I, Nth(I, k)) = k
  BY <1>7 DEF Nth
<1>9. ASSUME NEW i \in I PROVE \E k \in places : Nth(I, k) = i
  <2>1. Rank(I, i) \in places
    BY RankIsPlace
  <2>2. Nth(I, Rank(I, i)) \in I /\ Rank(I, Nth(I, Rank(I, i))) = Rank(I, i)
    BY <1>8, <2>1
  <2>3. Nth(I, Rank(I, i)) = i
    BY <2>2, RankIsOwn
  <2> QED
    BY <2>1, <2>3
<1> QED
  BY <1>8, <1>9

\* Counted off from all of them, an index is its own number.
LEMMA NthOfAll == ASSUME NEW n \in Nat, NEW k \in 1 .. n PROVE Nth(1 .. n, k) = k
<1>1. Cardinality(1 .. n) = n
  BY FS_Interval
<1>2. Nth(1 .. n, k) \in 1 .. n /\ Rank(1 .. n, Nth(1 .. n, k)) = k
  BY <1>1, NthIsThere
<1>3. {j \in 1 .. n : j <= k} = 1 .. k
  OBVIOUS
<1>4. k \in Int /\ 1 \in Int /\ ~(1 > k) /\ k - 1 + 1 = k
  OBVIOUS
<1>5. Cardinality(1 .. k) = k
  BY <1>4, FS_Interval
<1>6. Rank(1 .. n, k) = k
  BY <1>3, <1>5 DEF Rank
<1>7. 1 .. n \in SUBSET (1 .. n)
  OBVIOUS
<1> QED
  BY <1>2, <1>6, <1>7, RankIsOwn

\* What filter leaves: elements of the list, each of those chosen once.
LEMMA SubsequenceIs ==
    ASSUME NEW S, NEW s \in Seq(S), NEW I \in SUBSET DOMAIN s
    PROVE  /\ Subsequence(s, I) \in Seq(S)
           /\ \A k \in DOMAIN Subsequence(s, I) : Nth(I, k) \in I /\ Subsequence(s, I)[k] = s[Nth(I, k)]
           /\ \A k, l \in DOMAIN Subsequence(s, I) : Nth(I, k) = Nth(I, l) => k = l
           /\ \A i \in I : \E k \in DOMAIN Subsequence(s, I) : Nth(I, k) = i
           /\ I # {} => 1 \in DOMAIN Subsequence(s, I)
<1>1. I \in SUBSET (1 .. Len(s)) /\ Len(s) \in Nat
  OBVIOUS
<1>2. IsFiniteSet(I) /\ Cardinality(I) \in Nat
  BY <1>1, IndicesAreFinite
<1>3. I # {} => Cardinality(I) # 0
  BY <1>2, FS_EmptySet
<1>4. /\ \A k \in 1 .. Cardinality(I) : Nth(I, k) \in I /\ Rank(I, Nth(I, k)) = k
      /\ \A i \in I : \E k \in 1 .. Cardinality(I) : Nth(I, k) = i
  BY <1>1, NthIsThere
<1>5. \A k \in 1 .. Cardinality(I) : s[Nth(I, k)] \in S
  <2> TAKE k \in 1 .. Cardinality(I)
  <2>1. Nth(I, k) \in 1 .. Len(s)
    BY <1>1, <1>4
  <2> QED
    BY <2>1
<1>6. Subsequence(s, I) = [k \in 1 .. Cardinality(I) |-> s[Nth(I, k)]]
  BY DEF Subsequence
<1>7. Subsequence(s, I) \in Seq(S) /\ DOMAIN Subsequence(s, I) = 1 .. Cardinality(I)
  BY <1>2, <1>5, <1>6
<1>8. \A k \in DOMAIN Subsequence(s, I) : Subsequence(s, I)[k] = s[Nth(I, k)]
  BY <1>6
<1>9. \A k, l \in 1 .. Cardinality(I) : Nth(I, k) = Nth(I, l) => k = l
  BY <1>4
<1>10. I # {} => 1 \in 1 .. Cardinality(I)
  BY <1>2, <1>3
<1> HIDE DEF Subsequence
<1> QED
  BY <1>4, <1>7, <1>8, <1>9, <1>10

\* A filter that leaves everything is the identity.
LEMMA WholeSubsequence ==
    ASSUME NEW S, NEW s \in Seq(S) PROVE Subsequence(s, DOMAIN s) = s
<1>1. DOMAIN s = 1 .. Len(s) /\ Len(s) \in Nat
  OBVIOUS
<1>2. Cardinality(1 .. Len(s)) = Len(s)
  BY <1>1, FS_Interval
<1>3. \A k \in 1 .. Len(s) : Nth(1 .. Len(s), k) = k
  BY <1>1, NthOfAll
<1>4. Subsequence(s, DOMAIN s) = [k \in 1 .. Len(s) |-> s[k]]
  BY <1>1, <1>2, <1>3 DEF Subsequence
<1> QED
  BY <1>1, <1>4
-----------------------------------------------------------------------------
\* A tab, by its fields.
TabRecords ==
    [id : Nat \ {0}, kind : Kinds, connectionId : Conns \cup {"boot"}, table : BOOLEAN,
     from : {"blank", "spec"}]

\* Tabs have ids of their own, all given out; one may be active, and one is if there are any.
TabsOK(w) ==
    /\ w = [tabs |-> w.tabs, activeTabId |-> w.activeTabId, nextId |-> w.nextId]
    /\ w.tabs \in Seq(TabRecords) /\ w.nextId \in Nat \ {0} /\ w.activeTabId \in Nat
    /\ \A i \in DOMAIN w.tabs : w.tabs[i].id < w.nextId
    /\ \A i, j \in DOMAIN w.tabs : w.tabs[i].id = w.tabs[j].id => i = j
    /\ \A i, j \in DOMAIN w.tabs : w.tabs[i].kind = "settings" /\ w.tabs[j].kind = "settings" => i = j
    /\ IF w.tabs = <<>> THEN w.activeTabId = NoTab ELSE w.activeTabId \in TabIds(w.tabs)

\* What is kept of a tab's content is the tab's own, and under an id that was
\* given out.
SessionsInv ==
    /\ \A i \in DOMAIN ws.tabs :
         /\ ws.tabs[i].id \in DOMAIN sessions => sessions[ws.tabs[i].id] = ws.tabs[i].from
         /\ ws.tabs[i].from = "spec" => ws.tabs[i].id \in DOMAIN sessions
    /\ \A id \in DOMAIN sessions \cup lateIds : id \in Nat /\ id < ws.nextId

\* Layouts are whole, under ids given out, and never of a tab that is not
\* written.
LayoutsInv ==
    /\ \A id \in DOMAIN layouts : id \in Nat /\ id < ws.nextId /\ layouts[id] = "whole"
    /\ \A i \in DOMAIN ws.tabs : ws.tabs[i].kind = "create-table" => ws.tabs[i].id \notin DOMAIN layouts

\* The read of the connections under way, or the last one, is of the registry as the
\* page knows it to be.
ConnsInv ==
    /\ savedConns \subseteq Conns
    /\ connRead = [at |-> connRead.at, list |-> connRead.list]
    /\ connRead.list \subseteq Conns
    /\ told = "yes" =>
         /\ connRead.at = "listed" => connRead.list = savedConns
         /\ connRead.at \in {"idle", "retry"} /\ readOk => liveConns = savedConns

\* The inductive invariant.
TabsInv == TabsOK(ws) /\ SessionsInv /\ LayoutsInv /\ ConnsInv

\* A tab that is made is one.
LEMMA TabIsRecord ==
    ASSUME NEW id \in Nat \ {0}, NEW kind \in Kinds, NEW conn \in Conns \cup {"boot"},
           NEW bound \in BOOLEAN, NEW from \in {"blank", "spec"}
    PROVE  Tab(id, kind, conn, bound, from) \in TabRecords
BY DEF Tab, TabRecords

\* A list is empty if it has no places.
LEMMA EmptySequence == ASSUME NEW S, NEW f \in Seq(S) PROVE f = <<>> <=> DOMAIN f = {}
OBVIOUS

\* A pair is a list of two.
LEMMA PairIsSequence ==
    ASSUME NEW S, NEW a \in S, NEW b \in S PROVE <<a, b>> \in Seq(S) /\ DOMAIN <<a, b>> = 1 .. 2
OBVIOUS

\* The fields of a tab.
LEMMA TabFields ==
    ASSUME NEW t \in TabRecords
    PROVE  /\ t.id \in Nat /\ t.id # 0 /\ t.kind \in Kinds /\ t.connectionId \in Conns \cup {"boot"}
           /\ t.table \in BOOLEAN /\ t.from \in {"blank", "spec"}
BY DEF TabRecords

\* The fields of a tab in a list.
LEMMA TabAt ==
    ASSUME NEW tabs \in Seq(TabRecords), NEW i \in DOMAIN tabs
    PROVE  /\ tabs[i] \in TabRecords /\ i \in Nat /\ tabs # <<>>
           /\ tabs[i].id \in Nat /\ tabs[i].id # 0 /\ tabs[i].kind \in Kinds
           /\ tabs[i].connectionId \in Conns \cup {"boot"} /\ tabs[i].from \in {"blank", "spec"}
           /\ tabs[i].id \in TabIds(tabs)
<1>1. tabs[i] \in TabRecords /\ i \in Nat /\ tabs # <<>>
  OBVIOUS
<1>2. tabs[i].id \in TabIds(tabs)
  BY DEF TabIds
<1> QED
  BY <1>1, <1>2, TabFields

\* A tab added at the end has an id of its own.
LEMMA AddedOK ==
    ASSUME NEW w, TabsOK(w), NEW kind \in Kinds, NEW conn \in Conns \cup {"boot"},
           NEW bound \in BOOLEAN, NEW from \in {"blank", "spec"},
           kind = "settings" => \A i \in DOMAIN w.tabs : w.tabs[i].kind # "settings"
    PROVE  TabsOK(Added(w, kind, conn, bound, from))
<1> DEFINE tab == Tab(w.nextId, kind, conn, bound, from)
           r == Added(w, kind, conn, bound, from)
<1>1. tab \in TabRecords /\ tab.id = w.nextId /\ tab.kind = kind
  BY TabIsRecord DEF TabsOK, Tab
<1>2. r.tabs = Append(w.tabs, tab) /\ r.activeTabId = w.nextId /\ r.nextId = w.nextId + 1
  BY DEF Added
<1> HIDE DEF tab, r
<1>3. w.tabs \in Seq(TabRecords) /\ w.nextId \in Nat \ {0}
  BY DEF TabsOK
<1>4. PICK n \in Nat : n = Len(w.tabs)
  BY <1>3
<1>5. /\ r.tabs \in Seq(TabRecords) /\ DOMAIN r.tabs = 1 .. n + 1 /\ DOMAIN w.tabs = 1 .. n
      /\ r.tabs[n + 1] = tab /\ \A i \in 1 .. n : r.tabs[i] = w.tabs[i]
      /\ r.tabs # <<>>
  BY <1>1, <1>2, <1>3, <1>4
<1>6. \A i \in 1 .. n + 1 : i \in 1 .. n \/ i = n + 1
  OBVIOUS
<1>7. \A i \in 1 .. n : w.tabs[i].id \in Nat /\ w.tabs[i].id < w.nextId
  BY <1>3, <1>5, TabAt DEF TabsOK
<1>8. \A i \in DOMAIN r.tabs : r.tabs[i].id < r.nextId
  BY <1>1, <1>2, <1>3, <1>5, <1>6, <1>7
<1>9. \A i, j \in DOMAIN r.tabs : r.tabs[i].id = r.tabs[j].id => i = j
  <2>1. \A i \in 1 .. n : w.tabs[i].id # w.nextId
    BY <1>3, <1>7
  <2>2. \A i, j \in 1 .. n : w.tabs[i].id = w.tabs[j].id => i = j
    BY <1>5 DEF TabsOK
  <2> QED
    BY <1>1, <1>5, <1>6, <2>1, <2>2
<1>10. \A i, j \in DOMAIN r.tabs : r.tabs[i].kind = "settings" /\ r.tabs[j].kind = "settings" => i = j
  BY <1>1, <1>5, <1>6 DEF TabsOK
<1>11. r.activeTabId \in TabIds(r.tabs)
  BY <1>1, <1>2, <1>4, <1>5 DEF TabIds
<1>12a. r = [tabs |-> r.tabs, activeTabId |-> r.activeTabId, nextId |-> r.nextId]
  BY DEF r, Added
<1>12. TabsOK(r)
  BY <1>12a, <1>2, <1>3, <1>5, <1>8, <1>9, <1>10, <1>11 DEF TabsOK
<1> QED
  BY <1>12 DEF r

\* Another tab becomes active.
LEMMA ActivateOK ==
    ASSUME NEW w, TabsOK(w), NEW id
    PROVE  TabsOK(Activate(w, id)) /\ Activate(w, id).tabs = w.tabs /\ Activate(w, id).nextId = w.nextId
<1>1. CASE id \in TabIds(w.tabs)
  <2>1. PICK r : r = Activate(w, id)
    OBVIOUS
  <2>2. r = [tabs |-> w.tabs, activeTabId |-> id, nextId |-> w.nextId]
    BY <1>1, <2>1 DEF Activate, TabsOK
  <2>3. r.tabs = w.tabs /\ r.activeTabId = id /\ r.nextId = w.nextId
    BY <2>2
  <2>4. id \in Nat /\ w.tabs # <<>>
    <3>1. PICK i \in DOMAIN w.tabs : w.tabs[i].id = id
      BY <1>1 DEF TabIds
    <3> QED
      BY <3>1, TabAt DEF TabsOK
  <2> QED
    BY <1>1, <2>1, <2>2, <2>3, <2>4 DEF TabsOK
<1>2. CASE id \notin TabIds(w.tabs)
  BY <1>2 DEF Activate
<1> QED
  BY <1>1, <1>2

\* A tab is opened: one is added, or the one there is becomes active.
LEMMA OpenOK ==
    ASSUME NEW w, TabsOK(w), NEW kind \in Kinds, NEW from \in {"blank", "spec"},
           NEW r, r = OpenTab(w, kind, from)
    PROVE  /\ TabsOK(r)
           /\ \/ r = Added(w, kind, "boot", FALSE, "blank") /\ kind \in {"settings", "create-table"}
              \/ r = Added(w, kind, "boot", FALSE, from) /\ kind \notin {"settings", "create-table"}
              \/ r.tabs = w.tabs /\ r.nextId = w.nextId /\ kind \in {"settings", "create-table"}
<1>1. CASE kind \notin {"settings", "create-table"}
  <2>1. TabsOK(Added(w, kind, "boot", FALSE, from))
    BY <1>1, AddedOK
  <2> QED
    BY <1>1, <2>1 DEF OpenTab
<1>2. CASE kind \in {"settings", "create-table"}
  <2> DEFINE there == {i \in DOMAIN w.tabs : w.tabs[i].kind = kind}
  <2>1. CASE there # {}
    <3>1. OpenTab(w, kind, from) = Activate(w, w.tabs[Nth(there, 1)].id)
      BY <1>2, <2>1 DEF OpenTab, OpenOrFocus
    <3> QED
      BY <1>2, <3>1, ActivateOK
  <2>2. CASE there = {}
    <3>1. OpenTab(w, kind, from) = Added(w, kind, "boot", FALSE, "blank")
      BY <1>2, <2>2 DEF OpenTab, OpenOrFocus
    <3>2. TabsOK(Added(w, kind, "boot", FALSE, "blank"))
      BY <2>2, AddedOK
    <3> QED
      BY <1>2, <3>1, <3>2
  <2> QED
    BY <2>1, <2>2
<1> QED
  BY <1>1, <1>2

\* A tab is closed: the others stay, and one of them is active.
LEMMA CloseOK ==
    ASSUME NEW w, TabsOK(w), NEW id \in TabIds(w.tabs)
    PROVE  LET r == CloseTab(w, id)
           IN  /\ TabsOK(r) /\ r.nextId = w.nextId
               /\ \A k \in DOMAIN r.tabs : r.tabs[k].id # id /\ \E i \in DOMAIN w.tabs : r.tabs[k] = w.tabs[i]
<1> DEFINE at == CHOOSE j \in DOMAIN w.tabs : w.tabs[j].id = id
           rest == RemoveAt(w.tabs, at)
<1>1. at \in DOMAIN w.tabs /\ w.tabs[at].id = id
  BY DEF TabIds
<1>2. PICK i : i = at
  OBVIOUS
<1>3. PICK n : n = Len(w.tabs)
  OBVIOUS
<1>4. PICK others : others = rest
  OBVIOUS
<1>5. w.tabs \in Seq(TabRecords) /\ n \in Nat /\ DOMAIN w.tabs = 1 .. n /\ i \in 1 .. n /\ w.tabs[i].id = id
  BY <1>1, <1>2, <1>3 DEF TabsOK
<1>6. others = SubSeq(w.tabs, 1, i - 1) \o SubSeq(w.tabs, i + 1, n)
  BY <1>2, <1>3, <1>4 DEF RemoveAt
<1>7. CloseTab(w, id) =
        [tabs |-> others,
         activeTabId |-> IF w.activeTabId # id THEN w.activeTabId
                         ELSE IF others = <<>> THEN NoTab
                         ELSE IF i <= Len(others) THEN others[i].id ELSE Last(others).id,
         nextId |-> w.nextId]
  <2> HIDE DEF at
  <2>1. w = [tabs |-> w.tabs, activeTabId |-> w.activeTabId, nextId |-> w.nextId]
    BY DEF TabsOK
  <2>2. CloseTab(w, id) =
        [w EXCEPT !.tabs = others,
                  !.activeTabId = IF w.activeTabId # id THEN w.activeTabId
                         ELSE IF others = <<>> THEN NoTab
                         ELSE IF i <= Len(others) THEN others[i].id ELSE Last(others).id]
    BY <1>2, <1>4 DEF CloseTab, at
  <2> QED
    BY <2>1, <2>2
<1> HIDE DEF at, rest
<1>8. /\ others \in Seq(TabRecords) /\ Len(others) = n - 1 /\ DOMAIN others = 1 .. n - 1
      /\ \A k \in 1 .. n - 1 : others[k] = w.tabs[IF k < i THEN k ELSE k + 1]
  BY <1>5, <1>6
<1>9. \A k \in 1 .. n - 1 : (IF k < i THEN k ELSE k + 1) \in 1 .. n /\ (IF k < i THEN k ELSE k + 1) # i
  BY <1>5
<1>10. \A k, l \in 1 .. n - 1 : (IF k < i THEN k ELSE k + 1) = (IF l < i THEN l ELSE l + 1) => k = l
  BY <1>5
<1>11. \A k \in 1 .. n - 1 : others[k].id # id
  BY <1>5, <1>8, <1>9 DEF TabsOK
<1>12. \A k \in 1 .. n - 1 : \E j \in 1 .. n : others[k] = w.tabs[j]
  BY <1>8, <1>9
<1>13. \A k \in 1 .. n - 1 : others[k].id < w.nextId
  BY <1>5, <1>12 DEF TabsOK
<1>14. \A k, l \in 1 .. n - 1 : others[k].id = others[l].id => k = l
  <2> SUFFICES ASSUME NEW k \in 1 .. n - 1, NEW l \in 1 .. n - 1, others[k].id = others[l].id PROVE k = l
    OBVIOUS
  <2>1. (IF k < i THEN k ELSE k + 1) = (IF l < i THEN l ELSE l + 1)
    BY <1>5, <1>8, <1>9 DEF TabsOK
  <2> QED
    BY <1>10, <2>1
<1>15. \A k, l \in 1 .. n - 1 : others[k].kind = "settings" /\ others[l].kind = "settings" => k = l
  <2> SUFFICES ASSUME NEW k \in 1 .. n - 1, NEW l \in 1 .. n - 1, others[k].kind = "settings", others[l].kind = "settings"
               PROVE k = l
    OBVIOUS
  <2>a. \A x, y \in 1 .. n : w.tabs[x].kind = "settings" /\ w.tabs[y].kind = "settings" => x = y
    BY <1>5 DEF TabsOK
  <2>1. (IF k < i THEN k ELSE k + 1) = (IF l < i THEN l ELSE l + 1)
    BY <1>8, <1>9, <2>a
  <2> QED
    BY <1>10, <2>1
<1>16. PICK active : active = IF w.activeTabId # id THEN w.activeTabId
                              ELSE IF others = <<>> THEN NoTab
                              ELSE IF i <= Len(others) THEN others[i].id ELSE Last(others).id
  OBVIOUS
<1>17. \A k \in 1 .. n - 1 : others[k].id \in TabIds(others) /\ others[k].id \in Nat /\ others # <<>>
  BY <1>8, TabAt
<1>18. active \in Nat /\ IF others = <<>> THEN active = NoTab ELSE active \in TabIds(others)
  <2>1. CASE w.activeTabId # id
    <3>1. w.tabs # <<>>
      BY <1>5
    <3>2. PICK j \in 1 .. n : w.tabs[j].id = w.activeTabId
      BY <1>5, <3>1 DEF TabsOK, TabIds
    <3>3. j # i
      BY <1>5, <2>1, <3>2
    <3>4. PICK k \in 1 .. n - 1 : j = IF k < i THEN k ELSE k + 1
      <4>1. CASE j < i
        <5>1. j \in 1 .. n - 1
          BY <1>5, <4>1
        <5> QED
          BY <4>1, <5>1
      <4>2. CASE j > i
        <5>1. j - 1 \in 1 .. n - 1 /\ ~(j - 1 < i) /\ j = j - 1 + 1
          BY <1>5, <4>2
        <5> QED
          BY <5>1
      <4> QED
        BY <1>5, <3>3, <4>1, <4>2
    <3>5. others[k].id = w.activeTabId
      BY <1>8, <3>2, <3>4
    <3> QED
      BY <1>16, <1>17, <2>1, <3>5
  <2>2. CASE w.activeTabId = id /\ others = <<>>
    BY <1>16, <2>2 DEF NoTab
  <2>3. CASE w.activeTabId = id /\ others # <<>>
    <3>1. n - 1 \in 1 .. n - 1
      BY <1>5, <1>8, <2>3
    <3>2. CASE i <= Len(others)
      <4>1. i \in 1 .. n - 1 /\ active = others[i].id
        BY <1>5, <1>8, <1>16, <2>3, <3>2
      <4> QED
        BY <1>17, <2>3, <4>1
    <3>3. CASE ~(i <= Len(others))
      <4>1. active = others[n - 1].id
        BY <1>8, <1>16, <2>3, <3>3 DEF Last
      <4> QED
        BY <1>17, <2>3, <3>1, <4>1
    <3> QED
      BY <3>2, <3>3
  <2> QED
    BY <2>1, <2>2, <2>3
<1>19. PICK r : r = [tabs |-> others, activeTabId |-> active, nextId |-> w.nextId]
  OBVIOUS
<1>20. r = CloseTab(w, id) /\ r.tabs = others /\ r.activeTabId = active /\ r.nextId = w.nextId
  BY <1>7, <1>16, <1>19
<1>21. TabsOK(r)
  BY <1>8, <1>13, <1>14, <1>15, <1>18, <1>19, <1>20 DEF TabsOK
<1> QED
  BY <1>5, <1>8, <1>11, <1>12, <1>20, <1>21

\* Tabs that keep their ids and kinds are as good as they were.
LEMMA NewTabsOK ==
    ASSUME NEW w, TabsOK(w), NEW tabs \in Seq(TabRecords), DOMAIN tabs = DOMAIN w.tabs,
           \A i \in DOMAIN tabs : tabs[i].id = w.tabs[i].id /\ tabs[i].kind = w.tabs[i].kind
    PROVE  LET r == [tabs |-> tabs, activeTabId |-> w.activeTabId, nextId |-> w.nextId]
           IN  TabsOK(r) /\ r.tabs = tabs /\ r.nextId = w.nextId
<1>1. PICK r : r = [tabs |-> tabs, activeTabId |-> w.activeTabId, nextId |-> w.nextId]
  OBVIOUS
<1>2. r.tabs = tabs /\ r.activeTabId = w.activeTabId /\ r.nextId = w.nextId
  BY <1>1
<1>3. TabIds(tabs) = TabIds(w.tabs)
  BY DEF TabIds
<1>4. tabs = <<>> <=> w.tabs = <<>>
  <2>1. w.tabs \in Seq(TabRecords)
    BY DEF TabsOK
  <2>2. (tabs = <<>> <=> DOMAIN tabs = {}) /\ (w.tabs = <<>> <=> DOMAIN w.tabs = {})
    BY <2>1
  <2> QED
    BY <2>2
<1>5. TabsOK(r)
  BY <1>1, <1>2, <1>3, <1>4 DEF TabsOK
<1> QED
  BY <1>1, <1>2, <1>5

\* A tab is pointed at another connection.
LEMMA SetConnOK ==
    ASSUME NEW w, TabsOK(w), NEW id, NEW conn \in Conns \cup {"boot"}
    PROVE  LET r == SetTabConnection(w, id, conn)
           IN  /\ TabsOK(r) /\ r.nextId = w.nextId /\ DOMAIN r.tabs = DOMAIN w.tabs
               /\ \A i \in DOMAIN w.tabs : /\ r.tabs[i].id = w.tabs[i].id /\ r.tabs[i].kind = w.tabs[i].kind
                                          /\ r.tabs[i].from = w.tabs[i].from
<1>1. PICK tabs : tabs = [i \in DOMAIN w.tabs |->
                     IF w.tabs[i].id = id THEN [w.tabs[i] EXCEPT !.table = FALSE, !.connectionId = conn]
                     ELSE w.tabs[i]]
  OBVIOUS
<1>2. w.tabs \in Seq(TabRecords)
  BY DEF TabsOK
<1>3. \A i \in DOMAIN w.tabs : w.tabs[i] \in TabRecords
  BY <1>2
<1>4. \A t \in TabRecords :
         LET u == [t EXCEPT !.table = FALSE, !.connectionId = conn]
         IN  u \in TabRecords /\ u.id = t.id /\ u.kind = t.kind /\ u.from = t.from
  BY DEF TabRecords
<1>5. /\ DOMAIN tabs = DOMAIN w.tabs
      /\ \A i \in DOMAIN w.tabs : /\ tabs[i] \in TabRecords /\ tabs[i].id = w.tabs[i].id
                                 /\ tabs[i].kind = w.tabs[i].kind /\ tabs[i].from = w.tabs[i].from
  BY <1>1, <1>3, <1>4
<1>6. tabs \in Seq(TabRecords)
  <2>1. DOMAIN w.tabs = 1 .. Len(w.tabs) /\ Len(w.tabs) \in Nat
    BY <1>2
  <2>2. tabs = [i \in 1 .. Len(w.tabs) |-> tabs[i]]
    BY <1>1, <2>1
  <2> QED
    BY <1>5, <2>1, <2>2
<1>7. SetTabConnection(w, id, conn) = [w EXCEPT !.tabs = tabs]
  BY <1>1 DEF SetTabConnection
<1>8. PICK r : r = [tabs |-> tabs, activeTabId |-> w.activeTabId, nextId |-> w.nextId]
  OBVIOUS
<1>9. SetTabConnection(w, id, conn) = r
  BY <1>7, <1>8 DEF TabsOK
<1>10. TabsOK(r) /\ r.tabs = tabs /\ r.nextId = w.nextId
  BY <1>5, <1>6, <1>8, NewTabsOK
<1> QED
  BY <1>5, <1>9, <1>10

\* A table goes into a tab.
LEMMA BindOK ==
    ASSUME NEW w, TabsOK(w), NEW conn \in Conns \cup {"boot"}
    PROVE  LET r == BindTableToActiveTab(w, conn)
           IN  /\ TabsOK(r)
               /\ \/ r = Added(w, "table", conn, TRUE, "blank")
                  \/ /\ r.nextId = w.nextId /\ DOMAIN r.tabs = DOMAIN w.tabs
                     /\ \A i \in DOMAIN w.tabs : /\ r.tabs[i].id = w.tabs[i].id /\ r.tabs[i].kind = w.tabs[i].kind
                                                /\ r.tabs[i].from = w.tabs[i].from
<1>1. CASE ~\E i \in DOMAIN w.tabs : w.tabs[i].id = w.activeTabId /\ w.tabs[i].kind = "table"
  <2>1. BindTableToActiveTab(w, conn) = Added(w, "table", conn, TRUE, "blank")
    BY <1>1 DEF BindTableToActiveTab
  <2> QED
    BY <2>1, AddedOK DEF Kinds
<1>2. CASE \E i \in DOMAIN w.tabs : w.tabs[i].id = w.activeTabId /\ w.tabs[i].kind = "table"
  <2>1. PICK tabs : tabs = [i \in DOMAIN w.tabs |->
                       IF w.tabs[i].id = w.activeTabId
                       THEN [w.tabs[i] EXCEPT !.table = TRUE, !.connectionId = conn] ELSE w.tabs[i]]
    OBVIOUS
  <2>2. w.tabs \in Seq(TabRecords)
    BY DEF TabsOK
  <2>3. \A i \in DOMAIN w.tabs : w.tabs[i] \in TabRecords
    BY <2>2
  <2>4. \A t \in TabRecords :
           LET u == [t EXCEPT !.table = TRUE, !.connectionId = conn]
           IN  u \in TabRecords /\ u.id = t.id /\ u.kind = t.kind /\ u.from = t.from
    BY DEF TabRecords
  <2>5. /\ DOMAIN tabs = DOMAIN w.tabs
        /\ \A i \in DOMAIN w.tabs : /\ tabs[i] \in TabRecords /\ tabs[i].id = w.tabs[i].id
                                   /\ tabs[i].kind = w.tabs[i].kind /\ tabs[i].from = w.tabs[i].from
    BY <2>1, <2>3, <2>4
  <2>6. tabs \in Seq(TabRecords)
    <3>1. DOMAIN w.tabs = 1 .. Len(w.tabs) /\ Len(w.tabs) \in Nat
      BY <2>2
    <3>2. tabs = [i \in 1 .. Len(w.tabs) |-> tabs[i]]
      BY <2>1, <3>1
    <3> QED
      BY <2>5, <3>1, <3>2
  <2>7. BindTableToActiveTab(w, conn) = [w EXCEPT !.tabs = tabs]
    BY <1>2, <2>1 DEF BindTableToActiveTab
  <2>8. PICK r : r = [tabs |-> tabs, activeTabId |-> w.activeTabId, nextId |-> w.nextId]
    OBVIOUS
  <2>9. BindTableToActiveTab(w, conn) = r
    BY <2>7, <2>8 DEF TabsOK
  <2>10. TabsOK(r) /\ r.tabs = tabs /\ r.nextId = w.nextId
    BY <2>5, <2>6, <2>8, NewTabsOK
  <2> QED
    BY <2>5, <2>9, <2>10
<1> QED
  BY <1>1, <1>2

-----------------------------------------------------------------------------

\* A tab of a snapshot, or of a file edited by hand.
WrittenTabs == [id : Nat \ {0}, kind : Kinds, connectionId : Conns \cup {"boot", ""}]

\* Whatever tabs a file has, what is restored of them is a Workspace.
LEMMA RestoreOK ==
    ASSUME NEW s, s.tabs \in Seq(WrittenTabs), s.activeTabId \in Nat, s.nextId \in Nat, NEW top \in Nat \ {0},
           top \in {s.nextId} \cup {id + 1 : id \in TabIds(RestoreWorkspace(s).tabs)},
           \A n \in {s.nextId} \cup {id + 1 : id \in TabIds(RestoreWorkspace(s).tabs)} : top >= n
    PROVE  LET r == RestoreWorkspace(s)
           IN  /\ TabsOK(r) /\ r.nextId = top
               /\ \A i \in DOMAIN r.tabs : r.tabs[i].from = "blank" /\ \E j \in DOMAIN s.tabs : r.tabs[i].kind = s.tabs[j].kind
<1> DEFINE I == Restorable(s.tabs)
           kept == Subsequence(s.tabs, I)
           tabs == [i \in DOMAIN kept |->
                      Tab(kept[i].id, kept[i].kind, NormalizeConnectionId(kept[i].connectionId), FALSE, "blank")]
<1>1. I \in SUBSET DOMAIN s.tabs
  BY DEF Restorable
<1>2. PICK f : f = kept
  OBVIOUS
<1>3. /\ f \in Seq(WrittenTabs)
      /\ \A k \in DOMAIN f : Nth(I, k) \in I /\ f[k] = s.tabs[Nth(I, k)]
      /\ \A k, l \in DOMAIN f : Nth(I, k) = Nth(I, l) => k = l
  <2> HIDE DEF I
  <2> QED
    BY <1>1, <1>2, SubsequenceIs
<1>4. PICK t : t = tabs
  OBVIOUS
<1>5. t = [i \in DOMAIN f |-> Tab(f[i].id, f[i].kind, NormalizeConnectionId(f[i].connectionId), FALSE, "blank")]
  BY <1>2, <1>4
<1>6. PICK r : r = RestoreWorkspace(s)
  OBVIOUS
<1>7. r = [tabs |-> t,
           activeTabId |-> IF s.activeTabId \in TabIds(t) THEN s.activeTabId
                           ELSE IF t = <<>> THEN NoTab ELSE t[1].id,
           nextId |-> Max({s.nextId} \cup {id + 1 : id \in TabIds(t)})]
  BY <1>4, <1>6 DEF RestoreWorkspace
<1> HIDE DEF kept, tabs
<1>8. \A u \in WrittenTabs :
         LET v == Tab(u.id, u.kind, NormalizeConnectionId(u.connectionId), FALSE, "blank")
         IN  v \in TabRecords /\ v.id = u.id /\ v.kind = u.kind /\ v.from = "blank"
  <2> TAKE u \in WrittenTabs
  <2>1. u.id \in Nat \ {0} /\ u.kind \in Kinds /\ u.connectionId \in Conns \cup {"boot", ""}
    BY DEF WrittenTabs
  <2>2. NormalizeConnectionId(u.connectionId) \in Conns \cup {"boot"}
    BY <2>1 DEF NormalizeConnectionId
  <2> QED
    BY <2>1, <2>2 DEF Tab, TabRecords
<1>9. /\ DOMAIN t = DOMAIN f
      /\ \A i \in DOMAIN f : t[i] \in TabRecords /\ t[i].id = f[i].id /\ t[i].kind = f[i].kind /\ t[i].from = "blank"
  <2> SUFFICES ASSUME NEW i \in DOMAIN f
               PROVE  t[i] \in TabRecords /\ t[i].id = f[i].id /\ t[i].kind = f[i].kind /\ t[i].from = "blank"
    BY <1>5
  <2>1. f[i] \in WrittenTabs
    BY <1>3
  <2>2. t[i] = Tab(f[i].id, f[i].kind, NormalizeConnectionId(f[i].connectionId), FALSE, "blank")
    BY <1>5
  <2> QED
    BY <1>8, <2>1, <2>2
<1>10. t \in Seq(TabRecords)
  <2>1. DOMAIN f = 1 .. Len(f) /\ Len(f) \in Nat
    BY <1>3
  <2>2. t = [i \in 1 .. Len(f) |-> t[i]]
    BY <1>5, <2>1
  <2> QED
    BY <1>9, <2>1, <2>2
<1>11. \A i, j \in I : s.tabs[i].id = s.tabs[j].id => i = j
  <2> SUFFICES ASSUME NEW i \in I, NEW j \in I, s.tabs[i].id = s.tabs[j].id PROVE i = j
    OBVIOUS
  <2>1. i \in Nat /\ j \in Nat /\ i >= 1 /\ j >= 1
    BY <1>1
  <2>2. ~(i < j) /\ ~(j < i)
    BY <2>1 DEF Restorable, FirstOfId
  <2> QED
    BY <2>1, <2>2
<1>12. \A i, j \in I : s.tabs[i].kind = "settings" /\ s.tabs[j].kind = "settings" => i = j
  <2> SUFFICES ASSUME NEW i \in I, NEW j \in I, s.tabs[i].kind = "settings", s.tabs[j].kind = "settings" PROVE i = j
    OBVIOUS
  <2>1. i \in Nat /\ j \in Nat /\ i >= 1 /\ j >= 1
    BY <1>1
  <2>2. FirstOfId(s.tabs, i) /\ FirstOfId(s.tabs, j)
    BY DEF Restorable
  <2>3. j \notin 1 .. i - 1 /\ i \notin 1 .. j - 1
    BY <2>2 DEF Restorable
  <2> QED
    BY <2>1, <2>3
<1>13. \A k, l \in DOMAIN t : t[k].id = t[l].id => k = l
  <2> HIDE DEF I
  <2> QED
    BY <1>3, <1>9, <1>11
<1>14. \A k, l \in DOMAIN t : t[k].kind = "settings" /\ t[l].kind = "settings" => k = l
  <2> HIDE DEF I
  <2> QED
    BY <1>3, <1>9, <1>12
<1>15. r.tabs = t /\ r.nextId = Max({s.nextId} \cup {id + 1 : id \in TabIds(t)})
  BY <1>7
<1>16. r.nextId = top
  <2>1. top \in {s.nextId} \cup {id + 1 : id \in TabIds(t)}
        /\ \A n \in {s.nextId} \cup {id + 1 : id \in TabIds(t)} : top >= n
    BY <1>6, <1>15
  <2>2. PICK S : S = {s.nextId} \cup {id + 1 : id \in TabIds(t)}
    OBVIOUS
  <2>3. top \in S /\ \A n \in S : top >= n
    BY <2>1, <2>2
  <2>4. Max(S) = top
    <3>1. Max(S) \in S /\ \A n \in S : Max(S) >= n
      BY <2>3 DEF Max
    <3>2. \A n \in S : n \in Int
      <4>1. \A i \in DOMAIN t : t[i].id \in Nat
        BY <1>10, TabAt
      <4>2. \A id \in TabIds(t) : id \in Nat
        BY <4>1 DEF TabIds
      <4>3. s.nextId \in Int /\ \A id \in TabIds(t) : id + 1 \in Int
        BY <4>2
      <4> QED
        BY <2>2, <4>3
    <3>3. PICK m : m = Max(S)
      OBVIOUS
    <3>4. m \in Int /\ top \in Int /\ m >= top /\ top >= m
      BY <2>3, <3>1, <3>2, <3>3
    <3> QED
      BY <3>3, <3>4
  <2> QED
    BY <1>15, <2>2, <2>4
<1>17. \A i \in DOMAIN t : t[i].id < top
  <2>1. \A i \in DOMAIN t : t[i].id \in Nat /\ t[i].id \in TabIds(t)
    BY <1>10, TabAt
  <2>2. \A id \in TabIds(t) : top >= id + 1
    BY <1>6, <1>15
  <2> QED
    BY <2>1, <2>2
<1>18. r.activeTabId \in Nat /\ IF t = <<>> THEN r.activeTabId = NoTab ELSE r.activeTabId \in TabIds(t)
  <2>1. CASE s.activeTabId \in TabIds(t)
    <3>1. t # <<>>
      BY <2>1 DEF TabIds
    <3> QED
      BY <1>7, <2>1, <3>1
  <2>2. CASE s.activeTabId \notin TabIds(t) /\ t = <<>>
    BY <1>7, <2>2 DEF NoTab
  <2>3. CASE s.activeTabId \notin TabIds(t) /\ t # <<>>
    <3>1. 1 \in DOMAIN t
      BY <1>10, <2>3
    <3> QED
      BY <1>7, <1>10, <2>3, <3>1, TabAt
  <2> QED
    BY <2>1, <2>2, <2>3
<1>19. r = [tabs |-> r.tabs, activeTabId |-> r.activeTabId, nextId |-> r.nextId]
  BY <1>7
<1>20. TabsOK(r)
  BY <1>10, <1>13, <1>14, <1>15, <1>16, <1>17, <1>18, <1>19 DEF TabsOK
<1>21. \A i \in DOMAIN t : t[i].from = "blank" /\ \E j \in DOMAIN s.tabs : t[i].kind = s.tabs[j].kind
  <2> HIDE DEF I
  <2> QED
    BY <1>1, <1>3, <1>9
<1> QED
  BY <1>6, <1>15, <1>16, <1>20, <1>21

-----------------------------------------------------------------------------
(* A snapshot of what is there.                                            *)

\* The places of the tabs that are written.
ToWrite(tabs) == {i \in DOMAIN tabs : tabs[i].kind # "create-table"}

\* What a snapshot has of a Workspace: each tab that is written, once.
SnapshotOf(s, w, lay) ==
    /\ s.tabs \in Seq(WrittenTabs) /\ s.nextId = w.nextId /\ s.activeTabId \in Nat
    /\ s.erdLayouts = PruneErdLayouts(lay, w.tabs)
    /\ \A k \in DOMAIN s.tabs :
         /\ Nth(ToWrite(w.tabs), k) \in ToWrite(w.tabs)
         /\ s.tabs[k] = [id |-> w.tabs[Nth(ToWrite(w.tabs), k)].id,
                         kind |-> w.tabs[Nth(ToWrite(w.tabs), k)].kind,
                         connectionId |-> w.tabs[Nth(ToWrite(w.tabs), k)].connectionId]
    /\ \A k, l \in DOMAIN s.tabs : Nth(ToWrite(w.tabs), k) = Nth(ToWrite(w.tabs), l) => k = l
    /\ \A i \in ToWrite(w.tabs) : \E k \in DOMAIN s.tabs : Nth(ToWrite(w.tabs), k) = i
    /\ w.activeTabId \in TabIds(s.tabs) => s.activeTabId = w.activeTabId
    /\ IF s.tabs = <<>> THEN s.activeTabId = NoTab ELSE s.activeTabId \in TabIds(s.tabs)

\* ToWorkspaceSnapshot gives one.
LEMMA SnapshotIs ==
    ASSUME NEW w, TabsOK(w), NEW lay, NEW s, s = ToWorkspaceSnapshot(w, lay)
    PROVE  SnapshotOf(s, w, lay)
<1> DEFINE I == ToWrite(w.tabs)
<1>1. I \in SUBSET DOMAIN w.tabs /\ w.tabs \in Seq(TabRecords)
  BY DEF TabsOK, ToWrite
<1>2. PICK f : f = Subsequence(w.tabs, I)
  OBVIOUS
<1>3. /\ f \in Seq(TabRecords)
      /\ \A k \in DOMAIN f : Nth(I, k) \in I /\ f[k] = w.tabs[Nth(I, k)]
      /\ \A k, l \in DOMAIN f : Nth(I, k) = Nth(I, l) => k = l
      /\ \A i \in I : \E k \in DOMAIN f : Nth(I, k) = i
  <2> HIDE DEF I
  <2> QED
    BY <1>1, <1>2, SubsequenceIs
<1>4. PICK t : t = [k \in DOMAIN f |-> [id |-> f[k].id, kind |-> f[k].kind, connectionId |-> f[k].connectionId]]
  OBVIOUS
<1>5. s = ToWorkspaceSnapshot(w, lay)
  OBVIOUS
<1>6. s = [tabs |-> t,
           activeTabId |-> IF w.activeTabId \in TabIds(f) THEN w.activeTabId
                           ELSE IF f = <<>> THEN NoTab ELSE f[1].id,
           nextId |-> w.nextId, erdLayouts |-> PruneErdLayouts(lay, w.tabs)]
  BY <1>2, <1>4, <1>5 DEF ToWorkspaceSnapshot, Written, ToWrite
<1>7. s.tabs = t /\ s.nextId = w.nextId /\ s.erdLayouts = PruneErdLayouts(lay, w.tabs)
  BY <1>6
<1>8. \A k \in DOMAIN f : f[k] \in TabRecords
  BY <1>3
<1>9. \A u \in TabRecords : [id |-> u.id, kind |-> u.kind, connectionId |-> u.connectionId] \in WrittenTabs
  BY DEF TabRecords, WrittenTabs
<1>10. DOMAIN t = DOMAIN f /\ \A k \in DOMAIN f : t[k] \in WrittenTabs /\ t[k].id = f[k].id
  BY <1>4, <1>8, <1>9
<1>11. DOMAIN f = 1 .. Len(f) /\ Len(f) \in Nat
  BY <1>3
<1>12. t \in Seq(WrittenTabs)
  <2>2. t = [i \in 1 .. Len(f) |-> t[i]]
    BY <1>4, <1>11
  <2> QED
    BY <1>10, <1>11, <2>2
<1>13. TabIds(t) = TabIds(f)
  BY <1>10 DEF TabIds
<1>14. t = <<>> <=> f = <<>>
  BY <1>3, <1>10, <1>12, <1>11
<1>15. s.activeTabId \in Nat /\ IF f = <<>> THEN s.activeTabId = NoTab ELSE s.activeTabId \in TabIds(f)
  <2>1. CASE w.activeTabId \in TabIds(f)
    <3>1. f # <<>>
      BY <2>1 DEF TabIds
    <3> QED
      BY <1>6, <2>1, <3>1 DEF TabsOK
  <2>2. CASE w.activeTabId \notin TabIds(f) /\ f = <<>>
    BY <1>6, <2>2 DEF NoTab
  <2>3. CASE w.activeTabId \notin TabIds(f) /\ f # <<>>
    <3>1. 1 \in DOMAIN f
      BY <1>3, <2>3
    <3> QED
      BY <1>3, <1>6, <2>3, <3>1, TabAt
  <2> QED
    BY <2>1, <2>2, <2>3
<1>16. w.activeTabId \in TabIds(f) => s.activeTabId = w.activeTabId
  BY <1>6
<1>17. \A k \in DOMAIN t : /\ Nth(I, k) \in I
                         /\ t[k] = [id |-> w.tabs[Nth(I, k)].id, kind |-> w.tabs[Nth(I, k)].kind,
                                    connectionId |-> w.tabs[Nth(I, k)].connectionId]
  BY <1>3, <1>4, <1>10
<1> HIDE DEF I
<1> QED
  BY <1>2, <1>3, <1>5, <1>7, <1>10, <1>12, <1>13, <1>14, <1>15, <1>16, <1>17 DEF I, SnapshotOf

\* A snapshot is accepted and comes back: restoring drops none of its tabs,
\* since their ids are distinct and Settings is there once, and the filter of
\* the next snapshot drops none either.
LEMMA RestoreGivesBack ==
    ASSUME NEW w, TabsOK(w), NEW lay,
           \A id \in DOMAIN lay : id \in Nat /\ lay[id] = "whole",
           \A i \in DOMAIN w.tabs : w.tabs[i].kind = "create-table" => w.tabs[i].id \notin DOMAIN lay
    PROVE  LET s == ToWorkspaceSnapshot(w, lay)
               r == RestoreWorkspace(s)
           IN  /\ ValidateSnapshotParams(s)
               /\ TabsOK(r) /\ r.nextId = w.nextId
               /\ \A i \in DOMAIN r.tabs : r.tabs[i].from = "blank" /\ r.tabs[i].kind # "create-table"
               /\ ToWorkspaceSnapshot(r, RestoreErdLayouts(s, r)) = s
               /\ \A i \in DOMAIN w.tabs : w.tabs[i].id = w.activeTabId /\ w.tabs[i].kind # "create-table"
                                           => r.activeTabId = w.activeTabId
               /\ w.activeTabId = NoTab => r.activeTabId = NoTab
               /\ RestoreErdLayouts(s, r) = PruneErdLayouts(lay, r.tabs)
<1>1. PICK s : s = ToWorkspaceSnapshot(w, lay)
  OBVIOUS
<1>2. PICK r : r = RestoreWorkspace(s)
  OBVIOUS
<1>3. w.tabs \in Seq(TabRecords)
  BY DEF TabsOK
<1>4. \A i \in DOMAIN w.tabs : /\ w.tabs[i].id \in Nat /\ w.tabs[i].id # 0 /\ w.tabs[i].kind \in Kinds
                             /\ w.tabs[i].connectionId \in Conns \cup {"boot"}
  BY <1>3, TabAt
<1>5. /\ s.tabs \in Seq(WrittenTabs) /\ s.nextId = w.nextId /\ s.activeTabId \in Nat
      /\ s.erdLayouts = PruneErdLayouts(lay, w.tabs)
      /\ \A k \in DOMAIN s.tabs : /\ Nth(ToWrite(w.tabs), k) \in ToWrite(w.tabs)
                                 /\ s.tabs[k] = [id |-> w.tabs[Nth(ToWrite(w.tabs), k)].id, kind |-> w.tabs[Nth(ToWrite(w.tabs), k)].kind,
                                                 connectionId |-> w.tabs[Nth(ToWrite(w.tabs), k)].connectionId]
      /\ \A k, l \in DOMAIN s.tabs : Nth(ToWrite(w.tabs), k) = Nth(ToWrite(w.tabs), l) => k = l
      /\ \A i \in ToWrite(w.tabs) : \E k \in DOMAIN s.tabs : Nth(ToWrite(w.tabs), k) = i
      /\ w.activeTabId \in TabIds(s.tabs) => s.activeTabId = w.activeTabId
      /\ IF s.tabs = <<>> THEN s.activeTabId = NoTab ELSE s.activeTabId \in TabIds(s.tabs)
  <2>1. SnapshotOf(s, w, lay)
    BY <1>1, SnapshotIs
  <2> QED
    BY <2>1 DEF SnapshotOf
<1>6. \A k \in DOMAIN s.tabs :
         /\ Nth(ToWrite(w.tabs), k) \in DOMAIN w.tabs
         /\ s.tabs[k].id = w.tabs[Nth(ToWrite(w.tabs), k)].id /\ s.tabs[k].kind = w.tabs[Nth(ToWrite(w.tabs), k)].kind
         /\ s.tabs[k].connectionId = w.tabs[Nth(ToWrite(w.tabs), k)].connectionId /\ s.tabs[k].kind # "create-table"
  <2> TAKE k \in DOMAIN s.tabs
  <2>1. Nth(ToWrite(w.tabs), k) \in DOMAIN w.tabs /\ w.tabs[Nth(ToWrite(w.tabs), k)].kind # "create-table"
    BY <1>5 DEF ToWrite
  <2>2. s.tabs[k] = [id |-> w.tabs[Nth(ToWrite(w.tabs), k)].id, kind |-> w.tabs[Nth(ToWrite(w.tabs), k)].kind,
                     connectionId |-> w.tabs[Nth(ToWrite(w.tabs), k)].connectionId]
    BY <1>5
  <2> QED
    BY <2>1, <2>2
<1>7. \A k, l \in DOMAIN s.tabs : s.tabs[k].id = s.tabs[l].id => k = l
  <2>1. \A i, j \in DOMAIN w.tabs : w.tabs[i].id = w.tabs[j].id => i = j
    BY DEF TabsOK
  <2> QED
    BY <1>5, <1>6, <2>1
<1>8. \A k, l \in DOMAIN s.tabs : s.tabs[k].kind = "settings" /\ s.tabs[l].kind = "settings" => k = l
  <2>1. \A i, j \in DOMAIN w.tabs : w.tabs[i].kind = "settings" /\ w.tabs[j].kind = "settings" => i = j
    BY DEF TabsOK
  <2> QED
    BY <1>5, <1>6, <2>1
<1>9. DOMAIN s.tabs = 1 .. Len(s.tabs) /\ Len(s.tabs) \in Nat
  BY <1>5
<1>10. Restorable(s.tabs) = DOMAIN s.tabs
  <2> SUFFICES ASSUME NEW i \in DOMAIN s.tabs PROVE i \in Restorable(s.tabs)
    BY DEF Restorable
  <2>1. \A j \in 1 .. i - 1 : j \in DOMAIN s.tabs /\ j # i
    BY <1>9
  <2>2. FirstOfId(s.tabs, i)
    BY <1>7, <2>1 DEF FirstOfId
  <2>3. s.tabs[i].kind = "settings" => ~\E j \in 1 .. i - 1 : s.tabs[j].kind = "settings"
    BY <1>8, <2>1
  <2> QED
    BY <2>2, <2>3 DEF Restorable
<1>11. Subsequence(s.tabs, Restorable(s.tabs)) = s.tabs
  BY <1>5, <1>10, WholeSubsequence
<1>12. PICK t : t = [i \in DOMAIN s.tabs |->
                       Tab(s.tabs[i].id, s.tabs[i].kind, NormalizeConnectionId(s.tabs[i].connectionId), FALSE, "blank")]
  OBVIOUS
<1>13. r = [tabs |-> t,
            activeTabId |-> IF s.activeTabId \in TabIds(t) THEN s.activeTabId
                            ELSE IF t = <<>> THEN NoTab ELSE t[1].id,
            nextId |-> Max({s.nextId} \cup {id + 1 : id \in TabIds(t)})]
  BY <1>2, <1>11, <1>12 DEF RestoreWorkspace
<1>14. \A i \in DOMAIN s.tabs :
          t[i] = [id |-> s.tabs[i].id, kind |-> s.tabs[i].kind, connectionId |-> s.tabs[i].connectionId,
                  table |-> FALSE, from |-> "blank"]
  <2> TAKE i \in DOMAIN s.tabs
  <2>1. s.tabs[i].connectionId # ""
    <3>1. s.tabs[i].connectionId \in Conns \cup {"boot"}
      BY <1>4, <1>6
    <3> QED
      BY <3>1, TabsAssumption
  <2> QED
    BY <1>12, <2>1 DEF Tab, NormalizeConnectionId
<1>15. /\ DOMAIN t = DOMAIN s.tabs
       /\ \A i \in DOMAIN t : /\ t[i].id = s.tabs[i].id /\ t[i].kind = s.tabs[i].kind
                             /\ t[i].connectionId = s.tabs[i].connectionId /\ t[i].from = "blank"
                             /\ t[i].kind # "create-table"
  <2>1. DOMAIN t = DOMAIN s.tabs
    BY <1>12
  <2> SUFFICES ASSUME NEW i \in DOMAIN s.tabs
               PROVE  /\ t[i].id = s.tabs[i].id /\ t[i].kind = s.tabs[i].kind
                      /\ t[i].connectionId = s.tabs[i].connectionId /\ t[i].from = "blank"
                      /\ t[i].kind # "create-table"
    BY <2>1
  <2>2. s.tabs[i].kind # "create-table"
    BY <1>6
  <2>3. t[i] = [id |-> s.tabs[i].id, kind |-> s.tabs[i].kind, connectionId |-> s.tabs[i].connectionId,
                table |-> FALSE, from |-> "blank"]
    BY <1>14
  <2> QED
    BY <2>2, <2>3
<1>16. TabIds(t) = TabIds(s.tabs)
  BY <1>15 DEF TabIds
<1>17. r.tabs = t
  BY <1>13
<1>18. \A id \in TabIds(t) : id \in Nat /\ w.nextId >= id + 1 /\ \E i \in DOMAIN w.tabs : w.tabs[i].id = id
  <2> TAKE id \in TabIds(t)
  <2>1. PICK i \in DOMAIN s.tabs : s.tabs[i].id = id
    BY <1>16 DEF TabIds
  <2>2. PICK j \in DOMAIN w.tabs : w.tabs[j].id = id
    BY <1>6, <2>1
  <2>3. w.nextId \in Nat /\ id < w.nextId /\ id \in Nat
    BY <1>4, <2>2 DEF TabsOK
  <2> QED
    BY <2>2, <2>3
<1>19. w.nextId \in Nat \ {0}
  BY DEF TabsOK
<1>20. TabsOK(r) /\ r.nextId = w.nextId
  <2>1. \A n \in {s.nextId} \cup {id + 1 : id \in TabIds(RestoreWorkspace(s).tabs)} : w.nextId >= n
    BY <1>2, <1>5, <1>17, <1>18, <1>19
  <2> QED
    BY <1>2, <1>5, <1>19, <2>1, RestoreOK
<1>21. r.activeTabId = s.activeTabId
  <2>1. t = <<>> <=> s.tabs = <<>>
    <3>1. t \in Seq(TabRecords) /\ s.tabs \in Seq(WrittenTabs)
      BY <1>5, <1>17, <1>20 DEF TabsOK
    <3>2. (t = <<>> <=> DOMAIN t = {}) /\ (s.tabs = <<>> <=> DOMAIN s.tabs = {})
      BY <3>1, EmptySequence
    <3> QED
      BY <1>15, <3>2
  <2> QED
    BY <1>5, <1>13, <1>16, <2>1
<1>22. s.erdLayouts = [id \in DOMAIN lay \cap TabIds(w.tabs) |-> lay[id]]
  BY <1>5 DEF PruneErdLayouts, Restrict
<1>23. TabIds(t) \subseteq TabIds(w.tabs)
  BY <1>18 DEF TabIds
<1>24. \A id \in DOMAIN lay \cap TabIds(w.tabs) : id \in TabIds(t)
  <2> TAKE id \in DOMAIN lay \cap TabIds(w.tabs)
  <2>1. PICK i \in DOMAIN w.tabs : w.tabs[i].id = id
    BY DEF TabIds
  <2>2. i \in ToWrite(w.tabs)
    BY <2>1 DEF ToWrite
  <2>3. PICK k \in DOMAIN s.tabs : Nth(ToWrite(w.tabs), k) = i
    BY <1>5, <2>2
  <2>4. s.tabs[k].id = id
    BY <1>6, <2>1, <2>3
  <2> QED
    BY <1>16, <2>4 DEF TabIds
<1>25. RestoreErdLayouts(s, r) = PruneErdLayouts(lay, r.tabs)
  <2>1. PICK p : p = PruneErdLayouts(s.erdLayouts, r.tabs)
    OBVIOUS
  <2>2. p = [id \in DOMAIN lay \cap TabIds(t) |-> lay[id]]
    <3>1. DOMAIN s.erdLayouts = DOMAIN lay \cap TabIds(w.tabs)
      BY <1>22
    <3>2. DOMAIN s.erdLayouts \cap TabIds(t) = DOMAIN lay \cap TabIds(t)
      BY <1>23, <3>1
    <3>3. \A id \in DOMAIN lay \cap TabIds(t) : s.erdLayouts[id] = lay[id]
      BY <1>22, <1>23
    <3> QED
      BY <1>17, <2>1, <3>2, <3>3 DEF PruneErdLayouts, Restrict
  <2>3. DOMAIN p = DOMAIN lay \cap TabIds(t) /\ \A id \in DOMAIN p : p[id] = "whole" /\ p[id] = lay[id]
    BY <2>2
  <2>4. SanitizeErdLayout("whole") = {"whole"} /\ (CHOOSE shape \in SanitizeErdLayout("whole") : TRUE) = "whole"
    BY DEF SanitizeErdLayout
  <2>5. {id \in DOMAIN p : SanitizeErdLayout(p[id]) # {}} = DOMAIN p
    BY <2>3, <2>4
  <2>6. RestoreErdLayouts(s, r) = [id \in {i \in DOMAIN p : SanitizeErdLayout(p[i]) # {}} |->
                                     CHOOSE shape \in SanitizeErdLayout(p[id]) : TRUE]
    BY <2>1 DEF RestoreErdLayouts
  <2>7. RestoreErdLayouts(s, r) = [id \in DOMAIN p |-> p[id]]
    BY <2>3, <2>4, <2>5, <2>6
  <2> QED
    BY <1>17, <2>2, <2>3, <2>7 DEF PruneErdLayouts, Restrict
<1>26. ToWorkspaceSnapshot(r, RestoreErdLayouts(s, r)) = s
  <2>1. {i \in DOMAIN t : t[i].kind # "create-table"} = DOMAIN t
    BY <1>15
  <2>2. t \in Seq(TabRecords)
    BY <1>17, <1>20 DEF TabsOK
  <2>3. Written(t) = t
    BY <2>1, <2>2, WholeSubsequence DEF Written
  <2>4. [i \in DOMAIN t |-> [id |-> t[i].id, kind |-> t[i].kind, connectionId |-> t[i].connectionId]] = s.tabs
    <3>1. \A i \in DOMAIN s.tabs : s.tabs[i] = [id |-> s.tabs[i].id, kind |-> s.tabs[i].kind, connectionId |-> s.tabs[i].connectionId]
      <4> TAKE i \in DOMAIN s.tabs
      <4>1. s.tabs[i] = [id |-> w.tabs[Nth(ToWrite(w.tabs), i)].id, kind |-> w.tabs[Nth(ToWrite(w.tabs), i)].kind,
                         connectionId |-> w.tabs[Nth(ToWrite(w.tabs), i)].connectionId]
        BY <1>5
      <4> QED
        BY <4>1
    <3>2. s.tabs = [i \in DOMAIN s.tabs |-> s.tabs[i]]
      <4>1. s.tabs \in Seq(WrittenTabs)
        BY <1>5
      <4> QED
        BY <4>1
    <3>3. \A i \in DOMAIN s.tabs : [id |-> t[i].id, kind |-> t[i].kind, connectionId |-> t[i].connectionId] = s.tabs[i]
      <4> TAKE i \in DOMAIN s.tabs
      <4>1. t[i].id = s.tabs[i].id /\ t[i].kind = s.tabs[i].kind /\ t[i].connectionId = s.tabs[i].connectionId
        BY <1>15
      <4> QED
        BY <3>1, <4>1
    <3> QED
      BY <1>15, <3>2, <3>3
  <2>5. PruneErdLayouts(RestoreErdLayouts(s, r), t) = s.erdLayouts
    <3>1. DOMAIN lay \cap TabIds(t) = DOMAIN lay \cap TabIds(w.tabs)
      BY <1>23, <1>24
    <3>2. RestoreErdLayouts(s, r) = [id \in DOMAIN lay \cap TabIds(w.tabs) |-> lay[id]]
      BY <1>17, <1>25, <3>1 DEF PruneErdLayouts, Restrict
    <3>3. DOMAIN RestoreErdLayouts(s, r) \cap TabIds(t) = DOMAIN lay \cap TabIds(w.tabs)
      BY <3>1, <3>2
    <3> QED
      BY <1>22, <3>2, <3>3 DEF PruneErdLayouts, Restrict
  <2>6. IF r.activeTabId \in TabIds(t) THEN TRUE ELSE t = <<>> /\ r.activeTabId = NoTab
    BY <1>17, <1>20 DEF TabsOK
  <2>7. ToWorkspaceSnapshot(r, RestoreErdLayouts(s, r)) =
          [tabs |-> s.tabs, activeTabId |-> s.activeTabId, nextId |-> s.nextId, erdLayouts |-> s.erdLayouts]
    <3>1. ToWorkspaceSnapshot(r, RestoreErdLayouts(s, r)) =
            [tabs |-> s.tabs,
             activeTabId |-> IF r.activeTabId \in TabIds(t) THEN r.activeTabId
                             ELSE IF t = <<>> THEN NoTab ELSE t[1].id,
             nextId |-> r.nextId, erdLayouts |-> s.erdLayouts]
      BY <1>17, <2>3, <2>4, <2>5 DEF ToWorkspaceSnapshot
    <3>2. s.nextId = r.nextId
      BY <1>5, <1>20
    <3> QED
      BY <1>21, <2>6, <3>1, <3>2
  <2>8. s = [tabs |-> s.tabs, activeTabId |-> s.activeTabId, nextId |-> s.nextId, erdLayouts |-> s.erdLayouts]
    BY <1>1 DEF ToWorkspaceSnapshot
  <2> QED
    BY <2>7, <2>8
<1>27. ValidateSnapshotParams(s)
  <2>1. CheckTabs(s.tabs)
    <3>1. \A i \in DOMAIN s.tabs : s.tabs[i].kind \in Kinds \ {"create-table"} /\ s.tabs[i].connectionId # ""
      BY <1>4, <1>6, TabsAssumption
    <3> QED
      BY <1>7, <3>1 DEF CheckTabs
  <2>2. \A id \in TabIds(s.tabs) : id < s.nextId
    <3> QED
      BY <1>5, <1>16, <1>18, <1>19
  <2>3. CheckErdLayouts(s.erdLayouts)
    BY <1>22 DEF CheckErdLayouts
  <2> QED
    BY <1>5, <2>1, <2>2, <2>3 DEF ValidateSnapshotParams
<1>28. ASSUME NEW i \in DOMAIN w.tabs, w.tabs[i].id = w.activeTabId, w.tabs[i].kind # "create-table"
       PROVE  r.activeTabId = w.activeTabId
  <2>1. PICK k \in DOMAIN s.tabs : Nth(ToWrite(w.tabs), k) = i
    BY <1>5, <1>28 DEF ToWrite
  <2>2. s.tabs[k].id = w.activeTabId
    BY <1>6, <1>28, <2>1
  <2>3. w.activeTabId \in TabIds(s.tabs)
    BY <2>2 DEF TabIds
  <2> QED
    BY <1>5, <1>21, <2>3
<1>29. ASSUME w.activeTabId = NoTab PROVE r.activeTabId = NoTab
  <2>1. w.tabs = <<>>
    <3> SUFFICES ASSUME w.tabs # <<>> PROVE FALSE
      OBVIOUS
    <3>1. NoTab \in TabIds(w.tabs)
      BY <1>29 DEF TabsOK
    <3> QED
      BY <1>4, <3>1 DEF TabIds, NoTab
  <2>2. t = <<>>
    <3>1. DOMAIN w.tabs = {}
      BY <2>1
    <3>2. DOMAIN t = {}
      BY <1>6, <1>15, <3>1
    <3> QED
      BY <1>17, <1>20, <3>2 DEF TabsOK
  <2> QED
    BY <1>17, <1>20, <2>2 DEF TabsOK
<1> QED
  BY <1>1, <1>2, <1>15, <1>17, <1>20, <1>25, <1>26, <1>27, <1>28, <1>29

-----------------------------------------------------------------------------
(* The steps.                                                              *)

\* The list of tabs there is.
LEMMA TabsTypeNow == ASSUME TabsInv PROVE ws.tabs \in Seq(TabRecords) /\ ws.nextId \in Nat \ {0}
BY DEF TabsInv, TabsOK

\* The active tab is there.
LEMMA ActiveTab ==
    ASSUME TabsOK(ws), ActiveKind \in Kinds
    PROVE  \E i \in DOMAIN ws.tabs : /\ ws.tabs[i].id = ws.activeTabId /\ ws.tabs[i].kind = ActiveKind
                                    /\ ws.tabs[i].id \in Nat /\ ws.tabs[i].id < ws.nextId
<1>1. ws.activeTabId # NoTab
  BY DEF ActiveKind, Kinds
<1>2. ws.activeTabId \in TabIds(ws.tabs)
  BY <1>1 DEF TabsOK
<1>3. PICK i \in DOMAIN ws.tabs : ws.tabs[i].id = ws.activeTabId
  BY <1>2 DEF TabIds
<1>4. PICK j : j = CHOOSE k \in DOMAIN ws.tabs : ws.tabs[k].id = ws.activeTabId
  OBVIOUS
<1>5. j \in DOMAIN ws.tabs /\ ws.tabs[j].id = ws.activeTabId
  BY <1>3, <1>4
<1>6. ActiveKind = ws.tabs[j].kind
  BY <1>1, <1>4 DEF ActiveKind, TabOf
<1>7. ws.tabs \in Seq(TabRecords)
  BY DEF TabsOK
<1>8. ws.tabs[j].id \in Nat
  BY <1>5, <1>7, TabAt
<1> QED
  BY <1>5, <1>6, <1>8 DEF TabsOK

\* A tab added at the end has no content but what it is given.
LEMMA AddedKeeps ==
    ASSUME TabsInv, NEW kind \in Kinds, NEW conn \in Conns \cup {"boot"}, NEW bound \in BOOLEAN,
           NEW from \in {"blank", "spec"}, ws' = Added(ws, kind, conn, bound, from), TabsOK(ws'),
           lateIds' = lateIds, layouts' = layouts,
           \/ from = "blank" /\ sessions' = sessions
           \/ from = "spec" /\ sessions' = [i \in DOMAIN sessions \cup {ws.nextId} |->
                                             IF i = ws.nextId THEN "spec" ELSE sessions[i]]
    PROVE  SessionsInv' /\ LayoutsInv'
<1> DEFINE tab == Tab(ws.nextId, kind, conn, bound, from)
<1>1. ws.tabs \in Seq(TabRecords) /\ ws.nextId \in Nat \ {0}
  BY TabsTypeNow
<1>2. ws'.tabs = Append(ws.tabs, tab) /\ ws'.nextId = ws.nextId + 1
  BY DEF Added
<1>3. PICK n \in Nat : n = Len(ws.tabs)
  BY <1>1
<1>4. /\ DOMAIN ws'.tabs = 1 .. n + 1 /\ DOMAIN ws.tabs = 1 .. n
      /\ ws'.tabs[n + 1] = tab /\ \A i \in 1 .. n : ws'.tabs[i] = ws.tabs[i]
  BY <1>1, <1>2, <1>3
<1>5. tab.id = ws.nextId /\ tab.kind = kind /\ tab.from = from
  BY DEF Tab
<1> HIDE DEF tab
<1>6. \A i \in 1 .. n : ws.tabs[i].id \in Nat /\ ws.tabs[i].id < ws.nextId
  BY <1>1, <1>4, TabAt DEF TabsInv, TabsOK
<1>7. \A i \in 1 .. n + 1 : i \in 1 .. n \/ i = n + 1
  OBVIOUS
<1>8. \A id \in DOMAIN sessions \cup lateIds \cup DOMAIN layouts : id \in Nat /\ id < ws.nextId
  BY DEF TabsInv, SessionsInv, LayoutsInv
<1>9. ws.nextId \notin DOMAIN sessions \cup DOMAIN layouts
  BY <1>1, <1>8
<1>10. \A id \in DOMAIN sessions' \cup lateIds' \cup DOMAIN layouts' : id \in Nat /\ id < ws'.nextId
  BY <1>1, <1>2, <1>8
<1>11. LayoutsInv'
  BY <1>2, <1>4, <1>5, <1>7, <1>9, <1>10 DEF TabsInv, LayoutsInv
<1>12. ASSUME NEW i \in 1 .. n
       PROVE  /\ ws.tabs[i].id \in DOMAIN sessions' => sessions'[ws.tabs[i].id] = ws.tabs[i].from
              /\ ws.tabs[i].from = "spec" => ws.tabs[i].id \in DOMAIN sessions'
  <2>1. /\ ws.tabs[i].id \in DOMAIN sessions => sessions[ws.tabs[i].id] = ws.tabs[i].from
        /\ ws.tabs[i].from = "spec" => ws.tabs[i].id \in DOMAIN sessions
    BY <1>4 DEF TabsInv, SessionsInv
  <2>2. ws.tabs[i].id # ws.nextId
    BY <1>1, <1>6
  <2> QED
    BY <2>1, <2>2
<1>13. /\ ws.nextId \in DOMAIN sessions' => sessions'[ws.nextId] = from
       /\ from = "spec" => ws.nextId \in DOMAIN sessions'
  BY <1>9
<1>14. SessionsInv'
  BY <1>4, <1>5, <1>7, <1>10, <1>12, <1>13 DEF SessionsInv
<1> QED
  BY <1>11, <1>14

\* The tabs are the same but for what they are bound to.
LEMMA TabsKept ==
    ASSUME TabsInv, ws'.nextId = ws.nextId, DOMAIN ws'.tabs = DOMAIN ws.tabs,
           \A i \in DOMAIN ws.tabs : /\ ws'.tabs[i].id = ws.tabs[i].id /\ ws'.tabs[i].kind = ws.tabs[i].kind
                                    /\ ws'.tabs[i].from = ws.tabs[i].from,
           UNCHANGED contents
    PROVE  SessionsInv' /\ LayoutsInv'
<1>1. sessions' = sessions /\ layouts' = layouts /\ lateIds' = lateIds
  BY DEF contents
<1>2. SessionsInv'
  BY <1>1 DEF TabsInv, SessionsInv
<1>3. LayoutsInv'
  BY <1>1 DEF TabsInv, LayoutsInv
<1> QED
  BY <1>2, <1>3

\* Steps of the tabs leave the connections alone.
LEMMA ConnsKept == ASSUME TabsInv, UNCHANGED connVars PROVE ConnsInv'
BY DEF TabsInv, ConnsInv, connVars

\* A tab is opened.
LEMMA OpenStep == ASSUME TabsInv, NEW kind \in Kinds, Open(kind) PROVE TabsInv'
<1>1. PICK r : r = OpenTab(ws, kind, "blank")
  OBVIOUS
<1>2. TabsOK(r) /\ (r = Added(ws, kind, "boot", FALSE, "blank") \/ (r.tabs = ws.tabs /\ r.nextId = ws.nextId))
  <2>1. TabsOK(ws) /\ "blank" \in {"blank", "spec"}
    BY DEF TabsInv
  <2>2. /\ TabsOK(r)
        /\ \/ r = Added(ws, kind, "boot", FALSE, "blank") /\ kind \in {"settings", "create-table"}
           \/ r = Added(ws, kind, "boot", FALSE, "blank") /\ kind \notin {"settings", "create-table"}
           \/ r.tabs = ws.tabs /\ r.nextId = ws.nextId /\ kind \in {"settings", "create-table"}
    BY <1>1, <2>1, OpenOK
  <2> QED
    BY <2>2
<1>3. ws' = r /\ UNCHANGED contents
  BY <1>1 DEF Open
<1>4. ConnsInv'
  BY ConnsKept DEF Open
<1>5. CASE r = Added(ws, kind, "boot", FALSE, "blank")
  BY <1>2, <1>3, <1>4, <1>5, AddedKeeps DEF TabsInv, contents
<1>6. CASE r.tabs = ws.tabs /\ r.nextId = ws.nextId
  BY <1>2, <1>3, <1>4, <1>6, TabsKept DEF TabsInv
<1> QED
  BY <1>2, <1>5, <1>6

\* A report is opened from a chat: its content is under the id it gets.
LEMMA OpenReportStep == ASSUME TabsInv, OpenReport PROVE TabsInv'
<1>1. PICK r : r = OpenTab(ws, "report", "spec")
  OBVIOUS
<1>2. TabsOK(r) /\ r = Added(ws, "report", "boot", FALSE, "spec")
  <2>1. "report" \in Kinds /\ "report" \notin {"settings", "create-table"}
    BY DEF Kinds
  <2> QED
    BY <1>1, <2>1, OpenOK DEF TabsInv
<1>3. /\ ws' = r /\ layouts' = layouts /\ lateIds' = lateIds
      /\ sessions' = [i \in DOMAIN sessions \cup {ws.nextId} |-> IF i = ws.nextId THEN "spec" ELSE sessions[i]]
  BY <1>1 DEF OpenReport
<1>4. ConnsInv'
  BY ConnsKept DEF OpenReport
<1>5. "report" \in Kinds /\ FALSE \in BOOLEAN
  BY DEF Kinds
<1>6. SessionsInv' /\ LayoutsInv'
  BY <1>2, <1>3, <1>5, AddedKeeps
<1> QED
  BY <1>2, <1>3, <1>4, <1>6 DEF TabsInv

\* A tab is activated.
LEMMA ActivateStep == ASSUME TabsInv, NEW id, ActivateTab(id) PROVE TabsInv'
<1>1. TabsOK(ws') /\ ws'.tabs = ws.tabs /\ ws'.nextId = ws.nextId
  BY ActivateOK DEF ActivateTab, TabsInv
<1>2. ConnsInv'
  BY ConnsKept DEF ActivateTab
<1>3. SessionsInv' /\ LayoutsInv'
  BY <1>1, TabsKept DEF ActivateTab
<1> QED
  BY <1>1, <1>2, <1>3 DEF TabsInv

\* A tab is closed, and all it had goes with it.
LEMMA CloseStep == ASSUME TabsInv, NEW id \in TabIds(ws.tabs), Close(id) PROVE TabsInv'
<1>1. /\ TabsOK(ws') /\ ws'.nextId = ws.nextId
      /\ \A k \in DOMAIN ws'.tabs : ws'.tabs[k].id # id /\ \E i \in DOMAIN ws.tabs : ws'.tabs[k] = ws.tabs[i]
  BY CloseOK DEF Close, TabsInv
<1>2. ConnsInv'
  BY ConnsKept DEF Close
<1>3. /\ sessions' = [i \in DOMAIN sessions \ {id} |-> sessions[i]]
      /\ layouts' = [i \in DOMAIN layouts \ {id} |-> layouts[i]] /\ lateIds' = lateIds
  <2>1. (DOMAIN sessions \ {id}) \cap DOMAIN sessions = DOMAIN sessions \ {id}
    OBVIOUS
  <2> QED
    BY DEF Close, Restrict
<1>4. LayoutsInv'
  BY <1>1, <1>3 DEF TabsInv, LayoutsInv
<1>5. ASSUME NEW k \in DOMAIN ws'.tabs
      PROVE  /\ ws'.tabs[k].id \in DOMAIN sessions' => sessions'[ws'.tabs[k].id] = ws'.tabs[k].from
             /\ ws'.tabs[k].from = "spec" => ws'.tabs[k].id \in DOMAIN sessions'
  <2>1. PICK i \in DOMAIN ws.tabs : ws'.tabs[k] = ws.tabs[i]
    BY <1>1
  <2>2. /\ ws.tabs[i].id \in DOMAIN sessions => sessions[ws.tabs[i].id] = ws.tabs[i].from
        /\ ws.tabs[i].from = "spec" => ws.tabs[i].id \in DOMAIN sessions
    BY DEF TabsInv, SessionsInv
  <2>3. ws.tabs[i].id # id
    BY <1>1, <2>1
  <2> QED
    BY <1>3, <2>1, <2>2, <2>3
<1>6. \A i \in DOMAIN sessions' \cup lateIds' : i \in Nat /\ i < ws'.nextId
  BY <1>1, <1>3 DEF TabsInv, SessionsInv
<1> QED
  BY <1>1, <1>2, <1>4, <1>5, <1>6 DEF TabsInv, SessionsInv

\* A table is opened.
LEMMA BindStep == ASSUME TabsInv, NEW conn \in Conns \cup {"boot"}, ActivateTable(conn) PROVE TabsInv'
<1>1. PICK r : r = BindTableToActiveTab(ws, conn)
  OBVIOUS
<1>2. /\ TabsOK(r)
      /\ \/ r = Added(ws, "table", conn, TRUE, "blank")
         \/ /\ r.nextId = ws.nextId /\ DOMAIN r.tabs = DOMAIN ws.tabs
            /\ \A i \in DOMAIN ws.tabs : /\ r.tabs[i].id = ws.tabs[i].id /\ r.tabs[i].kind = ws.tabs[i].kind
                                        /\ r.tabs[i].from = ws.tabs[i].from
  BY <1>1, BindOK DEF TabsInv
<1>3. ws' = r /\ UNCHANGED contents
  BY <1>1 DEF ActivateTable
<1>4. ConnsInv'
  BY ConnsKept DEF ActivateTable
<1>5. CASE r = Added(ws, "table", conn, TRUE, "blank")
  <2>1. "table" \in Kinds
    BY DEF Kinds
  <2> QED
    BY <1>2, <1>3, <1>4, <1>5, <2>1, AddedKeeps DEF TabsInv, contents
<1>6. CASE r # Added(ws, "table", conn, TRUE, "blank")
  BY <1>2, <1>3, <1>4, <1>6, TabsKept DEF TabsInv
<1> QED
  BY <1>5, <1>6

\* A tab is given another connection.
LEMMA ReassignStep == ASSUME TabsInv, NEW conn \in Conns \cup {"boot"}, Reassign(conn) PROVE TabsInv'
<1>1. /\ TabsOK(ws') /\ ws'.nextId = ws.nextId /\ DOMAIN ws'.tabs = DOMAIN ws.tabs
      /\ \A i \in DOMAIN ws.tabs : /\ ws'.tabs[i].id = ws.tabs[i].id /\ ws'.tabs[i].kind = ws.tabs[i].kind
                                  /\ ws'.tabs[i].from = ws.tabs[i].from
  BY SetConnOK DEF Reassign, TabsInv
<1>2. ConnsInv'
  BY ConnsKept DEF Reassign
<1>3. SessionsInv' /\ LayoutsInv'
  BY <1>1, TabsKept DEF Reassign
<1> QED
  BY <1>1, <1>2, <1>3 DEF TabsInv

\* What is kept for a tab that has nothing kept yet is blank, as the tab is.
LEMMA KeptIs ==
    ASSUME TabsInv, NEW id, id \in Nat, id < ws.nextId, sessions' = Kept(id), lateIds' \subseteq lateIds \cup {id},
           UNCHANGED <<ws, layouts>>
    PROVE  TabsOK(ws') /\ SessionsInv' /\ LayoutsInv'
<1>1. /\ DOMAIN sessions' = DOMAIN sessions \cup {id}
      /\ \A i \in DOMAIN sessions : sessions'[i] = sessions[i]
      /\ id \notin DOMAIN sessions => sessions'[id] = "blank"
  BY DEF Kept
<1>2. ASSUME NEW i \in DOMAIN ws.tabs
      PROVE  /\ ws.tabs[i].id \in DOMAIN sessions' => sessions'[ws.tabs[i].id] = ws.tabs[i].from
             /\ ws.tabs[i].from = "spec" => ws.tabs[i].id \in DOMAIN sessions'
  <2>1. ws.tabs[i].from \in {"blank", "spec"}
    BY TabsTypeNow, TabAt
  <2>2. /\ ws.tabs[i].id \in DOMAIN sessions => sessions[ws.tabs[i].id] = ws.tabs[i].from
        /\ ws.tabs[i].from = "spec" => ws.tabs[i].id \in DOMAIN sessions
    BY DEF TabsInv, SessionsInv
  <2> QED
    BY <1>1, <2>1, <2>2
<1>3. \A i \in DOMAIN sessions' \cup lateIds' : i \in Nat /\ i < ws.nextId
  BY <1>1 DEF TabsInv, SessionsInv
<1>4. SessionsInv'
  BY <1>2, <1>3 DEF SessionsInv
<1> QED
  BY <1>4 DEF TabsInv, LayoutsInv

\* The view of a tab keeps what is in it.
LEMMA WriteStep == ASSUME TabsInv, Write PROVE TabsInv'
<1>1. ActiveKind \in Kinds
  BY DEF Write, Kinds
<1>2. ws.activeTabId \in Nat /\ ws.activeTabId < ws.nextId
  BY <1>1, ActiveTab DEF TabsInv
<1>3. TabsOK(ws') /\ SessionsInv' /\ LayoutsInv'
  BY <1>2, KeptIs DEF Write
<1>4. ConnsInv'
  BY ConnsKept DEF Write
<1> QED
  BY <1>3, <1>4 DEF TabsInv

\* A reply comes for a tab that may be closed.
LEMMA LateReplyStep == ASSUME TabsInv, NEW id \in lateIds, LateReply(id) PROVE TabsInv'
<1>1. id \in Nat /\ id < ws.nextId
  BY DEF TabsInv, SessionsInv
<1>2. TabsOK(ws') /\ SessionsInv' /\ LayoutsInv'
  BY <1>1, KeptIs DEF LateReply
<1>3. ConnsInv'
  BY ConnsKept DEF LateReply
<1> QED
  BY <1>2, <1>3 DEF TabsInv

\* The ERD keeps its layout.
LEMMA WriteLayoutStep == ASSUME TabsInv, WriteLayout PROVE TabsInv'
<1>1. ActiveKind \in Kinds /\ ActiveKind = "erd"
  BY DEF WriteLayout, Kinds
<1>2. PICK i \in DOMAIN ws.tabs : /\ ws.tabs[i].id = ws.activeTabId /\ ws.tabs[i].kind = "erd"
                                /\ ws.tabs[i].id \in Nat /\ ws.tabs[i].id < ws.nextId
  BY <1>1, ActiveTab DEF TabsInv
<1>3. /\ layouts' = [j \in DOMAIN layouts \cup {ws.activeTabId} |-> "whole"]
      /\ ws' = ws /\ sessions' = sessions /\ lateIds' = lateIds
  BY DEF WriteLayout
<1>4. \A j \in DOMAIN ws.tabs : ws.tabs[j].kind = "create-table" => ws.tabs[j].id # ws.activeTabId
  BY <1>2 DEF TabsInv, TabsOK
<1>5. LayoutsInv'
  BY <1>2, <1>3, <1>4 DEF TabsInv, LayoutsInv
<1>6. ConnsInv'
  BY ConnsKept DEF WriteLayout
<1> QED
  BY <1>3, <1>5, <1>6 DEF TabsInv, SessionsInv

-----------------------------------------------------------------------------
(* The page is loaded again.                                               *)

\* The snapshot of what is there comes back.
LEMMA SnapshotRestored ==
    ASSUME TabsInv
    PROVE  LET s == ToWorkspaceSnapshot(ws, layouts)
               r == RestoreWorkspace(s)
           IN  /\ ValidateSnapshotParams(s)
               /\ TabsOK(r) /\ r.nextId = ws.nextId
               /\ \A i \in DOMAIN r.tabs : r.tabs[i].from = "blank" /\ r.tabs[i].kind # "create-table"
               /\ ToWorkspaceSnapshot(r, RestoreErdLayouts(s, r)) = s
               /\ \A i \in DOMAIN ws.tabs : ws.tabs[i].id = ws.activeTabId /\ ws.tabs[i].kind # "create-table"
                                           => r.activeTabId = ws.activeTabId
               /\ ws.activeTabId = NoTab => r.activeTabId = NoTab
               /\ RestoreErdLayouts(s, r) = PruneErdLayouts(layouts, r.tabs)
<1>1. /\ TabsOK(ws)
      /\ \A id \in DOMAIN layouts : id \in Nat /\ layouts[id] = "whole"
      /\ \A i \in DOMAIN ws.tabs : ws.tabs[i].kind = "create-table" => ws.tabs[i].id \notin DOMAIN layouts
  BY DEF TabsInv, LayoutsInv
<1> QED
  BY <1>1, RestoreGivesBack

\* A file edited by hand comes back as a Workspace.
LEMMA EditedRestored ==
    ASSUME NEW s \in EditedFiles
    PROVE  LET r == RestoreWorkspace(s)
           IN  /\ TabsOK(r)
               /\ \A i \in DOMAIN r.tabs : r.tabs[i].from = "blank" /\ r.tabs[i].kind # "create-table"
<1>1. PICK k \in {"settings", "erd"}, j \in 1 .. 2, shape \in Shapes : s = EditedFile(k, j, shape)
  BY DEF EditedFiles
<1>2. PICK t : t = <<[id |-> 2, kind |-> k, connectionId |-> ""],
                     [id |-> j, kind |-> "settings", connectionId |-> "boot"]>>
  OBVIOUS
<1>3. s.tabs = t /\ s.activeTabId = 1 /\ s.nextId = 1
  BY <1>1, <1>2 DEF EditedFile
<1>4. t[1] \in WrittenTabs /\ t[2] \in WrittenTabs
  <2>1. \A i \in Nat \ {0}, kind \in Kinds, c \in {"boot", ""} : [id |-> i, kind |-> kind, connectionId |-> c] \in WrittenTabs
    BY DEF WrittenTabs
  <2>2. k \in Kinds /\ "settings" \in Kinds /\ 2 \in Nat \ {0} /\ j \in Nat \ {0}
    BY DEF Kinds
  <2>3. t[1] = [id |-> 2, kind |-> k, connectionId |-> ""] /\ t[2] = [id |-> j, kind |-> "settings", connectionId |-> "boot"]
    BY <1>2
  <2> QED
    BY <2>1, <2>2, <2>3
<1>5. /\ t \in Seq(WrittenTabs) /\ DOMAIN t = 1 .. 2
      /\ t[1].id = 2 /\ t[2].id = j /\ t[1].kind = k /\ t[2].kind = "settings"
  <2>1. t = <<t[1], t[2]>>
    BY <1>2
  <2>2. t \in Seq(WrittenTabs) /\ DOMAIN t = 1 .. 2
    BY <1>4, <2>1, PairIsSequence
  <2>3. t[1] = [id |-> 2, kind |-> k, connectionId |-> ""] /\ t[2] = [id |-> j, kind |-> "settings", connectionId |-> "boot"]
    BY <1>2
  <2>4. t[1].id = 2 /\ t[2].id = j /\ t[1].kind = k /\ t[2].kind = "settings"
    <3>1. PICK a : a = [id |-> 2, kind |-> k, connectionId |-> ""]
      OBVIOUS
    <3>2. PICK b : b = [id |-> j, kind |-> "settings", connectionId |-> "boot"]
      OBVIOUS
    <3>3. t[1] = a /\ t[2] = b /\ a.id = 2 /\ b.id = j /\ a.kind = k /\ b.kind = "settings"
      BY <2>3, <3>1, <3>2
    <3> QED
      BY <3>3
  <2> QED
    BY <2>2, <2>4
<1>6. 1 \in Restorable(t)
  BY <1>5 DEF Restorable, FirstOfId
<1>7. Restorable(t) \in SUBSET DOMAIN t
  BY DEF Restorable
<1>8. PICK f : f = Subsequence(t, Restorable(t))
  OBVIOUS
<1>9. /\ \A i \in DOMAIN f : Nth(Restorable(t), i) \in DOMAIN t /\ f[i] = t[Nth(Restorable(t), i)]
      /\ \E i \in DOMAIN f : Nth(Restorable(t), i) = 1
  BY <1>5, <1>6, <1>7, <1>8, SubsequenceIs
<1>10. (\A i \in DOMAIN f : f[i].id \in {2, j}) /\ \E i \in DOMAIN f : f[i].id = 2
  BY <1>5, <1>9
<1>11. PICK v : v = [i \in DOMAIN f |-> Tab(f[i].id, f[i].kind, NormalizeConnectionId(f[i].connectionId), FALSE, "blank")]
  OBVIOUS
<1>12. RestoreWorkspace(s).tabs = v
  BY <1>3, <1>8, <1>11 DEF RestoreWorkspace
<1>13. \A i \in DOMAIN f : v[i].id = f[i].id
  BY <1>11 DEF Tab
<1>14. TabIds(v) \subseteq {2, j} /\ 2 \in TabIds(v)
  BY <1>10, <1>11, <1>13 DEF TabIds
<1>15. /\ 3 \in {s.nextId} \cup {id + 1 : id \in TabIds(RestoreWorkspace(s).tabs)}
       /\ \A n \in {s.nextId} \cup {id + 1 : id \in TabIds(RestoreWorkspace(s).tabs)} : 3 >= n
  <2>1. 3 \in {id + 1 : id \in TabIds(v)}
    BY <1>14
  <2>2. \A id \in TabIds(v) : 3 >= id + 1
    BY <1>14
  <2> QED
    BY <1>3, <1>12, <2>1, <2>2
<1>16. /\ TabsOK(RestoreWorkspace(s))
       /\ \A i \in DOMAIN RestoreWorkspace(s).tabs :
            /\ RestoreWorkspace(s).tabs[i].from = "blank"
            /\ \E l \in DOMAIN s.tabs : RestoreWorkspace(s).tabs[i].kind = s.tabs[l].kind
  BY <1>3, <1>5, <1>15, RestoreOK
<1>17. \A l \in DOMAIN s.tabs : s.tabs[l].kind # "create-table"
  BY <1>3, <1>5
<1> QED
  BY <1>16, <1>17

\* Layouts that are read are those of tabs that are there, and whole.
LEMMA LayoutsRestored ==
    ASSUME NEW s, NEW w, TabsOK(w)
    PROVE  \A id \in DOMAIN RestoreErdLayouts(s, w) :
              /\ id \in Nat /\ id < w.nextId
              /\ RestoreErdLayouts(s, w)[id] = "whole"
<1>1. PICK p : p = PruneErdLayouts(s.erdLayouts, w.tabs)
  OBVIOUS
<1>2. RestoreErdLayouts(s, w) = [id \in {i \in DOMAIN p : SanitizeErdLayout(p[i]) # {}} |->
                                   CHOOSE shape \in SanitizeErdLayout(p[id]) : TRUE]
  BY <1>1 DEF RestoreErdLayouts
<1>3. DOMAIN p \subseteq TabIds(w.tabs)
  BY <1>1 DEF PruneErdLayouts, Restrict
<1>4. \A shape : SanitizeErdLayout(shape) # {} => (CHOOSE x \in SanitizeErdLayout(shape) : TRUE) = "whole"
  BY DEF SanitizeErdLayout
<1>5. w.tabs \in Seq(TabRecords)
  BY DEF TabsOK
<1>6. \A id \in TabIds(w.tabs) : id \in Nat /\ id < w.nextId
  BY <1>5, TabAt DEF TabIds, TabsOK
<1> QED
  BY <1>2, <1>3, <1>4, <1>6

\* The page is loaded again.
LEMMA ReloadStep == ASSUME TabsInv, Reload PROVE TabsInv'
<1>1. PICK s \in {ToWorkspaceSnapshot(ws, layouts)} \cup EditedFiles :
        ws' = RestoreWorkspace(s) /\ layouts' = RestoreErdLayouts(s, ws')
  BY DEF Reload
<1>2. /\ TabsOK(ws')
      /\ \A i \in DOMAIN ws'.tabs : ws'.tabs[i].from = "blank" /\ ws'.tabs[i].kind # "create-table"
  BY <1>1, SnapshotRestored, EditedRestored
<1>3. sessions' = NoFn /\ lateIds' = {}
  BY DEF Reload
<1>4. DOMAIN sessions' = {}
  BY <1>3 DEF NoFn
<1>5. SessionsInv'
  BY <1>2, <1>3, <1>4 DEF SessionsInv
<1>6. LayoutsInv'
  <2>1. \A id \in DOMAIN layouts' : id \in Nat /\ id < ws'.nextId /\ layouts'[id] = "whole"
    BY <1>1, <1>2, LayoutsRestored
  <2> QED
    BY <1>2, <2>1 DEF LayoutsInv
<1>7. ConnsInv'
  BY DEF Reload, TabsInv, ConnsInv, Sent
<1> QED
  BY <1>2, <1>5, <1>6, <1>7 DEF TabsInv

\* Steps of the connections leave the tabs alone.
LEMMA TabsAtRest ==
    ASSUME TabsInv, UNCHANGED <<ws, contents>>, ConnsInv' PROVE TabsInv'
BY DEF TabsInv, SessionsInv, LayoutsInv, contents

\* The registry changes, or is read.
LEMMA ConnsStep ==
    ASSUME TabsInv,
           \/ \E c \in Conns : SettingsMutates(c)
           \/ RegistryChanged \/ ReplyIsLost \/ CoreListsConnections \/ RetryRead
           \/ \E listed, active \in BOOLEAN : ConnectionsRead(listed, active)
    PROVE  TabsInv'
<1> USE DEF TabsInv, ConnsInv, Sent
<1>1. CASE \E c \in Conns : SettingsMutates(c)
  BY <1>1, TabsAtRest DEF SettingsMutates
<1>2. CASE RegistryChanged
  BY <1>2, TabsAtRest DEF RegistryChanged
<1>3. CASE ReplyIsLost
  BY <1>3, TabsAtRest DEF ReplyIsLost
<1>4. CASE CoreListsConnections
  BY <1>4, TabsAtRest DEF CoreListsConnections
<1>5. CASE RetryRead
  BY <1>5, TabsAtRest DEF RetryRead
<1>6. ASSUME NEW listed \in BOOLEAN, NEW active \in BOOLEAN, ConnectionsRead(listed, active) PROVE TabsInv'
  BY <1>6, TabsAtRest DEF ConnectionsRead
<1> QED
  BY <1>1, <1>2, <1>3, <1>4, <1>5, <1>6

\* The invariant holds in every state.
LEMMA TabsInvHolds == TabsSpec => []TabsInv
<1>1. TabsInit => TabsInv
  <2> SUFFICES ASSUME TabsInit PROVE TabsInv
    OBVIOUS
  <2>1. TabsOK(EmptyWorkspace)
    BY DEF TabsOK, EmptyWorkspace, NoTab
  <2>2. TabsOK(OpenOrFocus(EmptyWorkspace, "settings"))
    <3>1. OpenOrFocus(EmptyWorkspace, "settings") = OpenTab(EmptyWorkspace, "settings", "blank")
      BY DEF OpenTab
    <3>2. "settings" \in Kinds
      BY DEF Kinds
    <3> QED
      BY <2>1, <3>1, <3>2, OpenOK
  <2>3. ws.tabs = <<>> \/ ws.tabs = Append(<<>>, Tab(1, "settings", "boot", FALSE, "blank"))
    <3>1. EmptyWorkspace.tabs = <<>> /\ EmptyWorkspace.nextId = 1
      BY DEF EmptyWorkspace
    <3>2. {i \in DOMAIN EmptyWorkspace.tabs : EmptyWorkspace.tabs[i].kind = "settings"} = {}
      BY <3>1
    <3>3. OpenOrFocus(EmptyWorkspace, "settings") = Added(EmptyWorkspace, "settings", "boot", FALSE, "blank")
      BY <3>2 DEF OpenOrFocus
    <3>4. OpenOrFocus(EmptyWorkspace, "settings").tabs = Append(<<>>, Tab(1, "settings", "boot", FALSE, "blank"))
      <4>1. PICK w : w = EmptyWorkspace
        OBVIOUS
      <4>2. w.tabs = <<>> /\ w.nextId = 1
        BY <3>1, <4>1
      <4>3. Added(w, "settings", "boot", FALSE, "blank").tabs = Append(w.tabs, Tab(w.nextId, "settings", "boot", FALSE, "blank"))
        BY DEF Added
      <4> QED
        BY <3>3, <4>1, <4>2, <4>3
    <3> QED
      BY <3>1, <3>4 DEF TabsInit
  <2>4. \A i \in DOMAIN ws.tabs : ws.tabs[i].from = "blank"
    BY <2>3 DEF Tab
  <2>5. DOMAIN sessions = {} /\ DOMAIN layouts = {} /\ lateIds = {}
    BY DEF TabsInit, NoFn
  <2>6. SessionsInv /\ LayoutsInv
    BY <2>4, <2>5 DEF SessionsInv, LayoutsInv
  <2>7. ConnsInv
    BY TabsAssumption DEF TabsInit, ConnsInv, Sent
  <2> QED
    BY <2>1, <2>2, <2>6, <2>7 DEF TabsInit, TabsInv
<1>2. TabsInv /\ [TabsNext]_tabsVars => TabsInv'
  <2> SUFFICES ASSUME TabsInv, [TabsNext]_tabsVars PROVE TabsInv'
    OBVIOUS
  <2>1. ASSUME NEW k \in Kinds, Open(k) PROVE TabsInv'
    BY <2>1, OpenStep
  <2>2. ASSUME NEW id \in TabIds(ws.tabs), ActivateTab(id) \/ Close(id) PROVE TabsInv'
    BY <2>2, ActivateStep, CloseStep
  <2>3. ASSUME NEW c \in savedConns \cup {"boot"}, ActivateTable(c) \/ Reassign(c) PROVE TabsInv'
    <3>1. c \in Conns \cup {"boot"}
      BY DEF TabsInv, ConnsInv
    <3> QED
      BY <2>3, <3>1, BindStep, ReassignStep
  <2>4. ASSUME NEW id \in lateIds, LateReply(id) PROVE TabsInv'
    BY <2>4, LateReplyStep
  <2>5. CASE UNCHANGED tabsVars
    BY <2>5 DEF tabsVars, TabsInv, SessionsInv, LayoutsInv, ConnsInv
  <2> QED
    BY <2>1, <2>2, <2>3, <2>4, <2>5, OpenReportStep, WriteStep, WriteLayoutStep, ReloadStep, ConnsStep DEF TabsNext
<1> QED
  BY <1>1, <1>2, PTL DEF TabsSpec

\* Whatever is opened, closed, activated, bound, edited or replied late, in any number of
\* tabs: the Core accepts the Workspace the page saves, which comes back as it was and
\* saves as itself; a tab shows its own content only; and it is said to have lost its
\* connection exactly when it has, once the registry was read.
THEOREM TabsHold == TabsSpec => []TabsAreTrue
<1>1. TabsInv => TabsAreTrue
  <2> SUFFICES ASSUME TabsInv PROVE TabsAreTrue
    OBVIOUS
  <2>1. RestoreGivesItBack
    <3>1. PICK s : s = ToWorkspaceSnapshot(ws, layouts)
      OBVIOUS
    <3>2. PICK r : r = RestoreWorkspace(s)
      OBVIOUS
    <3>3. ActiveKind # "create-table" => r.activeTabId = ws.activeTabId
      <4>1. CASE ws.activeTabId = NoTab
        BY <3>1, <3>2, <4>1, SnapshotRestored
      <4>2. CASE ws.activeTabId # NoTab
        <5>1. PICK j : j = CHOOSE i \in DOMAIN ws.tabs : ws.tabs[i].id = ws.activeTabId
          OBVIOUS
        <5>2. ws.activeTabId \in TabIds(ws.tabs)
          BY <4>2 DEF TabsInv, TabsOK
        <5>3. j \in DOMAIN ws.tabs /\ ws.tabs[j].id = ws.activeTabId
          BY <5>1, <5>2 DEF TabIds
        <5>4. ActiveKind = ws.tabs[j].kind
          BY <4>2, <5>1 DEF ActiveKind, TabOf
        <5> QED
          BY <3>1, <3>2, <5>3, <5>4, SnapshotRestored
      <4> QED
        BY <4>1, <4>2
    <3> QED
      BY <3>1, <3>2, <3>3, SnapshotRestored DEF RestoreGivesItBack
  <2>2. ContentIsItsOwn
    BY DEF TabsInv, SessionsInv, LayoutsInv, ContentIsItsOwn
  <2>3. MissingIsTrue
    <3> SUFFICES ASSUME connRead.at = "idle", readOk, told = "yes", NEW i \in DOMAIN ws.tabs
                 PROVE  Missing(ws.tabs[i]) <=> ws.tabs[i].connectionId \notin savedConns \cup {"boot"}
      BY DEF MissingIsTrue
    <3>1. liveConns = savedConns /\ savedConns \subseteq Conns
      BY DEF TabsInv, ConnsInv
    <3>2. liveConns # NotKnown
      BY <3>1, TabsAssumption DEF NotKnown
    <3> QED
      BY <3>1, <3>2 DEF Missing
  <2> QED
    BY <2>1, <2>2, <2>3 DEF TabsAreTrue
<1> QED
  BY <1>1, TabsInvHolds, PTL

-----------------------------------------------------------------------------
(* QueryTab: the query tab.                                                 *)

(* The inductive invariant.                                                 *)

Views ==
  [data : [sql : Nat, rows : Nat], page : Nat, rowCount : Int, confirm : Nat,
   note : {"none", "error", "ok"}, busy : BOOLEAN, pendingSql : Nat]

QueryTypeOK ==
  /\ doc \in Nat /\ edits \in Nat /\ draft \in Nat /\ prop \in Nat
  /\ effectDue \in BOOLEAN /\ late \in BOOLEAN
  /\ query \in Views /\ shownQuery \in Views
  /\ inFlight \in [sql : Nat, confirmed : BOOLEAN]

\* The editor and the App part only while a render or an effect is due.
TextInv ==
  /\ prop <= edits /\ draft <= edits
  /\ prop = draft /\ ~effectDue => doc = draft

\* One statement at a time: while it is out the view shows it as busy, and what
\* a reply sets is the only thing a render has still to bring.
FlightInv ==
  /\ inFlight # NoFlight =>
       /\ query.busy /\ shownQuery = query
       /\ inFlight.sql # NoSql /\ inFlight.sql = query.pendingSql
       /\ inFlight.confirmed => inFlight.sql = query.confirm
  /\ inFlight = NoFlight => ~query.busy /\ (shownQuery = query \/ shownQuery.busy)
  /\ shownQuery.pendingSql = query.pendingSql

\* A view shows one kind of reply, to the statement it was last sent.
Coherent(view) ==
  /\ view.confirm # NoSql => view.confirm = view.pendingSql /\ view.data = NoData
  /\ view.data # NoData => view.note = "none"
  /\ view.data # NoData /\ ~view.busy => view.data.sql = view.pendingSql

OnPage(view) ==
  view.data # NoData =>
    /\ view.page \in 1 .. LastRowsPage(view.data.rows)
    /\ view.rowCount = PageSlice(view.data.rows, view.page)

ViewsInv == Coherent(query) /\ Coherent(shownQuery) /\ (late \/ OnPage(query))

QueryInv == QueryTypeOK /\ TextInv /\ FlightInv /\ ViewsInv

-----------------------------------------------------------------------------
(* Pages.                                                                   *)

LEMMA QuotientIsPositive ==
  ASSUME NEW n \in Nat, NEW d \in Nat \ {0}, n >= d
  PROVE  n \div d \in Nat /\ n \div d >= 1
OBVIOUS

LEMMA LastPageIsPage == ASSUME NEW rows \in Nat PROVE LastRowsPage(rows) \in Nat \ {0}
<1>1. CASE rows = 0
  BY <1>1 DEF LastRowsPage
<1>2. CASE rows # 0
  <2>1. RowsOnPage \in Nat \ {0} /\ rows + RowsOnPage - 1 \in Nat
    BY <1>2, QueryTabAssumption
  <2>2. rows + RowsOnPage - 1 >= RowsOnPage
    BY <1>2, <2>1
  <2>3. QED
    BY <1>2, <2>1, <2>2, QuotientIsPositive DEF LastRowsPage
<1>3. QED
  BY <1>1, <1>2

LEMMA SliceIsInteger == ASSUME NEW rows \in Nat, NEW page \in Nat PROVE PageSlice(rows, page) \in Int
<1> DEFINE before == (page - 1) * RowsOnPage
<1>1. before \in Int /\ RowsOnPage \in Int
  BY QueryTabAssumption
<1> HIDE DEF before
<1>2. rows - before \in Int
  BY <1>1
<1>3. PageSlice(rows, page) =
        IF rows <= before THEN 0 ELSE IF rows - before < RowsOnPage THEN rows - before ELSE RowsOnPage
  BY DEF PageSlice, before
<1>4. QED
  BY <1>1, <1>2, <1>3

LEMMA FreshIsView == FreshQuery \in Views /\ Coherent(FreshQuery) /\ OnPage(FreshQuery)
<1>1. FreshQuery \in Views
  BY DEF FreshQuery, Views, NoData, NoSql
<1>2. Coherent(FreshQuery) /\ OnPage(FreshQuery)
  BY DEF FreshQuery, Coherent, OnPage
<1>3. QED
  BY <1>1, <1>2

LEMMA QueryInvInit == QueryInit => QueryInv
<1> SUFFICES ASSUME QueryInit PROVE QueryInv
  OBVIOUS
<1> USE FreshIsView DEF QueryInit
<1>1. QueryTypeOK
  BY DEF QueryTypeOK, NoSql, NoFlight
<1>2. TextInv
  BY DEF TextInv, NoSql
<1>3. FlightInv
  BY DEF FlightInv, FreshQuery
<1>4. ViewsInv
  BY DEF ViewsInv
<1>5. QED
  BY <1>1, <1>2, <1>3, <1>4 DEF QueryInv

-----------------------------------------------------------------------------
(* Every action keeps the invariant.                                        *)

\* What is typed and rendered of the text leaves the runs alone.
LEMMA TextStepInv ==
  ASSUME QueryInv, TypeSql \/ RenderDraft \/ DraftEffect PROVE QueryInv'
<1>1. UNCHANGED <<query, shownQuery, inFlight, late>>
  BY DEF TypeSql, RenderDraft, DraftEffect
<1>2. doc' \in Nat /\ edits' \in Nat /\ draft' \in Nat /\ prop' \in Nat /\ effectDue' \in BOOLEAN
  <2>1. doc \in Nat /\ edits \in Nat /\ draft \in Nat /\ prop \in Nat /\ effectDue \in BOOLEAN
    BY DEF QueryInv, QueryTypeOK
  <2>2. CASE TypeSql
    BY <2>1, <2>2 DEF TypeSql
  <2>3. CASE RenderDraft
    BY <2>1, <2>3 DEF RenderDraft
  <2>4. CASE DraftEffect
    BY <2>1, <2>4 DEF DraftEffect
  <2>5. QED
    BY <2>2, <2>3, <2>4
<1>3. QueryTypeOK'
  BY <1>1, <1>2 DEF QueryInv, QueryTypeOK
<1>4. TextInv'
  BY DEF QueryInv, QueryTypeOK, TextInv, TypeSql, RenderDraft, DraftEffect
<1>5. FlightInv' /\ ViewsInv'
  BY <1>1 DEF QueryInv, FlightInv, ViewsInv, Coherent, OnPage
<1>6. QED
  BY <1>3, <1>4, <1>5 DEF QueryInv

LEMMA QueryReturnInv == ASSUME QueryInv, LeaveAndReturn PROVE QueryInv'
<1>1. /\ doc' = draft /\ prop' = draft /\ effectDue' = FALSE
      /\ query' = FreshQuery /\ shownQuery' = FreshQuery /\ inFlight' = NoFlight /\ late' = FALSE
      /\ UNCHANGED <<edits, draft>>
  BY DEF LeaveAndReturn
<1>2. QueryTypeOK'
  BY <1>1, FreshIsView DEF QueryInv, QueryTypeOK, NoFlight, NoSql
<1>3. TextInv'
  BY <1>1 DEF QueryInv, TextInv
<1>4. FlightInv'
  BY <1>1 DEF FlightInv, FreshQuery
<1>5. Coherent(query)' /\ Coherent(shownQuery)' /\ OnPage(query)'
  BY <1>1, FreshIsView DEF Coherent, OnPage
<1>6. QED
  BY <1>2, <1>3, <1>4, <1>5 DEF QueryInv, ViewsInv

LEMMA RunInv == ASSUME QueryInv, RunSql PROVE QueryInv'
<1>1. /\ inFlight = NoFlight /\ ~shownQuery.busy /\ shownQuery.confirm = NoSql /\ doc # NoSql
      /\ inFlight' = [sql |-> doc, confirmed |-> FALSE]
      /\ query' = [query EXCEPT !.busy = TRUE, !.pendingSql = doc]
      /\ shownQuery' = [shownQuery EXCEPT !.busy = TRUE, !.pendingSql = doc]
      /\ UNCHANGED <<doc, edits, draft, prop, effectDue, late>>
  BY DEF RunSql, Clicked, textVars
<1>2. query \in Views /\ shownQuery = query /\ doc \in Nat
  BY <1>1 DEF QueryInv, QueryTypeOK, FlightInv
<1>3. /\ query' \in Views /\ shownQuery' = query'
      /\ query'.busy /\ query'.pendingSql = doc /\ query'.confirm = query.confirm
      /\ query'.data = query.data /\ query'.note = query.note
      /\ query'.page = query.page /\ query'.rowCount = query.rowCount
  BY <1>1, <1>2 DEF Views
<1>4. QueryTypeOK'
  BY <1>1, <1>2, <1>3 DEF QueryInv, QueryTypeOK
<1>5. TextInv'
  BY <1>1 DEF QueryInv, TextInv
<1>6. FlightInv'
  <2>1. inFlight' # NoFlight /\ inFlight'.sql = doc /\ ~inFlight'.confirmed
    BY <1>1 DEF NoFlight
  <2>2. QED
    BY <1>1, <1>3, <2>1 DEF FlightInv
<1>7. ViewsInv'
  BY <1>1, <1>2, <1>3 DEF QueryInv, ViewsInv, Coherent, OnPage
<1>8. QED
  BY <1>4, <1>5, <1>6, <1>7 DEF QueryInv

LEMMA ConfirmInv == ASSUME QueryInv, ConfirmSql PROVE QueryInv'
<1>1. /\ shownQuery.confirm # NoSql /\ inFlight = NoFlight /\ ~shownQuery.busy
      /\ inFlight' = [sql |-> shownQuery.pendingSql, confirmed |-> TRUE]
      /\ query' = [query EXCEPT !.busy = TRUE]
      /\ shownQuery' = [shownQuery EXCEPT !.busy = TRUE]
      /\ UNCHANGED <<doc, edits, draft, prop, effectDue, late>>
  BY DEF ConfirmSql, Clicked, textVars
<1>2. query \in Views /\ shownQuery = query
  BY <1>1 DEF QueryInv, QueryTypeOK, FlightInv
<1>3. /\ query' \in Views /\ shownQuery' = query'
      /\ query'.busy /\ query'.pendingSql = query.pendingSql /\ query'.confirm = query.confirm
      /\ query'.data = query.data /\ query'.note = query.note
      /\ query'.page = query.page /\ query'.rowCount = query.rowCount
  BY <1>1, <1>2 DEF Views
<1>4. QueryTypeOK'
  BY <1>1, <1>2, <1>3 DEF QueryInv, QueryTypeOK, Views
<1>5. TextInv'
  BY <1>1 DEF QueryInv, TextInv
<1>6. FlightInv'
  <2>1. query.confirm = query.pendingSql /\ query.confirm # NoSql
    BY <1>1, <1>2 DEF QueryInv, ViewsInv, Coherent
  <2>2. inFlight' # NoFlight /\ inFlight'.sql = query.pendingSql
    BY <1>1, <1>2 DEF NoFlight
  <2>3. QED
    BY <1>3, <2>1, <2>2 DEF FlightInv
<1>7. ViewsInv'
  BY <1>1, <1>2, <1>3 DEF QueryInv, ViewsInv, Coherent, OnPage
<1>8. QED
  BY <1>4, <1>5, <1>6, <1>7 DEF QueryInv

LEMMA CancelInv == ASSUME QueryInv, CancelSql PROVE QueryInv'
<1>1. /\ shownQuery.confirm # NoSql /\ ~shownQuery.busy
      /\ query' = [query EXCEPT !.confirm = NoSql]
      /\ shownQuery' = [shownQuery EXCEPT !.confirm = NoSql]
      /\ UNCHANGED <<doc, edits, draft, prop, effectDue, late, inFlight>>
  BY DEF CancelSql, Clicked, textVars
<1>2. query \in Views /\ shownQuery = query /\ inFlight = NoFlight
  BY <1>1 DEF QueryInv, QueryTypeOK, FlightInv
<1>3. /\ query' \in Views /\ shownQuery' = query'
      /\ query'.busy = query.busy /\ query'.pendingSql = query.pendingSql
      /\ query'.confirm = NoSql
      /\ query'.data = query.data /\ query'.note = query.note
      /\ query'.page = query.page /\ query'.rowCount = query.rowCount
  BY <1>1, <1>2 DEF Views, NoSql
<1>4. QueryTypeOK' /\ TextInv'
  BY <1>1, <1>2, <1>3 DEF QueryInv, QueryTypeOK, TextInv
<1>5. FlightInv'
  BY <1>1, <1>2, <1>3 DEF QueryInv, FlightInv
<1>6. ViewsInv'
  BY <1>1, <1>2, <1>3 DEF QueryInv, ViewsInv, Coherent, OnPage
<1>7. QED
  BY <1>4, <1>5, <1>6 DEF QueryInv

LEMMA ReplyInv ==
  ASSUME QueryInv, NEW kind \in {"error", "ok", "confirm", "rows"}, NEW rows \in Nat,
         SqlReplies(kind, rows)
  PROVE  QueryInv'
<1>1. /\ inFlight # NoFlight /\ inFlight' = NoFlight /\ late' = FALSE
      /\ query' = ApplyQueryOutcome(query, kind, rows)
      /\ UNCHANGED <<doc, edits, draft, prop, effectDue, shownQuery>>
  BY DEF SqlReplies, textVars
<1>2. /\ query \in Views /\ shownQuery = query /\ query.busy
      /\ inFlight.sql \in Nat /\ inFlight.sql # NoSql /\ inFlight.sql = query.pendingSql
  BY <1>1 DEF QueryInv, QueryTypeOK, FlightInv
<1>3. PageSlice(rows, 1) \in Int
  BY SliceIsInteger
<1> DEFINE answered == [sql |-> inFlight.sql, rows |-> rows]
<1>4. answered \in [sql : Nat, rows : Nat] /\ answered # NoData
  BY <1>2 DEF NoData
<1> HIDE DEF answered
<1>5. query' = [query EXCEPT !.busy = FALSE,
                 !.confirm = IF kind = "confirm" THEN inFlight.sql ELSE NoSql,
                 !.note = IF kind \in {"error", "ok"} THEN kind ELSE "none",
                 !.data = IF kind = "rows" THEN answered ELSE NoData,
                 !.page = IF kind = "rows" THEN 1 ELSE query.page,
                 !.rowCount = IF kind = "rows" THEN PageSlice(rows, 1) ELSE query.rowCount]
  BY <1>1, <1>2 DEF ApplyQueryOutcome, answered
<1>6. /\ ~query'.busy /\ query'.pendingSql = query.pendingSql
      /\ query'.confirm = IF kind = "confirm" THEN inFlight.sql ELSE NoSql
      /\ query'.note = IF kind \in {"error", "ok"} THEN kind ELSE "none"
      /\ query'.data = IF kind = "rows" THEN answered ELSE NoData
      /\ query'.page = IF kind = "rows" THEN 1 ELSE query.page
      /\ query'.rowCount = IF kind = "rows" THEN PageSlice(rows, 1) ELSE query.rowCount
  BY <1>2, <1>5 DEF Views
<1>7. query' \in Views
  <2>1. NoData \in [sql : Nat, rows : Nat] /\ NoSql \in Nat
    BY DEF NoData, NoSql
  <2>2. QED
    BY <1>2, <1>3, <1>4, <1>5, <2>1 DEF Views
<1>8. QueryTypeOK' /\ TextInv'
  <2>1. NoFlight \in [sql : Nat, confirmed : BOOLEAN]
    BY DEF NoFlight, NoSql
  <2>2. QED
    BY <1>1, <1>7, <2>1 DEF QueryInv, QueryTypeOK, TextInv
<1>9. FlightInv'
  BY <1>1, <1>2, <1>6 DEF QueryInv, FlightInv
<1>10. Coherent(query)'
  <2>1. answered.sql = query.pendingSql
    BY <1>2 DEF answered
  <2>2. QED
    BY <1>2, <1>4, <1>6, <2>1 DEF Coherent
<1>11. OnPage(query)'
  <2>1. answered.rows = rows /\ 1 \in 1 .. LastRowsPage(rows)
    BY LastPageIsPage DEF answered
  <2>2. QED
    BY <1>6, <2>1 DEF OnPage
<1>12. Coherent(shownQuery)'
  BY <1>1 DEF QueryInv, ViewsInv, Coherent
<1>13. QED
  BY <1>8, <1>9, <1>10, <1>11, <1>12 DEF QueryInv, ViewsInv

LEMMA RenderInv == ASSUME QueryInv, RenderQuery PROVE QueryInv'
<1>1. shownQuery' = query /\ UNCHANGED <<doc, edits, draft, prop, effectDue, query, inFlight, late>>
  BY DEF RenderQuery, textVars
<1>2. QueryTypeOK' /\ TextInv' /\ FlightInv'
  BY <1>1 DEF QueryInv, QueryTypeOK, TextInv, FlightInv
<1>3. ViewsInv'
  BY <1>1 DEF QueryInv, ViewsInv, Coherent, OnPage
<1>4. QED
  BY <1>2, <1>3 DEF QueryInv

LEMMA GotoInv == ASSUME QueryInv, GotoPage PROVE QueryInv'
<1> DEFINE last == LastRowsPage(shownQuery.data.rows)
<1>1. PICK page \in {IF shownQuery.page > 1 THEN shownQuery.page - 1 ELSE 1,
                     IF shownQuery.page < last THEN shownQuery.page + 1 ELSE last} :
        /\ query' = [query EXCEPT !.page = page, !.rowCount = PageSlice(shownQuery.data.rows, page)]
        /\ shownQuery' = [shownQuery EXCEPT !.page = page,
                                            !.rowCount = PageSlice(shownQuery.data.rows, page)]
  BY DEF GotoPage, Clicked
<1>2. /\ shownQuery.data # NoData /\ late' = (late \/ shownQuery # query)
      /\ UNCHANGED <<doc, edits, draft, prop, effectDue, inFlight>>
  BY DEF GotoPage, textVars
<1>3. /\ query \in Views /\ shownQuery \in Views
      /\ shownQuery.data.rows \in Nat /\ shownQuery.page \in Nat
  BY DEF QueryInv, QueryTypeOK, Views
<1>4. last \in Nat \ {0}
  BY <1>3, LastPageIsPage
<1> HIDE DEF last
<1>5. page \in Nat
  BY <1>1, <1>3, <1>4
<1>6. PageSlice(shownQuery.data.rows, page) \in Int
  BY <1>3, <1>5, SliceIsInteger
<1>7. /\ query' \in Views /\ shownQuery' \in Views
      /\ query'.busy = query.busy /\ query'.pendingSql = query.pendingSql
      /\ query'.confirm = query.confirm /\ query'.data = query.data /\ query'.note = query.note
      /\ query'.page = page /\ query'.rowCount = PageSlice(shownQuery.data.rows, page)
      /\ shownQuery'.busy = shownQuery.busy /\ shownQuery'.pendingSql = shownQuery.pendingSql
      /\ shownQuery'.confirm = shownQuery.confirm /\ shownQuery'.data = shownQuery.data
      /\ shownQuery'.note = shownQuery.note
      /\ shownQuery = query => shownQuery' = query'
  BY <1>1, <1>3, <1>5, <1>6 DEF Views
<1>8. QueryTypeOK' /\ TextInv'
  BY <1>2, <1>7 DEF QueryInv, QueryTypeOK, TextInv
<1>9. FlightInv'
  BY <1>2, <1>7 DEF QueryInv, FlightInv
<1>10. Coherent(query)' /\ Coherent(shownQuery)'
  BY <1>7 DEF QueryInv, ViewsInv, Coherent
<1>11. ~late' => OnPage(query)'
  <2> SUFFICES ASSUME ~late' PROVE OnPage(query)'
    OBVIOUS
  <2>1. shownQuery = query /\ OnPage(query)
    BY <1>2 DEF QueryInv, ViewsInv
  <2>2. shownQuery.page \in 1 .. last
    BY <1>2, <2>1 DEF OnPage, last
  <2>3. page \in 1 .. last
    BY <1>1, <1>3, <1>4, <2>2
  <2>4. QED
    BY <1>7, <2>1, <2>3 DEF OnPage, last
<1>12. QED
  BY <1>8, <1>9, <1>10, <1>11 DEF QueryInv, ViewsInv

LEMMA QueryInvStep == QueryInv /\ [QueryNext]_queryVars => QueryInv'
<1> SUFFICES ASSUME QueryInv, [QueryNext]_queryVars PROVE QueryInv'
  OBVIOUS
<1>1. CASE TypeSql \/ RenderDraft \/ DraftEffect
  BY <1>1, TextStepInv
<1>2. CASE LeaveAndReturn
  BY <1>2, QueryReturnInv
<1>3. CASE RunSql
  BY <1>3, RunInv
<1>4. CASE ConfirmSql
  BY <1>4, ConfirmInv
<1>5. CASE CancelSql
  BY <1>5, CancelInv
<1>6. CASE RenderQuery
  BY <1>6, RenderInv
<1>7. CASE GotoPage
  BY <1>7, GotoInv
<1>8. ASSUME NEW kind \in {"error", "ok", "confirm"}, SqlReplies(kind, 0) PROVE QueryInv'
  BY <1>8, ReplyInv
<1>9. ASSUME NEW rows \in 0 .. MaxRowsAnswered, SqlReplies("rows", rows) PROVE QueryInv'
  <2>1. rows \in Nat
    BY QueryTabAssumption
  <2>2. QED
    BY <1>9, <2>1, ReplyInv
<1>10. CASE UNCHANGED queryVars
  <2>1. UNCHANGED <<doc, edits, draft, prop, effectDue, query, shownQuery, inFlight, late>>
    BY <1>10 DEF queryVars
  <2>2. QED
    BY <2>1 DEF QueryInv, QueryTypeOK, TextInv, FlightInv, ViewsInv, Coherent, OnPage
<1>11. QED
  BY <1>1, <1>2, <1>3, <1>4, <1>5, <1>6, <1>7, <1>8, <1>9, <1>10 DEF QueryNext

LEMMA QueryInvariance == QuerySpec => []QueryInv
BY QueryInvInit, QueryInvStep, PTL DEF QuerySpec

-----------------------------------------------------------------------------
(* Theorems.                                                                *)

(* The editor, the App's text and the view keep to their types: there is at *)
(* most one statement out.                                                  *)
THEOREM QueryTypeCorrect == QuerySpec => []QueryTypeOK
<1>1. QueryInv => QueryTypeOK
  BY DEF QueryInv
<1>2. QED
  BY <1>1, QueryInvariance, PTL

(* What is confirmed is what the dialog shows, the view shows the answer to *)
(* the last statement on a page it has, and the editor the App's text,      *)
(* whatever is typed, run, confirmed, cancelled or left meanwhile.          *)
THEOREM TabIsTrue == QuerySpec => []QueryTabIsTrue
<1>1. QueryInv => QueryTabIsTrue
  <2> SUFFICES ASSUME QueryInv PROVE QueryTabIsTrue
    OBVIOUS
  <2>1. inFlight.confirmed => inFlight.sql = query.confirm
    BY DEF QueryInv, FlightInv, NoFlight
  <2>2. inFlight = NoFlight => ~query.busy
    BY DEF QueryInv, FlightInv
  <2>3. QED
    BY <2>1, <2>2 DEF QueryInv, TextInv, ViewsInv, Coherent, OnPage, QueryTabIsTrue
<1>2. QED
  BY <1>1, QueryInvariance, PTL

-----------------------------------------------------------------------------
(* ChatStream: the chat and its turns.                                      *)

(* The inductive invariant.                                                 *)

Chunk    == {"text", "done", "error"}
Messages == [role : {"user", "assistant"}, turn : Nat, text : Nat]

TurnRecords ==
  [core : {"requested", "preparing", "streaming", "done", "failed"}, wire : Seq(Chunk),
   produced : Nat, heard : BOOLEAN, page : {"reading", "settled", "left"}, text : Nat,
   afterUser : Seq(Messages)]

ChatTypeOK ==
  /\ chatMounted \in BOOLEAN /\ chatBusy \in BOOLEAN
  /\ chatMessages \in Seq(Messages)
  /\ turns \in Seq(TurnRecords)

\* What the page has read and what is on its way make up what the provider
\* produced; the done chunk is the last one, and comes of a stream that ended.
Accounted(turn) ==
  turn.page = "reading" =>
    /\ turn.core \notin {"done", "failed"} =>
         /\ \A i \in 1 .. Len(turn.wire) : turn.wire[i] = "text"
         /\ turn.text + Len(turn.wire) = turn.produced
    /\ turn.core = "done" =>
         /\ \A i \in 1 .. Len(turn.wire) - 1 : turn.wire[i] = "text"
         /\ turn.wire # <<>> => turn.text + Len(turn.wire) - 1 = turn.produced
    /\ turn.core = "failed" => \A i \in 1 .. Len(turn.wire) : turn.wire[i] # "done"

WireInv == \A n \in 1 .. Len(turns) : Accounted(turns[n])

\* The page reads the answer to the last question only, with the composer
\* locked, and the conversation is still the one it was asked in.
ReadingInv ==
  \A n \in 1 .. Len(turns) : turns[n].page = "reading" =>
    /\ n = Len(turns) /\ chatBusy
    /\ turns[n].afterUser = chatMessages
    /\ chatMessages # <<>> /\ chatMessages[Len(chatMessages)] = ChatMessage("user", n, 0)

AskedInv == \A n \in 1 .. Len(turns) : \E i \in 1 .. Len(chatMessages) :
  chatMessages[i] = ChatMessage("user", n, 0)

AnsweredInv ==
  \A i \in 1 .. Len(chatMessages) : chatMessages[i].role = "assistant" =>
    /\ i > 1 /\ chatMessages[i - 1] = ChatMessage("user", chatMessages[i].turn, 0)
    /\ chatMessages[i].turn \in 1 .. Len(turns)
    /\ turns[chatMessages[i].turn].core = "done"
    /\ chatMessages[i].text = turns[chatMessages[i].turn].produced

ChatInv == ChatTypeOK /\ WireInv /\ ReadingInv /\ AskedInv /\ AnsweredInv

LEMMA ChatInvInit == ChatInit => ChatInv
<1> SUFFICES ASSUME ChatInit PROVE ChatInv
  OBVIOUS
<1>1. chatMounted = TRUE /\ chatBusy = FALSE /\ chatMessages = <<>> /\ turns = <<>>
  BY DEF ChatInit
<1>2. ChatTypeOK
  <2>1. chatMounted \in BOOLEAN /\ chatBusy \in BOOLEAN
    BY <1>1, Zenon
  <2>2. chatMessages \in Seq(Messages) /\ turns \in Seq(TurnRecords)
    BY <1>1
  <2>3. QED
    BY <2>1, <2>2 DEF ChatTypeOK
<1>3. 1 .. Len(turns) = {} /\ 1 .. Len(chatMessages) = {}
  BY <1>1
<1>4. QED
  BY <1>2, <1>3 DEF ChatInv, WireInv, ReadingInv, AskedInv, AnsweredInv

-----------------------------------------------------------------------------
(* One turn is replaced.                                                    *)

LEMMA TurnReplaced ==
  ASSUME ChatTypeOK, NEW n \in DOMAIN turns, NEW turn \in TurnRecords,
         turns' = [turns EXCEPT ![n] = turn]
  PROVE  /\ turns' \in Seq(TurnRecords) /\ Len(turns') = Len(turns) /\ Len(turns) \in Nat
         /\ n \in 1 .. Len(turns) /\ turns'[n] = turn
         /\ \A k \in 1 .. Len(turns) : k # n => turns'[k] = turns[k]
<1>1. turns \in Seq(TurnRecords) /\ Len(turns) \in Nat /\ n \in 1 .. Len(turns)
  BY DEF ChatTypeOK
<1>2. turns' \in Seq(TurnRecords) /\ Len(turns') = Len(turns)
  BY <1>1, ExceptSeq
<1>3. QED
  BY <1>1, <1>2

\* What changes of a turn that the page goes on reading, or has gone from.
LEMMA TurnGoesOn ==
  ASSUME ChatInv, NEW n \in DOMAIN turns, NEW turn \in TurnRecords,
         turns' = [turns EXCEPT ![n] = turn],
         UNCHANGED <<chatMounted, chatBusy, chatMessages>>,
         turn.page = turns[n].page, turn.afterUser = turns[n].afterUser,
         turns[n].core = "done" => turn.core = "done" /\ turn.produced = turns[n].produced,
         Accounted(turn)
  PROVE  ChatInv'
<1>1. /\ turns' \in Seq(TurnRecords) /\ Len(turns') = Len(turns) /\ Len(turns) \in Nat
      /\ n \in 1 .. Len(turns) /\ turns'[n] = turn
      /\ \A k \in 1 .. Len(turns) : k # n => turns'[k] = turns[k]
  BY TurnReplaced DEF ChatInv
<1>2. ChatTypeOK'
  BY <1>1 DEF ChatInv, ChatTypeOK
<1>3. WireInv'
  BY <1>1 DEF ChatInv, WireInv, Accounted
<1>4. ReadingInv'
  BY <1>1 DEF ChatInv, ReadingInv, ChatMessage
<1>5. AskedInv'
  BY <1>1 DEF ChatInv, AskedInv, ChatMessage
<1>6. AnsweredInv'
  BY <1>1 DEF ChatInv, AnsweredInv, ChatMessage
<1>7. QED
  BY <1>2, <1>3, <1>4, <1>5, <1>6 DEF ChatInv

\* The turn that is read is over for the page: no other is read.
LEMMA TurnSettles ==
  ASSUME ChatInv, NEW n \in DOMAIN turns, NEW turn \in TurnRecords,
         turns[n].page = "reading",
         SettleTurn(n, turn), UNCHANGED chatMessages,
         turn.core = turns[n].core, turn.produced = turns[n].produced
  PROVE  ChatInv'
<1> DEFINE settled == [turn EXCEPT !.page = "settled"]
<1>1. /\ settled \in TurnRecords /\ settled.page = "settled"
      /\ settled.core = turns[n].core /\ settled.produced = turns[n].produced
  BY DEF TurnRecords
<1>2. /\ turns' = [turns EXCEPT ![n] = settled] /\ chatBusy' = FALSE
      /\ UNCHANGED <<chatMounted, chatMessages>>
  BY DEF SettleTurn
<1> HIDE DEF settled
<1>3. /\ turns' \in Seq(TurnRecords) /\ Len(turns') = Len(turns) /\ Len(turns) \in Nat
      /\ n \in 1 .. Len(turns) /\ turns'[n] = settled
      /\ \A k \in 1 .. Len(turns) : k # n => turns'[k] = turns[k]
  BY <1>1, <1>2, TurnReplaced DEF ChatInv
<1>4. ChatTypeOK'
  BY <1>2, <1>3 DEF ChatInv, ChatTypeOK
<1>5. WireInv'
  <2>1. \A k \in 1 .. Len(turns) : Accounted(turns[k])
    BY <1>3 DEF ChatInv, WireInv
  <2>2. Accounted(settled)
    BY <1>1 DEF Accounted
  <2>3. \A k \in 1 .. Len(turns') : Accounted(turns'[k])
    BY <1>3, <2>1, <2>2
  <2> QED
    BY <1>3, <2>3 DEF WireInv
<1>6. \A k \in 1 .. Len(turns') : turns'[k].page # "reading"
  BY <1>1, <1>3 DEF ChatInv, ReadingInv
<1>7. ReadingInv'
  BY <1>6 DEF ReadingInv
<1>8. AskedInv'
  BY <1>2, <1>3 DEF ChatInv, AskedInv, ChatMessage
<1>9. AnsweredInv'
  BY <1>1, <1>2, <1>3 DEF ChatInv, AnsweredInv, ChatMessage
<1>10. QED
  BY <1>4, <1>5, <1>7, <1>8, <1>9 DEF ChatInv

-----------------------------------------------------------------------------
(* Every action keeps the invariant.                                        *)

LEMMA TurnAt ==
  ASSUME ChatInv, NEW n \in DOMAIN turns
  PROVE  turns[n] \in TurnRecords /\ Accounted(turns[n]) /\ n \in 1 .. Len(turns) /\ Len(turns) \in Nat
<1>1. turns \in Seq(TurnRecords) /\ n \in 1 .. Len(turns) /\ Len(turns) \in Nat
  BY DEF ChatInv, ChatTypeOK
<1>2. QED
  BY <1>1 DEF ChatInv, WireInv

LEMMA SendInv == ASSUME ChatInv, Send PROVE ChatInv'
<1> DEFINE n == Len(turns) + 1
           said == Append(chatMessages, ChatMessage("user", n, 0))
           turn == [core |-> "requested", wire |-> <<>>, produced |-> 0, heard |-> FALSE,
                    page |-> "reading", text |-> 0, afterUser |-> said]
<1>1. /\ ~chatBusy /\ chatMessages' = said /\ chatBusy' = TRUE
      /\ turns' = Append(turns, turn) /\ UNCHANGED chatMounted
  BY DEF Send, Ask
<1>2. /\ chatMessages \in Seq(Messages) /\ turns \in Seq(TurnRecords)
      /\ Len(turns) \in Nat /\ Len(chatMessages) \in Nat
  BY DEF ChatInv, ChatTypeOK
<1>3. /\ ChatMessage("user", n, 0) \in Messages
      /\ ChatMessage("user", n, 0).role = "user"
  BY <1>2 DEF ChatMessage, Messages
<1>4. /\ said \in Seq(Messages) /\ said # <<>> /\ Len(said) = Len(chatMessages) + 1
      /\ \A i \in 1 .. Len(chatMessages) : said[i] = chatMessages[i]
      /\ said[Len(chatMessages) + 1] = ChatMessage("user", n, 0)
  BY <1>2, <1>3, AppendProperties
<1>5. /\ turn \in TurnRecords /\ turn.core = "requested" /\ turn.wire = <<>> /\ turn.produced = 0
      /\ turn.text = 0 /\ turn.afterUser = said /\ turn.page = "reading"
  BY <1>4 DEF TurnRecords
<1> HIDE DEF turn
<1>6. /\ turns' \in Seq(TurnRecords) /\ Len(turns') = n /\ turns'[n] = turn
      /\ \A k \in 1 .. Len(turns) : turns'[k] = turns[k]
  BY <1>1, <1>2, <1>5, AppendProperties
<1> HIDE DEF said
<1>7. ChatTypeOK'
  BY <1>1, <1>4, <1>6 DEF ChatInv, ChatTypeOK
<1>8. Accounted(turn)
  BY <1>5 DEF Accounted
<1>9. WireInv'
  <2>1. ASSUME NEW k \in 1 .. n PROVE Accounted(turns'[k])
    <3>1. k \in 1 .. Len(turns) \/ k = n
      BY <1>2, <2>1
    <3>2. QED
      BY <1>6, <1>8, <3>1 DEF ChatInv, WireInv
  <2>2. QED
    BY <1>6, <2>1 DEF WireInv
<1>10. \A k \in 1 .. Len(turns) : turns[k].page # "reading"
  BY <1>1 DEF ChatInv, ReadingInv
<1>11. ReadingInv'
  BY <1>1, <1>2, <1>4, <1>5, <1>6, <1>10 DEF ReadingInv
<1>12. AskedInv'
  <2>1. \A k \in 1 .. Len(turns) : \E i \in 1 .. Len(chatMessages) :
           chatMessages[i] = ChatMessage("user", k, 0)
    BY DEF ChatInv, AskedInv
  <2>2. \A k \in 1 .. Len(turns) : \E i \in 1 .. Len(said) : said[i] = ChatMessage("user", k, 0)
    BY <1>2, <1>4, <2>1
  <2>3. Len(said) \in 1 .. Len(said) /\ said[Len(said)] = ChatMessage("user", n, 0)
    BY <1>2, <1>4
  <2>4. \A k \in 1 .. n : \E i \in 1 .. Len(said) : said[i] = ChatMessage("user", k, 0)
    <3>1. \A k \in 1 .. n : k \in 1 .. Len(turns) \/ k = n
      BY <1>2
    <3>2. QED
      BY <2>2, <2>3, <3>1
  <2>5. QED
    BY <1>1, <1>6, <2>4 DEF AskedInv, ChatMessage
<1>13. AnsweredInv'
  <2> SUFFICES ASSUME NEW i \in 1 .. Len(said), said[i].role = "assistant"
               PROVE  /\ i > 1 /\ said[i - 1] = ChatMessage("user", said[i].turn, 0)
                      /\ said[i].turn \in 1 .. n
                      /\ turns'[said[i].turn].core = "done"
                      /\ said[i].text = turns'[said[i].turn].produced
    BY <1>1, <1>6 DEF AnsweredInv, ChatMessage
  <2>1. i \in 1 .. Len(chatMessages)
    BY <1>2, <1>3, <1>4
  <2>2. said[i] = chatMessages[i]
    BY <1>4, <2>1
  <2>3. /\ i > 1 /\ chatMessages[i - 1] = ChatMessage("user", said[i].turn, 0)
        /\ said[i].turn \in 1 .. Len(turns)
        /\ turns[said[i].turn].core = "done"
        /\ said[i].text = turns[said[i].turn].produced
    BY <2>1, <2>2 DEF ChatInv, AnsweredInv
  <2>4. i - 1 \in 1 .. Len(chatMessages)
    BY <1>2, <2>1, <2>3
  <2>5. said[i - 1] = chatMessages[i - 1]
    BY <1>4, <2>4
  <2>6. /\ said[i].turn \in 1 .. n
        /\ turns'[said[i].turn] = turns[said[i].turn]
    BY <1>2, <1>6, <2>3
  <2>7. QED
    BY <2>3, <2>5, <2>6
<1>14. QED
  BY <1>7, <1>9, <1>11, <1>12, <1>13 DEF ChatInv

\* A chunk is enqueued: what Core does while the page reads or has gone.
LEMMA Enqueued ==
  ASSUME NEW t \in TurnRecords, Accounted(t), NEW chunk \in Chunk, NEW turn,
         turn \in TurnRecords, turn.wire = Append(t.wire, chunk),
         turn.page = t.page, turn.text = t.text, ~Over(t),
         \/ chunk = "text"  /\ turn.core = t.core     /\ turn.produced = t.produced + 1
         \/ chunk = "done"  /\ turn.core = "done"   /\ turn.produced = t.produced
         \/ chunk = "error" /\ turn.core = "failed" /\ turn.produced = t.produced
  PROVE  Accounted(turn)
<1>1. /\ t.wire \in Seq(Chunk) /\ Len(t.wire) \in Nat /\ t.text \in Nat /\ t.produced \in Nat
  BY DEF TurnRecords
<1>2. /\ Len(turn.wire) = Len(t.wire) + 1
      /\ \A i \in 1 .. Len(t.wire) : turn.wire[i] = t.wire[i]
      /\ turn.wire[Len(t.wire) + 1] = chunk
  BY <1>1, AppendProperties
<1>3. t.page = "reading" => /\ \A i \in 1 .. Len(t.wire) : t.wire[i] = "text"
                            /\ t.text + Len(t.wire) = t.produced
  BY DEF Accounted, Over
<1>4. ~Over(t) => t.core \notin {"done", "failed"}
  BY DEF Over
<1>5. SUFFICES ASSUME turn.page = "reading" PROVE Accounted(turn)
  BY DEF Accounted
<1>6. /\ \A i \in 1 .. Len(t.wire) : turn.wire[i] = "text"
      /\ t.text + Len(t.wire) = t.produced
  BY <1>2, <1>3, <1>5
<1>7. \A i \in 1 .. Len(turn.wire) : i \in 1 .. Len(t.wire) \/ i = Len(t.wire) + 1
  BY <1>1, <1>2
<1>8. CASE chunk = "text" /\ turn.core = t.core /\ turn.produced = t.produced + 1
  <2>1. \A i \in 1 .. Len(turn.wire) : turn.wire[i] = "text"
    BY <1>2, <1>6, <1>7, <1>8
  <2>2. turn.text + Len(turn.wire) = turn.produced
    BY <1>1, <1>2, <1>6, <1>8
  <2>3. QED
    BY <1>4, <1>8, <2>1, <2>2 DEF Accounted
<1>9. CASE chunk = "done" /\ turn.core = "done" /\ turn.produced = t.produced
  <2>1. \A i \in 1 .. Len(turn.wire) - 1 : turn.wire[i] = "text"
    BY <1>1, <1>2, <1>6
  <2>2. turn.text + Len(turn.wire) - 1 = turn.produced
    BY <1>1, <1>2, <1>6, <1>9
  <2>3. QED
    BY <1>9, <2>1, <2>2 DEF Accounted
<1>10. CASE chunk = "error" /\ turn.core = "failed"
  <2>1. \A i \in 1 .. Len(turn.wire) : turn.wire[i] # "done"
    BY <1>2, <1>6, <1>7, <1>10
  <2>2. QED
    BY <1>10, <2>1 DEF Accounted
<1>11. QED
  BY <1>8, <1>9, <1>10

LEMMA CoreAcceptsInv ==
  ASSUME ChatInv, NEW n \in DOMAIN turns, CoreAccepts(n) PROVE ChatInv'
<1> DEFINE t == turns[n]
<1>1. t \in TurnRecords /\ Accounted(t) /\ t.core = "requested"
  BY TurnAt DEF CoreAccepts
<1>2. CASE CoreStep(n, [t EXCEPT !.core = "preparing"])
  <2> DEFINE turn == [t EXCEPT !.core = "preparing"]
  <2>1. turn \in TurnRecords /\ Accounted(turn)
    BY <1>1 DEF TurnRecords, Accounted
  <2>2. turn.page = t.page /\ turn.afterUser = t.afterUser
    BY <1>1 DEF TurnRecords
  <2>3. QED
    BY <1>1, <1>2, <2>1, <2>2, TurnGoesOn DEF CoreStep
<1>3. CASE CoreStep(n, [t EXCEPT !.core = "failed", !.wire = <<"error">>])
  <2> DEFINE turn == [t EXCEPT !.core = "failed", !.wire = <<"error">>]
  <2>1. turn \in TurnRecords
    <3>1. <<"error">> \in Seq(Chunk)
      BY DEF Chunk
    <3>2. QED
      BY <1>1, <3>1 DEF TurnRecords
  <2>2. turn.page = t.page /\ turn.afterUser = t.afterUser /\ turn.core = "failed" /\ turn.wire = <<"error">>
    BY <1>1 DEF TurnRecords
  <2>3. Accounted(turn)
    BY <2>2 DEF Accounted
  <2>4. QED
    BY <1>1, <1>3, <2>1, <2>2, <2>3, TurnGoesOn DEF CoreStep
<1>4. QED
  BY <1>2, <1>3 DEF CoreAccepts

LEMMA PrepareInv ==
  ASSUME ChatInv, NEW n \in DOMAIN turns, Prepare(n) PROVE ChatInv'
<1> DEFINE t == turns[n]
<1>1. t \in TurnRecords /\ Accounted(t) /\ t.core = "preparing"
  BY TurnAt DEF Prepare
<1>2. CASE CoreStep(n, [t EXCEPT !.core = "streaming"])
  <2> DEFINE turn == [t EXCEPT !.core = "streaming"]
  <2>1. turn \in TurnRecords /\ Accounted(turn)
    BY <1>1 DEF TurnRecords, Accounted
  <2>2. turn.page = t.page /\ turn.afterUser = t.afterUser
    BY <1>1 DEF TurnRecords
  <2>3. QED
    BY <1>1, <1>2, <2>1, <2>2, TurnGoesOn DEF CoreStep
<1>3. CASE CoreStep(n, [t EXCEPT !.core = "failed", !.wire = Append(@, "error")])
  <2> DEFINE turn == [t EXCEPT !.core = "failed", !.wire = Append(@, "error")]
  <2>1. Append(t.wire, "error") \in Seq(Chunk)
    BY <1>1, AppendProperties DEF TurnRecords, Chunk
  <2>2. /\ turn \in TurnRecords /\ turn.wire = Append(t.wire, "error") /\ turn.core = "failed"
        /\ turn.page = t.page /\ turn.afterUser = t.afterUser /\ turn.text = t.text
        /\ turn.produced = t.produced
    BY <1>1, <2>1 DEF TurnRecords
  <2>3. Accounted(turn)
    BY <1>1, <2>2, Enqueued DEF Chunk, Over
  <2>4. QED
    BY <1>1, <1>3, <2>2, <2>3, TurnGoesOn DEF CoreStep
<1>4. QED
  BY <1>2, <1>3 DEF Prepare

LEMMA ProviderSendsInv ==
  ASSUME ChatInv, NEW n \in DOMAIN turns, ProviderSends(n) PROVE ChatInv'
<1> DEFINE t == turns[n]
           turn == [t EXCEPT !.produced = @ + 1, !.wire = Append(@, "text")]
<1>1. /\ t \in TurnRecords /\ Accounted(t) /\ t.core = "streaming" /\ CoreStep(n, turn)
  BY TurnAt DEF ProviderSends
<1>2. Append(t.wire, "text") \in Seq(Chunk) /\ t.produced + 1 \in Nat
  BY <1>1, AppendProperties DEF TurnRecords, Chunk
<1>3. /\ turn \in TurnRecords /\ turn.wire = Append(t.wire, "text") /\ turn.core = t.core
      /\ turn.page = t.page /\ turn.afterUser = t.afterUser /\ turn.text = t.text
      /\ turn.produced = t.produced + 1
  BY <1>1, <1>2 DEF TurnRecords
<1>4. Accounted(turn)
  BY <1>1, <1>3, Enqueued DEF Chunk, Over
<1>5. QED
  BY <1>1, <1>3, <1>4, TurnGoesOn DEF CoreStep

LEMMA ProviderEndsInv ==
  ASSUME ChatInv, NEW n \in DOMAIN turns, ProviderEnds(n) PROVE ChatInv'
<1> DEFINE t == turns[n]
           Ended(core, chunk) == [t EXCEPT !.core = core, !.wire = Append(@, chunk)]
<1>1. /\ t \in TurnRecords /\ Accounted(t) /\ t.core = "streaming"
  BY TurnAt DEF ProviderEnds
<1>2. \/ CoreStep(n, Ended("done", "done"))
      \/ CoreStep(n, Ended("failed", "error"))
  BY DEF ProviderEnds
<1>3. ASSUME NEW core \in {"done", "failed"}, NEW chunk \in {"done", "error"},
             core = "done" <=> chunk = "done", CoreStep(n, Ended(core, chunk))
      PROVE  ChatInv'
  <2> DEFINE turn == Ended(core, chunk)
  <2>1. Append(t.wire, chunk) \in Seq(Chunk)
    BY <1>1, <1>3, AppendProperties DEF TurnRecords, Chunk
  <2>2. /\ turn \in TurnRecords /\ turn.wire = Append(t.wire, chunk) /\ turn.core = core
        /\ turn.page = t.page /\ turn.afterUser = t.afterUser /\ turn.text = t.text
        /\ turn.produced = t.produced
    BY <1>1, <1>3, <2>1 DEF TurnRecords
  <2>3. Accounted(turn)
    BY <1>1, <1>3, <2>2, Enqueued DEF Chunk, Over
  <2>4. QED
    BY <1>1, <1>3, <2>2, <2>3, TurnGoesOn DEF CoreStep
<1>4. QED
  BY <1>2, <1>3

LEMMA CoreHearsInv ==
  ASSUME ChatInv, NEW n \in DOMAIN turns, CoreHears(n) PROVE ChatInv'
<1> DEFINE t == turns[n]
           turn == [t EXCEPT !.heard = TRUE, !.core = IF @ = "requested" THEN "failed" ELSE @]
<1>1. /\ t \in TurnRecords /\ t.page # "reading" /\ ~Over(t) /\ CoreStep(n, turn)
  BY TurnAt DEF CoreHears
<1>2. /\ turn \in TurnRecords /\ turn.page = t.page /\ turn.afterUser = t.afterUser
  BY <1>1 DEF TurnRecords
<1>3. Accounted(turn)
  BY <1>1, <1>2 DEF Accounted
<1>4. QED
  BY <1>1, <1>2, <1>3, TurnGoesOn DEF CoreStep, Over

LEMMA CoreStopsInv ==
  ASSUME ChatInv, NEW n \in DOMAIN turns, CoreStops(n) PROVE ChatInv'
<1> DEFINE t == turns[n]
           turn == [t EXCEPT !.core = "failed"]
<1>1. /\ t \in TurnRecords /\ Accounted(t) /\ t.core = "streaming" /\ CoreStep(n, turn)
  BY TurnAt DEF CoreStops
<1>2. /\ turn \in TurnRecords /\ turn.page = t.page /\ turn.afterUser = t.afterUser
      /\ turn.wire = t.wire /\ turn.core = "failed"
  BY <1>1 DEF TurnRecords
<1>3. Accounted(turn)
  BY <1>1, <1>2 DEF Accounted
<1>4. QED
  BY <1>1, <1>2, <1>3, TurnGoesOn DEF CoreStep

LEMMA NoMoreIsOne == ASSUME NEW k \in Nat, k > 0, ~(k > 1) PROVE k = 1
OBVIOUS

\* A chunk read is no longer on its way.
LEMMA ReadOne ==
  ASSUME NEW text \in Nat, NEW onWire \in Nat, NEW produced, text + onWire - 1 = produced
  PROVE  (text + 1) + (onWire - 1) - 1 = produced
OBVIOUS

LEMMA ReadDeltaInv ==
  ASSUME ChatInv, NEW n \in DOMAIN turns, ReadDelta(n) PROVE ChatInv'
<1> DEFINE t == turns[n]
           turn == [t EXCEPT !.text = @ + 1, !.wire = Tail(@)]
<1>1. /\ t \in TurnRecords /\ Accounted(t) /\ t.page = "reading" /\ t.wire # <<>>
      /\ Head(t.wire) = "text" /\ turns' = [turns EXCEPT ![n] = turn]
      /\ UNCHANGED <<chatMounted, chatBusy, chatMessages>>
  BY TurnAt DEF ReadDelta
<1>2. t.wire \in Seq(Chunk) /\ t.text \in Nat /\ t.produced \in Nat
  BY <1>1 DEF TurnRecords
<1>3. /\ Tail(t.wire) \in Seq(Chunk) /\ Len(t.wire) \in Nat /\ Len(t.wire) > 0
      /\ Len(Tail(t.wire)) = Len(t.wire) - 1
      /\ \A i \in 1 .. Len(Tail(t.wire)) : Tail(t.wire)[i] = t.wire[i + 1]
  BY <1>1, <1>2, HeadTailProperties
<1>4. t.wire[1] = "text" /\ t.text + 1 \in Nat
  BY <1>1, <1>2
<1>5. /\ turn \in TurnRecords /\ turn.wire = Tail(t.wire) /\ turn.text = t.text + 1
      /\ turn.page = t.page /\ turn.afterUser = t.afterUser /\ turn.core = t.core
      /\ turn.produced = t.produced
  BY <1>1, <1>3, <1>4 DEF TurnRecords
<1> HIDE DEF turn
<1>6. Accounted(turn)
  <2>1. /\ Len(turn.wire) = Len(t.wire) - 1
        /\ \A i \in 1 .. Len(turn.wire) : i + 1 \in 1 .. Len(t.wire) /\ turn.wire[i] = t.wire[i + 1]
    BY <1>3, <1>5
  <2>2. ASSUME t.core \notin {"done", "failed"}
        PROVE  /\ \A i \in 1 .. Len(turn.wire) : turn.wire[i] = "text"
               /\ turn.text + Len(turn.wire) = turn.produced
    <3>1. /\ \A i \in 1 .. Len(t.wire) : t.wire[i] = "text"
          /\ t.text + Len(t.wire) = t.produced
      BY <1>1, <2>2 DEF Accounted
    <3>2. QED
      BY <1>2, <1>3, <1>5, <2>1, <3>1
  <2>3. ASSUME t.core = "done"
        PROVE  /\ \A i \in 1 .. Len(turn.wire) - 1 : turn.wire[i] = "text"
               /\ turn.text + Len(turn.wire) - 1 = turn.produced
    <3>1. /\ \A i \in 1 .. Len(t.wire) - 1 : t.wire[i] = "text"
          /\ t.text + Len(t.wire) - 1 = t.produced
      BY <1>1, <2>3 DEF Accounted
    <3>2. \A i \in 1 .. Len(turn.wire) - 1 :
             i + 1 \in 1 .. Len(t.wire) - 1 /\ i \in 1 .. Len(turn.wire)
      BY <1>3, <2>1
    <3>3. \A i \in 1 .. Len(turn.wire) - 1 : turn.wire[i] = "text"
      BY <2>1, <3>1, <3>2
    <3>4. turn.text + Len(turn.wire) - 1 = turn.produced
      <4> DEFINE text == t.text
                 onWire == Len(t.wire)
                 produced == t.produced
      <4>1. text \in Nat /\ onWire \in Nat /\ text + onWire - 1 = produced
        BY <1>2, <1>3, <3>1
      <4> HIDE DEF text, onWire, produced
      <4>2. (text + 1) + (onWire - 1) - 1 = produced
        BY <4>1, ReadOne
      <4>3. turn.text = text + 1 /\ Len(turn.wire) = onWire - 1 /\ turn.produced = produced
        BY <1>5, <2>1 DEF text, onWire, produced
      <4>4. QED
        BY <4>2, <4>3, Zenon
    <3>5. QED
      BY <3>3, <3>4
  <2>4. t.core = "failed" => \A i \in 1 .. Len(turn.wire) : turn.wire[i] # "done"
    BY <1>1, <2>1 DEF Accounted
  <2>5. QED
    BY <1>5, <2>2, <2>3, <2>4 DEF Accounted
<1>7. QED
  BY <1>1, <1>5, <1>6, TurnGoesOn

\* The answer is appended: it is the whole of what the provider produced, and
\* goes after its question.
LEMMA ChatAnswerInv ==
  ASSUME ChatInv, NEW n \in DOMAIN turns, turns[n].page = "reading", turns[n].wire # <<>>,
         Head(turns[n].wire) = "done",
         chatMessages' = Append(turns[n].afterUser, ChatMessage("assistant", n, turns[n].text)),
         SettleTurn(n, turns[n])
  PROVE  ChatInv'
<1> DEFINE t == turns[n]
           settled == [t EXCEPT !.page = "settled"]
           answer == ChatMessage("assistant", n, t.text)
<1>1. /\ t \in TurnRecords /\ Accounted(t) /\ n \in 1 .. Len(turns) /\ Len(turns) \in Nat
  BY TurnAt
<1>2. t.core = "done" /\ t.text = t.produced
  <2>1. t.wire \in Seq(Chunk) /\ t.text \in Nat /\ t.produced \in Nat
    BY <1>1 DEF TurnRecords
  <2>2. Len(t.wire) \in Nat /\ Len(t.wire) > 0 /\ t.wire[1] = "done"
    BY <2>1
  <2>3. 1 \in 1 .. Len(t.wire)
    BY <2>2
  <2>4. t.core = "done"
    <3>1. t.core \notin {"done", "failed"} => t.wire[1] = "text"
      BY <1>1, <2>3 DEF Accounted
    <3>2. t.core = "failed" => t.wire[1] # "done"
      BY <1>1, <2>3 DEF Accounted
    <3>3. QED
      BY <2>2, <3>1, <3>2
  <2>5. /\ \A i \in 1 .. Len(t.wire) - 1 : t.wire[i] = "text"
        /\ t.text + Len(t.wire) - 1 = t.produced
    BY <1>1, <2>4 DEF Accounted
  <2>6. Len(t.wire) = 1
    <3>1. Len(t.wire) > 1 => 1 \in 1 .. Len(t.wire) - 1
      BY <2>2
    <3>2. ~(Len(t.wire) > 1)
      BY <2>2, <2>5, <3>1
    <3>3. QED
      BY <2>2, <3>2, NoMoreIsOne
  <2>7. QED
    BY <2>1, <2>4, <2>5, <2>6
<1>3. /\ chatMessages \in Seq(Messages) /\ Len(chatMessages) \in Nat /\ chatMessages # <<>>
      /\ t.afterUser = chatMessages
      /\ chatMessages[Len(chatMessages)] = ChatMessage("user", n, 0)
  BY <1>1 DEF ChatInv, ChatTypeOK, ReadingInv
<1>4. /\ answer \in Messages /\ answer.role = "assistant" /\ answer.turn = n
      /\ answer.text = t.text
  BY <1>1 DEF Messages, TurnRecords, ChatMessage
<1> HIDE DEF answer
<1>5. /\ chatMessages' \in Seq(Messages) /\ Len(chatMessages') = Len(chatMessages) + 1
      /\ \A i \in 1 .. Len(chatMessages) : chatMessages'[i] = chatMessages[i]
      /\ chatMessages'[Len(chatMessages) + 1] = answer
  BY <1>3, <1>4, AppendProperties DEF answer
<1>6. /\ settled \in TurnRecords /\ settled.page = "settled"
      /\ settled.core = t.core /\ settled.produced = t.produced
  BY <1>1 DEF TurnRecords
<1>7. turns' = [turns EXCEPT ![n] = settled] /\ chatBusy' = FALSE /\ UNCHANGED chatMounted
  BY DEF SettleTurn
<1> HIDE DEF settled
<1>8. /\ turns' \in Seq(TurnRecords) /\ Len(turns') = Len(turns) /\ turns'[n] = settled
      /\ \A k \in 1 .. Len(turns) : k # n => turns'[k] = turns[k]
  BY <1>6, <1>7, TurnReplaced DEF ChatInv
<1>9. ChatTypeOK'
  BY <1>5, <1>7, <1>8 DEF ChatInv, ChatTypeOK
<1>10. WireInv'
  BY <1>6, <1>8 DEF ChatInv, WireInv, Accounted
<1>11. \A k \in 1 .. Len(turns') : turns'[k].page # "reading"
  BY <1>1, <1>6, <1>8 DEF ChatInv, ReadingInv
<1>12. ReadingInv'
  BY <1>11 DEF ReadingInv
<1>13. AskedInv'
  <2>1. \A k \in 1 .. Len(turns) : \E i \in 1 .. Len(chatMessages) :
           chatMessages[i] = ChatMessage("user", k, 0)
    BY DEF ChatInv, AskedInv
  <2>2. \A k \in 1 .. Len(turns) : \E i \in 1 .. Len(chatMessages') :
           chatMessages'[i] = ChatMessage("user", k, 0)
    BY <1>3, <1>5, <2>1
  <2>3. QED
    BY <1>8, <2>2 DEF AskedInv, ChatMessage
<1>14. AnsweredInv'
  <2> SUFFICES ASSUME NEW i \in 1 .. Len(chatMessages'), chatMessages'[i].role = "assistant"
               PROVE  /\ i > 1
                      /\ chatMessages'[i - 1] = ChatMessage("user", chatMessages'[i].turn, 0)
                      /\ chatMessages'[i].turn \in 1 .. Len(turns)
                      /\ turns'[chatMessages'[i].turn].core = "done"
                      /\ chatMessages'[i].text = turns'[chatMessages'[i].turn].produced
    BY <1>8 DEF AnsweredInv, ChatMessage
  <2>1. CASE i = Len(chatMessages) + 1
    <3>1. Len(chatMessages) \in 1 .. Len(chatMessages) /\ i - 1 = Len(chatMessages) /\ i > 1
      BY <1>3, <2>1
    <3>2. chatMessages'[i] = answer /\ chatMessages'[i - 1] = ChatMessage("user", n, 0)
      BY <1>3, <1>5, <2>1, <3>1
    <3>3. QED
      BY <1>1, <1>2, <1>4, <1>6, <1>8, <3>1, <3>2, SMTT(30)
  <2>2. CASE i \in 1 .. Len(chatMessages)
    <3>1. chatMessages'[i] = chatMessages[i]
      BY <1>5, <2>2
    <3>2. /\ i > 1 /\ chatMessages[i - 1] = ChatMessage("user", chatMessages[i].turn, 0)
          /\ chatMessages[i].turn \in 1 .. Len(turns)
          /\ turns[chatMessages[i].turn].core = "done"
          /\ chatMessages[i].text = turns[chatMessages[i].turn].produced
      BY <2>2, <3>1 DEF ChatInv, AnsweredInv
    <3>3. chatMessages'[i - 1] = chatMessages[i - 1]
      BY <1>3, <1>5, <2>2, <3>2
    <3>4. /\ turns'[chatMessages[i].turn].core = turns[chatMessages[i].turn].core
          /\ turns'[chatMessages[i].turn].produced = turns[chatMessages[i].turn].produced
      BY <1>6, <1>8, <3>2
    <3>5. QED
      BY <3>1, <3>2, <3>3, <3>4
  <2>3. QED
    BY <1>3, <1>5, <2>1, <2>2
<1>15. QED
  BY <1>9, <1>10, <1>12, <1>13, <1>14 DEF ChatInv

LEMMA ReadDoneInv ==
  ASSUME ChatInv, NEW n \in DOMAIN turns, ReadDone(n) PROVE ChatInv'
<1>1. turns[n] \in TurnRecords
  BY TurnAt
<1>2. CASE UNCHANGED chatMessages
  BY <1>1, <1>2, TurnSettles DEF ReadDone
<1>3. CASE chatMessages' = Append(turns[n].afterUser, ChatMessage("assistant", n, turns[n].text))
  BY <1>3, ChatAnswerInv DEF ReadDone
<1>4. QED
  BY <1>2, <1>3 DEF ReadDone

LEMMA ReadErrorInv ==
  ASSUME ChatInv, NEW n \in DOMAIN turns, ReadError(n) PROVE ChatInv'
<1>1. turns[n] \in TurnRecords
  BY TurnAt
<1>2. QED
  BY <1>1, TurnSettles DEF ReadError

LEMMA StreamBreaksInv ==
  ASSUME ChatInv, NEW n \in DOMAIN turns, StreamBreaks(n) PROVE ChatInv'
<1> DEFINE turn == [turns[n] EXCEPT !.wire = <<>>]
<1>1. turns[n] \in TurnRecords /\ <<>> \in Seq(Chunk)
  BY TurnAt
<1>2. /\ turn \in TurnRecords /\ turn.core = turns[n].core
      /\ turn.produced = turns[n].produced
  BY <1>1 DEF TurnRecords
<1>3. QED
  BY <1>2, TurnSettles DEF StreamBreaks

LEMMA ChatLeaveInv == ASSUME ChatInv, LeaveChat PROVE ChatInv'
<1> DEFINE Left(t) == IF t.page = "reading" THEN [t EXCEPT !.page = "left"] ELSE t
<1>1. /\ chatMounted' = FALSE /\ chatBusy' = FALSE /\ UNCHANGED chatMessages
      /\ turns' = [n \in DOMAIN turns |-> Left(turns[n])]
  BY DEF LeaveChat
<1>2. turns \in Seq(TurnRecords) /\ Len(turns) \in Nat /\ DOMAIN turns = 1 .. Len(turns)
  BY DEF ChatInv, ChatTypeOK
<1>3. \A t \in TurnRecords :
        /\ Left(t) \in TurnRecords /\ Left(t).page # "reading"
        /\ Left(t).core = t.core /\ Left(t).produced = t.produced
  BY DEF TurnRecords
<1>4. \A n \in 1 .. Len(turns) : turns[n] \in TurnRecords
  BY <1>2
<1> HIDE DEF Left
<1>5. \A n \in 1 .. Len(turns) :
        /\ turns'[n] \in TurnRecords /\ turns'[n].page # "reading"
        /\ turns'[n].core = turns[n].core /\ turns'[n].produced = turns[n].produced
  BY <1>1, <1>2, <1>3, <1>4
<1>6. turns' \in Seq(TurnRecords) /\ Len(turns') = Len(turns)
  BY <1>1, <1>2, <1>3, <1>4
<1>7. ChatTypeOK'
  BY <1>1, <1>6 DEF ChatInv, ChatTypeOK
<1>8. WireInv' /\ ReadingInv'
  BY <1>5, <1>6 DEF WireInv, ReadingInv, Accounted
<1>9. AskedInv'
  BY <1>1, <1>6 DEF ChatInv, AskedInv, ChatMessage
<1>10. AnsweredInv'
  <2>1. \A i \in 1 .. Len(chatMessages) : chatMessages[i].role = "assistant" =>
          /\ i > 1 /\ chatMessages[i - 1] = ChatMessage("user", chatMessages[i].turn, 0)
          /\ chatMessages[i].turn \in 1 .. Len(turns)
          /\ turns'[chatMessages[i].turn].core = "done"
          /\ chatMessages[i].text = turns'[chatMessages[i].turn].produced
    BY <1>5 DEF ChatInv, AnsweredInv
  <2>2. QED
    BY <1>1, <1>6, <2>1 DEF AnsweredInv, ChatMessage
<1>11. QED
  BY <1>7, <1>8, <1>9, <1>10 DEF ChatInv

LEMMA ChatReturnInv == ASSUME ChatInv, ReturnToChat PROVE ChatInv'
<1>1. chatMounted' = TRUE /\ UNCHANGED <<chatBusy, chatMessages, turns>>
  BY DEF ReturnToChat
<1>2. ChatTypeOK'
  BY <1>1 DEF ChatInv, ChatTypeOK
<1>3. WireInv' /\ ReadingInv'
  BY <1>1 DEF ChatInv, WireInv, Accounted, ReadingInv, ChatMessage
<1>4. AskedInv' /\ AnsweredInv'
  BY <1>1 DEF ChatInv, AskedInv, AnsweredInv, ChatMessage
<1>5. QED
  BY <1>2, <1>3, <1>4 DEF ChatInv

LEMMA ChatStutterInv == ASSUME ChatInv, UNCHANGED chatVars PROVE ChatInv'
BY DEF chatVars, ChatInv, ChatTypeOK, WireInv, Accounted, ReadingInv, AskedInv, AnsweredInv, ChatMessage

LEMMA ChatInvStep == ChatInv /\ [ChatNext]_chatVars => ChatInv'
<1> SUFFICES ASSUME ChatInv, [ChatNext]_chatVars PROVE ChatInv'
  OBVIOUS
<1>1. CASE Send
  BY <1>1, SendInv
<1>2. CASE LeaveChat
  BY <1>2, ChatLeaveInv
<1>3. CASE ReturnToChat
  BY <1>3, ChatReturnInv
<1>4. ASSUME NEW n \in DOMAIN turns,
             \/ CoreAccepts(n) \/ Prepare(n) \/ ProviderSends(n) \/ ProviderEnds(n)
             \/ CoreHears(n) \/ CoreStops(n)
      PROVE  ChatInv'
  BY <1>4, CoreAcceptsInv, PrepareInv, ProviderSendsInv, ProviderEndsInv, CoreHearsInv, CoreStopsInv
<1>5. ASSUME NEW n \in DOMAIN turns, PageReads(n) \/ StreamBreaks(n)
      PROVE  ChatInv'
  BY <1>5, ReadDeltaInv, ReadDoneInv, ReadErrorInv, StreamBreaksInv DEF PageReads
<1>6. CASE UNCHANGED chatVars
  BY <1>6, ChatStutterInv
<1>7. QED
  BY <1>1, <1>2, <1>3, <1>4, <1>5, <1>6 DEF ChatNext

LEMMA ChatInvariance == ChatSpec => []ChatInv
BY ChatInvInit, ChatInvStep, PTL DEF ChatSpec

-----------------------------------------------------------------------------
(* Theorems.                                                                *)

(* The conversation and the turns keep to their types, however Core and the *)
(* page take their steps.                                                   *)
THEOREM ChatTypeCorrect == ChatSpec => []ChatTypeOK
<1>1. ChatInv => ChatTypeOK
  BY DEF ChatInv
<1>2. QED
  BY <1>1, ChatInvariance, PTL

(* Every answer in the conversation is the whole text its own question got  *)
(* and stands right after it, and no question is lost, whatever is aborted, *)
(* dropped or left.                                                         *)
THEOREM AnswersAreTrue == ChatSpec => []AnswersAreWhole
<1>1. ChatInv => AnswersAreWhole
  <2> SUFFICES ASSUME ChatInv PROVE AnswersAreWhole
    OBVIOUS
  <2>1. DOMAIN turns = 1 .. Len(turns) /\ DOMAIN chatMessages = 1 .. Len(chatMessages)
    BY DEF ChatInv, ChatTypeOK
  <2>2. \A n \in DOMAIN turns : Contains(chatMessages, ChatMessage("user", n, 0))
    BY <2>1 DEF ChatInv, AskedInv, Contains
  <2>3. \A i \in DOMAIN chatMessages : chatMessages[i].role = "assistant" =>
          /\ i > 1 /\ chatMessages[i - 1] = ChatMessage("user", chatMessages[i].turn, 0)
          /\ chatMessages[i].text = turns[chatMessages[i].turn].produced
          /\ turns[chatMessages[i].turn].core = "done"
    BY <2>1 DEF ChatInv, AnsweredInv
  <2>4. QED
    BY <2>2, <2>3 DEF AnswersAreWhole
<1>2. QED
  BY <1>1, ChatInvariance, PTL

-----------------------------------------------------------------------------
(* ChatCharts: a chart in the chat and its sandboxed frame.                 *)

\* What the variables hold.
ChatOutcomes == [kind : OutcomeKinds \cup {"none"}, run : Nat]
Entries  == [busy : BOOLEAN, outcome : ChatOutcomes, row : BOOLEAN]
Docs     == [chart : BOOLEAN, run : Nat]
Signals  == [type : {"ready", "height"}, px : Nat]

\* The types of the variables.
ChartTypeOK ==
    /\ entry \in Entries /\ seen \in Entries /\ replies \in Nat
    /\ cached = [entry |-> seen, doc |-> BuildChartDoc(seen)]
    /\ toGuest \in Seq(Docs) /\ guest \in Docs /\ signals \in Seq(Signals)
    /\ heights \in [pending : Nat, scheduled : BOOLEAN, applied : Nat]

\* The last document on its way, or else the one drawn, is the current one.
DocArrives == IF toGuest = <<>> THEN guest = cached.doc ELSE toGuest[Len(toGuest)] = cached.doc

\* The height the guest reports of a document.
HeightOf(d) == [type |-> "height", px |-> Measure(d)]

\* The last height on its way, pending or applied, is that of the document drawn.
HeightArrives ==
    toGuest # <<>> \/
      IF signals # <<>> THEN signals[Len(signals)] = HeightOf(guest)
      ELSE IF heights.scheduled THEN heights.pending = Measure(guest)
      ELSE heights.applied = Measure(guest)

\* The inductive invariant.
ChartInv == ChartTypeOK /\ (frame = "loaded" /\ host = "alive" => DocArrives /\ HeightArrives)

\* What is built is a document.
LEMMA DocsAreBuilt == ASSUME NEW e \in Entries PROVE BuildChartDoc(e) \in Docs
<1> DEFINE o == e.outcome
<1>1. o \in ChatOutcomes
  BY DEF Entries
<1> DEFINE b == o.kind = "rows"
           k == o.run
<1>2. BuildChartDoc(e) = IF o.kind \in {"rows", "no rows"} THEN [chart |-> b, run |-> k] ELSE NoDoc
  BY DEF BuildChartDoc
<1>3. b \in BOOLEAN
  OBVIOUS
<1>4. k \in Nat
  BY <1>1 DEF ChatOutcomes
<1> HIDE DEF o, b, k
<1>5. [chart |-> b, run |-> k] \in Docs /\ NoDoc \in Docs
  BY <1>3, <1>4 DEF Docs, NoDoc
<1> QED
  BY <1>2, <1>5

\* A document has a height.
LEMMA MeasuresAreNat == ASSUME NEW d \in Docs PROVE Measure(d) \in Nat
BY DEF Docs, Measure

\* Nothing is drawn at first.
LEMMA ChartInvInit == ChartsInit => ChartInv
<1> SUFFICES ASSUME ChartsInit PROVE ChartInv
  OBVIOUS
<1>1. IdleEntry \in Entries
  BY DEF IdleEntry, Entries, ChatOutcomes, NoChatOutcome
<1>2. NoDoc \in Docs /\ BuildChartDoc(IdleEntry) = NoDoc
  BY DEF NoDoc, Docs, BuildChartDoc, IdleEntry, NoChatOutcome
<1>3. toGuest \in Seq(Docs) /\ signals \in Seq(Signals)
  BY EmptySeq DEF ChartsInit
<1> QED
  BY <1>1, <1>2, <1>3 DEF ChartsInit, ChartInv, ChartTypeOK

\* A run changes what is known, not what is drawn.
LEMMA EntryStep ==
    ASSUME ChartInv, UNCHANGED <<drawnVars, frameVars>>, entry' \in Entries, replies' \in Nat
    PROVE  ChartInv'
<1>1. ChartTypeOK'
  BY DEF ChartInv, ChartTypeOK, drawnVars, frameVars
<1>2. UNCHANGED <<frame, host, toGuest, guest, signals, heights, cached>>
  BY DEF drawnVars, frameVars
<1>3. DocArrives' = DocArrives /\ HeightArrives' = HeightArrives
  BY <1>2 DEF DocArrives, HeightArrives
<1> QED
  BY <1>1, <1>2, <1>3 DEF ChartInv

\* The steps of a run.
LEMMA RunSteps ==
    ASSUME ChartInv,
           \/ RunQuery \/ ConfirmQuery \/ CancelQuery \/ SelectResultRow
           \/ \E kind \in OutcomeKinds : QueryReplies(kind)
    PROVE  ChartInv'
<1> USE DEF ChartInv, ChartTypeOK
<1>1. CASE RunQuery \/ ConfirmQuery
  <2>1. entry' \in Entries
    BY <1>1 DEF RunQuery, ConfirmQuery, Entries
  <2> QED
    BY <1>1, <2>1, EntryStep DEF RunQuery, ConfirmQuery
<1>2. CASE CancelQuery
  <2>1. NoChatOutcome \in ChatOutcomes
    BY DEF NoChatOutcome, ChatOutcomes
  <2>2. entry' \in Entries
    BY <1>2, <2>1 DEF CancelQuery, Entries
  <2> QED
    BY <1>2, <2>2, EntryStep DEF CancelQuery
<1>3. CASE SelectResultRow
  <2>1. entry' \in Entries
    BY <1>3 DEF SelectResultRow, Entries
  <2> QED
    BY <1>3, <2>1, EntryStep DEF SelectResultRow
<1>4. ASSUME NEW kind \in OutcomeKinds, QueryReplies(kind) PROVE ChartInv'
  <2>1. [kind |-> kind, run |-> replies + 1] \in ChatOutcomes
    BY DEF ChatOutcomes
  <2>2. entry' \in Entries
    BY <1>4, <2>1 DEF QueryReplies, Entries
  <2> QED
    BY <1>4, <2>2, EntryStep DEF QueryReplies
<1> QED
  BY <1>1, <1>2, <1>3, <1>4

\* The answer is rendered: the frame is sent the document if it changed.
LEMMA RenderStep == ASSUME ChartInv, RenderAnswer PROVE ChartInv'
<1> DEFINE d == BuildChartDoc(entry)
<1>1. d \in Docs
  BY DocsAreBuilt DEF ChartInv, ChartTypeOK
<1>2. cached' = [entry |-> entry, doc |-> d] /\ seen' = entry
  BY DEF RenderAnswer, ReconcileChartDocs, ChartInv, ChartTypeOK
<1>3. cached.doc \in Docs
  BY DocsAreBuilt DEF ChartInv, ChartTypeOK
<1> HIDE DEF d
<1>4. ASSUME toGuest' \in Seq(Docs), guest' \in Docs, signals' \in Seq(Signals),
             heights' \in [pending : Nat, scheduled : BOOLEAN, applied : Nat]
      PROVE  ChartTypeOK'
  BY <1>2, <1>4 DEF ChartInv, ChartTypeOK, RenderAnswer, runVars, d
<1>5. CASE d = NoDoc
  <2>1. /\ frame' = "none" /\ toGuest' = <<>> /\ guest' = NoDoc /\ signals' = <<>>
        /\ heights' = [pending |-> 0, scheduled |-> FALSE, applied |-> 0]
    BY <1>2, <1>5 DEF RenderAnswer
  <2>2. ChartTypeOK'
    BY <1>1, <1>4, <1>5, <2>1, EmptySeq
  <2> QED
    BY <2>1, <2>2 DEF ChartInv
<1>6. CASE d # NoDoc /\ frame = "none"
  <2>1. frame' = "initial" /\ UNCHANGED <<toGuest, guest, signals, heights>>
    BY <1>2, <1>6 DEF RenderAnswer
  <2>2. ChartTypeOK'
    BY <1>4, <2>1 DEF ChartInv, ChartTypeOK
  <2> QED
    BY <2>1, <2>2 DEF ChartInv
<1>7. CASE d # NoDoc /\ frame # "none"
  <2>1. /\ UNCHANGED <<frame, host, guest, signals, heights>>
        /\ IF d # cached.doc THEN PushRenderDoc(d) ELSE UNCHANGED toGuest
    BY <1>2, <1>7 DEF RenderAnswer
  <2>2. toGuest' = toGuest \/ toGuest' = Append(toGuest, d)
    BY <2>1 DEF PushRenderDoc
  <2>3. toGuest' \in Seq(Docs)
    BY <1>1, <2>2, AppendProperties DEF ChartInv, ChartTypeOK
  <2>4. ChartTypeOK'
    BY <1>4, <2>1, <2>3 DEF ChartInv, ChartTypeOK
  <2>5. ASSUME frame = "loaded", host = "alive" PROVE DocArrives' /\ HeightArrives'
    <3>1. CASE d = cached.doc
      BY <1>2, <2>1, <2>5, <3>1 DEF ChartInv, DocArrives, HeightArrives
    <3>2. CASE d # cached.doc
      <4>1. toGuest' = Append(toGuest, d)
        BY <2>1, <2>5, <3>2 DEF PushRenderDoc
      <4>2. toGuest' # <<>> /\ toGuest'[Len(toGuest')] = d
        BY <1>1, <4>1, AppendProperties DEF ChartInv, ChartTypeOK
      <4> QED
        BY <1>2, <4>2 DEF DocArrives, HeightArrives
    <3> QED
      BY <3>1, <3>2
  <2> QED
    BY <2>1, <2>4, <2>5 DEF ChartInv
<1> QED
  BY <1>5, <1>6, <1>7

\* The frame is bound anew, loaded or started.
LEMMA FrameSteps ==
    ASSUME ChartInv, Rebind \/ RebindLater \/ FrameLoaded \/ GuestStarts \/ GuestReloads
    PROVE  ChartInv'
<1> USE DEF runVars, drawnVars
<1>0. cached.doc \in Docs
  BY DocsAreBuilt DEF ChartInv, ChartTypeOK
<1>1. CASE Rebind
  <2> DEFINE d == cached.doc
  <2>1. toGuest' = Append(toGuest, d) /\ d \in Docs /\ toGuest \in Seq(Docs) /\ cached'.doc = d
    BY <1>0, <1>1 DEF Rebind, ChartInv, ChartTypeOK
  <2> HIDE DEF d
  <2>2. toGuest' \in Seq(Docs) /\ toGuest' # <<>> /\ toGuest'[Len(toGuest')] = d
    BY <2>1, AppendProperties
  <2>3. ChartTypeOK'
    BY <1>1, <2>2 DEF Rebind, ChartInv, ChartTypeOK
  <2> QED
    BY <2>1, <2>2, <2>3 DEF ChartInv, DocArrives, HeightArrives
<1>2. CASE RebindLater
  <2>1. ChartTypeOK' /\ host' # "alive"
    BY <1>2 DEF RebindLater, ChartInv, ChartTypeOK
  <2> QED
    BY <2>1 DEF ChartInv
<1>3. CASE FrameLoaded
  <2>1. ChartTypeOK' /\ host' # "alive"
    BY <1>3 DEF FrameLoaded, ChartInv, ChartTypeOK
  <2> QED
    BY <2>1 DEF ChartInv
<1>4. CASE GuestStarts \/ GuestReloads
  <2>1. NoDoc \in Docs /\ <<>> \in Seq(Docs)
    BY EmptySeq DEF NoDoc, Docs
  <2>2. ChartTypeOK' /\ frame' # "loaded"
    BY <1>4, <2>1 DEF GuestStarts, GuestReloads, ChartInv, ChartTypeOK
  <2> QED
    BY <2>2 DEF ChartInv
<1> QED
  BY <1>1, <1>2, <1>3, <1>4

\* The guest draws and reports a height.
LEMMA DrawStep == ASSUME ChartInv, GuestDraws PROVE ChartInv'
<1> USE DEF runVars, drawnVars
<1> DEFINE d == Head(toGuest)
           n == Len(toGuest)
           r == [type |-> "ready", px |-> 0]
           h == HeightOf(d)
           more == <<r, h>>
<1>1. /\ toGuest \in Seq(Docs) /\ toGuest # <<>> /\ signals \in Seq(Signals)
      /\ guest' = d /\ toGuest' = Tail(toGuest) /\ signals' = signals \o more
  BY DEF GuestDraws, ChartInv, ChartTypeOK, HeightOf
<1>2. d \in Docs /\ Tail(toGuest) \in Seq(Docs) /\ Len(Tail(toGuest)) = n - 1 /\ n \in Nat /\ n # 0
      /\ (\A i \in 1 .. n - 1 : Tail(toGuest)[i] = toGuest[i + 1]) /\ d = toGuest[1]
  BY <1>1, HeadTailProperties, EmptySeq, LenProperties
<1>3. r \in Signals /\ h \in Signals
  BY <1>2, MeasuresAreNat DEF Signals, HeightOf
<1> HIDE DEF d, r, h
<1>4. more \in Seq(Signals) /\ Len(more) = 2 /\ more[2] = h
  BY <1>3
<1> HIDE DEF more
<1> DEFINE k == Len(signals)
<1>5. signals' \in Seq(Signals) /\ Len(signals') = k + 2 /\ signals'[k + 2] = h /\ k \in Nat
  <2>1. k \in Nat
    BY <1>1, LenProperties
  <2>2. signals' \in Seq(Signals) /\ Len(signals') = k + 2
        /\ \A i \in 1 .. k + 2 : signals'[i] = IF i <= k THEN signals[i] ELSE more[i - k]
    <3>1. (signals \o more) \in Seq(Signals) /\ Len(signals \o more) = k + Len(more)
      BY <1>1, <1>4, ConcatProperties
    <3>2. \A i \in 1 .. k + Len(more) : (signals \o more)[i] = IF i <= k THEN signals[i] ELSE more[i - k]
      BY <1>1, <1>4, ConcatProperties
    <3> QED
      BY <1>1, <1>4, <3>1, <3>2
  <2>3. k + 2 \in 1 .. k + 2 /\ ~(k + 2 <= k) /\ (k + 2) - k = 2
    BY <2>1
  <2>4. signals'[k + 2] = more[(k + 2) - k]
    BY <2>2, <2>3
  <2> QED
    BY <1>4, <2>1, <2>2, <2>3, <2>4
<1> HIDE DEF k
<1>6. signals' # <<>> /\ signals'[Len(signals')] = h
  BY <1>5, EmptySeq DEF k
<1>7. ChartTypeOK'
  BY <1>1, <1>2, <1>5 DEF GuestDraws, ChartInv, ChartTypeOK
<1>8. HeightArrives'
  BY <1>1, <1>6 DEF HeightArrives, HeightOf, h, Measure
<1>9. ASSUME DocArrives PROVE DocArrives'
  <2>1. toGuest[n] = cached.doc /\ cached' = cached
    BY <1>1, <1>9 DEF DocArrives, GuestDraws
  <2>2. CASE n = 1
    <3>1. toGuest' = <<>>
      BY <1>1, <1>2, <2>2, EmptySeq
    <3> QED
      BY <1>1, <1>2, <2>1, <2>2, <3>1 DEF DocArrives
  <2>3. CASE n # 1
    <3>1. n - 1 \in 1 .. n - 1 /\ (n - 1) + 1 = n
      BY <1>2, <2>3
    <3>2. toGuest'[n - 1] = toGuest[n] /\ Len(toGuest') = n - 1 /\ n - 1 # 0
      BY <1>1, <1>2, <3>1
    <3>3. toGuest' # <<>>
      BY <1>1, <3>2, EmptySeq
    <3> QED
      BY <2>1, <3>2, <3>3 DEF DocArrives
  <2> QED
    BY <2>2, <2>3
<1> QED
  BY <1>7, <1>8, <1>9 DEF GuestDraws, ChartInv

\* The host hears of it.
LEMMA HearStep == ASSUME ChartInv, HostHears PROVE ChartInv'
<1> USE DEF runVars, drawnVars
<1> DEFINE s == Head(signals)
           n == Len(signals)
<1>1. /\ signals \in Seq(Signals) /\ signals # <<>> /\ signals' = Tail(signals)
      /\ heights \in [pending : Nat, scheduled : BOOLEAN, applied : Nat]
      /\ heights' = IF host = "alive" /\ s.type = "height"
                    THEN [heights EXCEPT !.pending = s.px, !.scheduled = TRUE] ELSE heights
      /\ UNCHANGED <<frame, host, toGuest, guest, cached>>
  BY DEF HostHears, ChartInv, ChartTypeOK
<1>2. s \in Signals /\ signals' \in Seq(Signals) /\ Len(signals') = n - 1 /\ n \in Nat /\ n # 0
      /\ (\A i \in 1 .. n - 1 : signals'[i] = signals[i + 1]) /\ s = signals[1]
  BY <1>1, HeadTailProperties, EmptySeq, LenProperties
<1> HIDE DEF s
<1>3. heights' \in [pending : Nat, scheduled : BOOLEAN, applied : Nat]
  BY <1>1, <1>2 DEF Signals
<1>4. ChartTypeOK'
  BY <1>2, <1>3 DEF HostHears, ChartInv, ChartTypeOK
<1>5. DocArrives' = DocArrives
  BY <1>1 DEF DocArrives
<1>6. ASSUME host = "alive", toGuest = <<>>, signals[n] = HeightOf(guest) PROVE HeightArrives'
  <2>1. CASE n = 1
    <3>1. s.type = "height" /\ s.px = Measure(guest)
      BY <1>2, <1>6, <2>1 DEF HeightOf
    <3>2. heights'.scheduled /\ heights'.pending = Measure(guest)
      BY <1>1, <1>6, <3>1
    <3>3. signals' = <<>>
      BY <1>2, <2>1, EmptySeq
    <3> QED
      BY <1>1, <3>2, <3>3 DEF HeightArrives
  <2>2. CASE n # 1
    <3>1. n - 1 \in 1 .. n - 1 /\ (n - 1) + 1 = n
      BY <1>2, <2>2
    <3>2. signals'[n - 1] = signals[n] /\ Len(signals') = n - 1 /\ n - 1 # 0
      BY <1>2, <3>1
    <3>3. signals' # <<>>
      BY <3>2, EmptySeq
    <3> QED
      BY <1>1, <1>6, <3>2, <3>3 DEF HeightArrives, HeightOf
  <2> QED
    BY <2>1, <2>2
<1>7. ASSUME host = "alive", HeightArrives PROVE HeightArrives'
  <2>1. CASE toGuest # <<>>
    BY <1>1, <2>1 DEF HeightArrives
  <2>2. CASE toGuest = <<>>
    BY <1>1, <1>6, <1>7, <2>2 DEF HeightArrives
  <2> QED
    BY <2>1, <2>2
<1> QED
  BY <1>1, <1>4, <1>5, <1>7 DEF ChartInv

\* The host applies the last height.
LEMMA ApplyStep == ASSUME ChartInv, ApplyHeight PROVE ChartInv'
<1> USE DEF runVars, drawnVars
<1>1. heights \in [pending : Nat, scheduled : BOOLEAN, applied : Nat] /\ heights.scheduled
  BY DEF ApplyHeight, ChartInv, ChartTypeOK
<1>2. /\ heights' \in [pending : Nat, scheduled : BOOLEAN, applied : Nat]
      /\ ~heights'.scheduled /\ heights'.applied = heights.pending
  BY <1>1 DEF ApplyHeight
<1>3. ChartTypeOK'
  BY <1>2 DEF ApplyHeight, ChartInv, ChartTypeOK
<1>4. UNCHANGED <<frame, host, toGuest, guest, cached, signals>>
  BY DEF ApplyHeight
<1>5. DocArrives' = DocArrives /\ (HeightArrives => HeightArrives')
  BY <1>1, <1>2, <1>4 DEF DocArrives, HeightArrives, HeightOf
<1> QED
  BY <1>3, <1>4, <1>5 DEF ChartInv

\* Every step keeps the invariant.
LEMMA ChartStep == ChartInv /\ [ChartsNext]_chartVars => ChartInv'
<1> SUFFICES ASSUME ChartInv, [ChartsNext]_chartVars PROVE ChartInv'
  OBVIOUS
<1>1. CASE UNCHANGED chartVars
  BY <1>1, EntryStep DEF chartVars, drawnVars, frameVars, ChartInv, ChartTypeOK
<1> QED
  BY <1>1, RunSteps, RenderStep, FrameSteps, DrawStep, HearStep, ApplyStep DEF ChartsNext

\* With nothing on its way the frame shows the chart of the outcome shown, at
\* its height, whatever is run, confirmed, bound anew or reloaded.
THEOREM ChartHolds == ChartsSpec => []ChartIsCurrent
<1>1. ChartInv => ChartIsCurrent
  BY DEF ChartInv, ChartTypeOK, ChartIsCurrent, DocArrives, HeightArrives
<1> QED
  BY <1>1, ChartInvInit, ChartStep, PTL DEF ChartsSpec

-----------------------------------------------------------------------------
(* ProviderKeys: the provider keys, the panel and the chat's pick.          *)

(* The inductive invariant.                                                 *)

KeyLists == [Providers -> Nat]
OrNoOne  == Providers \cup {NoOne}

Calls ==
  [view : Nat, what : {"list", "set", "remove"}, provider : OrNoOne, key : Nat, done : BOOLEAN,
   reply : [ok : BOOLEAN, list : KeyLists]]

CoreTypeOK ==
  /\ storedKeys \in KeyLists /\ views \in Nat /\ shownView \in {"settings", "chat", "none"}
  /\ \A c \in keyCalls : c \in Calls /\ (c.what # "list" => c.provider \in Providers)

PanelTypeOK ==
  /\ panelKeys \in [list : KeyLists, loading : BOOLEAN, listLoaded : BOOLEAN, busy : BOOLEAN]
  /\ keyDrafts \in KeyLists /\ keysTyped \in Nat /\ lostCalls \in Nat /\ outlived \in BOOLEAN

PickTypeOK ==
  /\ chatPick \in [configured : SUBSET Providers, ready : BOOLEAN, provider : OrNoOne]
  /\ lastPicked \in OrNoOne /\ userPick \in OrNoOne

KeysTypeOK == CoreTypeOK /\ PanelTypeOK /\ PickTypeOK

\* No call is of a view still to be opened.
ViewInv == \A c \in keyCalls : c.view <= views

Changes == {c \in keyCalls : c.what # "list"}
\* The request for the list of the view that is shown.
OwnLists == {c \in keyCalls : c.what = "list" /\ c.view = views}
Made(c) == c.done /\ c.reply.ok

\* A panel at which no change outlived another, or got lost, sends one at a time,
\* and none before it has its list, which is then all it asked for.
OneChange ==
  /\ \A c \in Changes : c.view = views /\ panelKeys.listLoaded /\ panelKeys.busy
  /\ \A c, d \in Changes : c = d
  /\ panelKeys.listLoaded => OwnLists = {}

\* Its list, with a change that was made and not yet heard of, is the Core's.
ListedInv ==
  /\ \A c \in OwnLists : Made(c) => c.reply.list = storedKeys
  /\ panelKeys.listLoaded =>
       /\ (\A c \in Changes : ~Made(c)) => panelKeys.list = storedKeys
       /\ \A c \in Changes : Made(c) => storedKeys = [panelKeys.list EXCEPT ![c.provider] = c.key]

PanelInv == shownView = "settings" /\ ~outlived => OneChange /\ ListedInv

OneList == \A c, d \in OwnLists : c = d

PickInv ==
  /\ chatPick.configured # {} => chatPick.provider # NoOne
  /\ userPick # NoOne => chatPick.provider = userPick

KeysInv == KeysTypeOK /\ ViewInv /\ OneList /\ PanelInv /\ PickInv

LEMMA NoKeysIsList == NoKeys \in KeyLists /\ Unanswered \in [ok : BOOLEAN, list : KeyLists]
BY DEF NoKeys, NoKey, KeyLists, Unanswered

LEMMA KeysInvInit == KeysInit => KeysInv
<1> SUFFICES ASSUME KeysInit PROVE KeysInv
  OBVIOUS
<1>1. CoreTypeOK
  BY NoKeysIsList DEF KeysInit, CoreTypeOK
<1>2. PanelTypeOK
  BY NoKeysIsList DEF KeysInit, PanelTypeOK, EmptyPanel
<1>3. PickTypeOK
  BY DEF KeysInit, PickTypeOK, OrNoOne, NoOne
<1>4. ViewInv /\ OneList /\ PanelInv
  BY DEF KeysInit, ViewInv, OneList, OwnLists, PanelInv
<1>5. PickInv
  BY DEF KeysInit, PickInv
<1>6. QED
  BY <1>1, <1>2, <1>3, <1>4, <1>5 DEF KeysInv, KeysTypeOK

-----------------------------------------------------------------------------
(* The default provider.                                                    *)

LEMMA HasLeast == ASSUME NEW S, S \subseteq Nat, S # {} PROVE \E i \in S : \A j \in S : i <= j
<1> DEFINE Less == OpToRel(<, Nat)
<1>1. IsWellFoundedOn(Less, Nat)
  BY NatLessThanWellFounded, Zenon
<1>2. \A i, j \in Nat : j < i => <<j, i>> \in Less
  BY DEF OpToRel
<1> HIDE DEF Less
<1>3. PICK i \in S : \A j \in S : ~ (<<j, i>> \in Less)
  BY <1>1, WFMin
<1>4. ASSUME NEW j \in S PROVE i <= j
  <2>1. i \in Nat /\ j \in Nat
    OBVIOUS
  <2>2. ~(j < i)
    BY <1>2, <1>3, <2>1
  <2>3. QED
    BY <2>1, <2>2
<1>5. QED
  BY <1>4

\* Where a provider has a key, one that has is the default.
LEMMA DefaultIsConfigured ==
  ASSUME NEW configured \in SUBSET Providers, configured # {}
  PROVE  ResolveDefaultProvider(configured) \in configured
<1>1. CASE lastPicked \in configured
  BY <1>1 DEF ResolveDefaultProvider
<1>2. CASE lastPicked \notin configured
  <2> DEFINE Places == {i \in DOMAIN ProviderKinds : ProviderKinds[i] \in configured}
             IsFirst(i) == /\ ProviderKinds[i] \in configured
                           /\ \A j \in 1 .. i - 1 : ProviderKinds[j] \notin configured
  <2>1. DOMAIN ProviderKinds = 1 .. Len(ProviderKinds) /\ Len(ProviderKinds) \in Nat
    BY KeysAssumption
  <2>2. Places \subseteq Nat /\ Places # {}
    BY <2>1 DEF Providers
  <2> HIDE DEF Places
  <2>3. PICK i \in Places : \A j \in Places : i <= j
    BY <2>2, HasLeast
  <2>4. i \in DOMAIN ProviderKinds /\ ProviderKinds[i] \in configured /\ i \in Nat
    BY <2>2, <2>3 DEF Places
  <2>5. ASSUME NEW j \in 1 .. i - 1 PROVE ProviderKinds[j] \notin configured
    <3>1. j \in 1 .. Len(ProviderKinds) /\ ~(i <= j)
      BY <2>1, <2>4
    <3>2. j \notin Places
      BY <2>3, <3>1
    <3>3. QED
      BY <2>1, <3>1, <3>2 DEF Places
  <2>6. \E k \in DOMAIN ProviderKinds : IsFirst(k)
    BY <2>4, <2>5
  <2>7. IsFirst(CHOOSE k \in DOMAIN ProviderKinds : IsFirst(k))
    BY <2>6
  <2>8. QED
    BY <1>2, <2>7 DEF ResolveDefaultProvider
<1>3. QED
  BY <1>1, <1>2

-----------------------------------------------------------------------------
(* Every action keeps the types.                                            *)

LEMMA CallTypes ==
  ASSUME KeysInv, NEW c \in keyCalls
  PROVE  /\ c \in Calls /\ c.view \in Nat /\ c.view <= views /\ views \in Nat
         /\ c.what \in {"list", "set", "remove"} /\ c.done \in BOOLEAN /\ c.key \in Nat
         /\ c.reply.ok \in BOOLEAN /\ c.reply.list \in KeyLists
         /\ c.what # "list" => c.provider \in Providers
BY DEF KeysInv, KeysTypeOK, CoreTypeOK, ViewInv, Calls

\* A call that is made, and where it stands.
LEMMA ListAsked ==
  ASSUME KeysInv, NEW view \in Nat
  PROVE  LET c == [CallOf("list", NoOne, NoKey) EXCEPT !.view = view]
         IN  c \in Calls /\ c.view = view /\ c.what = "list" /\ ~c.done
<1> DEFINE c == CallOf("list", NoOne, NoKey)
<1>1. /\ Unanswered \in [ok : BOOLEAN, list : KeyLists] /\ NoOne \in OrNoOne /\ NoKey \in Nat
      /\ views \in Nat
  BY NoKeysIsList DEF OrNoOne, NoKey, KeysInv, KeysTypeOK, CoreTypeOK
<1>2. c \in Calls /\ c.what = "list" /\ c.done = FALSE
  BY <1>1 DEF CallOf, Calls
<1> HIDE DEF c
<1>3. LET d == [c EXCEPT !.view = view]
      IN  d \in Calls /\ d.view = view /\ d.what = "list" /\ ~d.done
  BY <1>2 DEF Calls
<1>4. QED
  BY <1>3 DEF c

LEMMA ChangeMade ==
  ASSUME KeysInv, NEW what \in {"set", "remove"}, NEW p \in Providers, NEW key \in Nat
  PROVE  /\ CallOf(what, p, key) \in Calls /\ CallOf(what, p, key).view = views
         /\ CallOf(what, p, key).what = what /\ CallOf(what, p, key).provider = p
         /\ ~CallOf(what, p, key).done
<1>1. CallOf(what, p, key) = [view |-> views, what |-> what, provider |-> p, key |-> key,
                              done |-> FALSE, reply |-> Unanswered]
  BY DEF CallOf
<1>2. Unanswered \in [ok : BOOLEAN, list : KeyLists] /\ views \in Nat /\ p \in OrNoOne
  BY NoKeysIsList DEF KeysInv, KeysTypeOK, CoreTypeOK, OrNoOne
<1>3. QED
  BY <1>1, <1>2 DEF Calls

\* A call that is answered, or lost.
LEMMA CallAnswered ==
  ASSUME NEW c \in Calls, NEW reply \in [ok : BOOLEAN, list : KeyLists]
  PROVE  LET d == [c EXCEPT !.done = TRUE, !.reply = reply]
         IN  /\ d \in Calls /\ d.view = c.view /\ d.what = c.what /\ d.provider = c.provider
             /\ d.key = c.key /\ d.done /\ d.reply = reply
BY DEF Calls

-----------------------------------------------------------------------------
(* Every action keeps the invariant.                                        *)

\* Steps of the user that send nothing.
LEMMA NothingSent ==
  ASSUME KeysInv, UNCHANGED <<storedKeys, views, panelKeys, keyCalls, outlived>>,
         shownView' \in {shownView, "none"},
         KeysTypeOK', PickInv'
  PROVE  KeysInv'
<1>1. ViewInv'
  BY DEF KeysInv, ViewInv
<1>2. OneList'
  BY DEF KeysInv, OneList, OwnLists
<1>3. PanelInv'
  BY DEF KeysInv, PanelInv, OneChange, ListedInv, Changes, OwnLists, Made
<1>4. QED
  BY <1>1, <1>2, <1>3 DEF KeysInv

LEMMA KeysLeaveInv == ASSUME KeysInv, LeaveView PROVE KeysInv'
<1>1. KeysTypeOK' /\ PickInv'
  BY DEF KeysInv, LeaveView, KeysTypeOK, CoreTypeOK, PanelTypeOK, PickTypeOK, PickInv, panelVars, pickVars
<1>2. QED
  BY <1>1, NothingSent DEF LeaveView, panelVars

LEMMA TypeInv == ASSUME KeysInv, NEW p \in Providers, TypeKey(p) PROVE KeysInv'
<1>1. keyDrafts' \in KeyLists /\ keysTyped' \in Nat
  BY DEF KeysInv, KeysTypeOK, PanelTypeOK, TypeKey, KeyLists
<1>2. KeysTypeOK' /\ PickInv'
  BY <1>1 DEF KeysInv, TypeKey, KeysTypeOK, CoreTypeOK, PanelTypeOK, PickTypeOK, PickInv, pickVars
<1>3. QED
  BY <1>2, NothingSent DEF TypeKey

LEMMA PickInvStep == ASSUME KeysInv, NEW p \in Providers, PickChatProvider(p) PROVE KeysInv'
<1>1. /\ chatPick' = [chatPick EXCEPT !.provider = p] /\ lastPicked' = p /\ userPick' = p
      /\ p \in OrNoOne /\ p # NoOne
  BY ProvidersAssumption DEF PickChatProvider, OrNoOne
<1>2. PickTypeOK' /\ PickInv'
  BY <1>1 DEF KeysInv, KeysTypeOK, PickTypeOK, PickInv
<1>3. KeysTypeOK'
  BY <1>2 DEF KeysInv, PickChatProvider, KeysTypeOK, CoreTypeOK, PanelTypeOK, panelVars
<1>4. QED
  BY <1>2, <1>3, NothingSent DEF PickChatProvider, panelVars

LEMMA OpenInv ==
  ASSUME KeysInv, OpenSettings \/ OpenChatPicker PROVE KeysInv'
<1> DEFINE c == [CallOf("list", NoOne, NoKey) EXCEPT !.view = views + 1]
<1>1. /\ views' = views + 1 /\ views \in Nat /\ keyCalls' = keyCalls \cup {c}
      /\ UNCHANGED storedKeys /\ shownView' \in {"settings", "chat"}
  BY DEF OpenSettings, OpenChatPicker, KeysInv, KeysTypeOK, CoreTypeOK
<1>2. c \in Calls /\ c.view = views + 1 /\ c.what = "list" /\ ~c.done
  BY <1>1, ListAsked
<1> HIDE DEF c
<1>3. CoreTypeOK'
  BY <1>1, <1>2 DEF KeysInv, KeysTypeOK, CoreTypeOK
<1>4. ViewInv'
  <2>1. \A d \in keyCalls : d.view <= views + 1
    BY <1>1, CallTypes
  <2>2. QED
    BY <1>1, <1>2, <2>1 DEF ViewInv
<1>5. OwnLists' = {c}
  <2>1. \A d \in keyCalls : d.view # views + 1
    BY <1>1, CallTypes
  <2>2. QED
    BY <1>1, <1>2, <2>1 DEF OwnLists
<1>6. OneList'
  BY <1>5 DEF OneList
<1>7. Changes' = Changes
  BY <1>1, <1>2 DEF Changes
<1>8. CASE OpenSettings
  <2>1. /\ panelKeys' = EmptyPanel /\ keyDrafts' = NoKeys
        /\ outlived' = (\E d \in keyCalls : d.what # "list")
        /\ UNCHANGED <<keysTyped, lostCalls, chatPick, lastPicked, userPick>>
    BY <1>8 DEF OpenSettings, pickVars
  <2>2. PanelTypeOK'
    BY <2>1, NoKeysIsList DEF KeysInv, KeysTypeOK, PanelTypeOK, EmptyPanel
  <2>3. PickTypeOK' /\ PickInv'
    BY <2>1 DEF KeysInv, KeysTypeOK, PickTypeOK, PickInv
  <2>4. ~panelKeys'.listLoaded
    BY <2>1 DEF EmptyPanel
  <2>5. ~outlived' => Changes' = {}
    BY <1>7, <2>1 DEF Changes
  <2>6. PanelInv'
    BY <1>2, <1>5, <2>4, <2>5 DEF PanelInv, OneChange, ListedInv, Made
  <2>7. QED
    BY <1>3, <1>4, <1>6, <2>2, <2>3, <2>6 DEF KeysInv, KeysTypeOK
<1>9. CASE OpenChatPicker
  <2>1. /\ shownView' = "chat" /\ chatPick' = [chatPick EXCEPT !.configured = {}, !.ready = FALSE]
        /\ UNCHANGED <<panelKeys, keyDrafts, keysTyped, lastPicked, userPick, lostCalls, outlived>>
    BY <1>9 DEF OpenChatPicker, panelVars
  <2>2. PanelTypeOK' /\ PanelInv'
    BY <2>1 DEF KeysInv, KeysTypeOK, PanelTypeOK, PanelInv
  <2>3. PickTypeOK' /\ PickInv'
    BY <2>1 DEF KeysInv, KeysTypeOK, PickTypeOK, PickInv
  <2>4. QED
    BY <1>3, <1>4, <1>6, <2>2, <2>3 DEF KeysInv, KeysTypeOK
<1>10. QED
  BY <1>8, <1>9

\* A change is sent: there was none before.
LEMMA ChangeInv ==
  ASSUME KeysInv, NEW p \in Providers, OnSave(p) \/ OnRemoveKey(p) PROVE KeysInv'
<1>1. PICK what \in {"set", "remove"}, key \in Nat : keyCalls' = keyCalls \cup {CallOf(what, p, key)}
  BY DEF OnSave, OnRemoveKey, KeysInv, KeysTypeOK, PanelTypeOK, KeyLists, NoKey
<1> DEFINE c == CallOf(what, p, key)
<1>2. /\ shownView = "settings" /\ ~panelKeys.busy /\ panelKeys.listLoaded
      /\ panelKeys' = [panelKeys EXCEPT !.busy = TRUE]
      /\ UNCHANGED <<storedKeys, views, shownView, keyDrafts, keysTyped, chatPick, lastPicked, userPick,
                     lostCalls, outlived>>
  BY DEF OnSave, OnRemoveKey, pickVars
<1>3. c \in Calls /\ c.view = views /\ c.what # "list" /\ c.provider = p /\ ~c.done
  BY ChangeMade
<1>4. keyCalls' = keyCalls \cup {c} /\ views \in Nat
  BY <1>1 DEF KeysInv, KeysTypeOK, CoreTypeOK
<1> HIDE DEF c
<1>5. CoreTypeOK'
  BY <1>2, <1>3, <1>4 DEF KeysInv, KeysTypeOK, CoreTypeOK
<1>6. /\ PanelTypeOK' /\ panelKeys'.busy /\ panelKeys'.listLoaded
      /\ panelKeys'.list = panelKeys.list
  BY <1>2 DEF KeysInv, KeysTypeOK, PanelTypeOK
<1>7. PickTypeOK' /\ PickInv'
  BY <1>2 DEF KeysInv, KeysTypeOK, PickTypeOK, PickInv
<1>8. ViewInv'
  BY <1>2, <1>3, <1>4 DEF KeysInv, ViewInv
<1>9. OwnLists' = OwnLists
  BY <1>2, <1>3, <1>4 DEF OwnLists
<1>10. OneList'
  BY <1>9 DEF KeysInv, OneList
<1>11. PanelInv'
  <2> SUFFICES ASSUME ~outlived PROVE OneChange' /\ ListedInv'
    BY <1>2 DEF PanelInv
  <2>1. OneChange /\ ListedInv
    BY <1>2 DEF KeysInv, PanelInv
  <2>2. Changes = {}
    BY <1>2, <2>1 DEF OneChange
  <2>3. Changes' = {c}
    BY <1>3, <1>4, <2>2 DEF Changes
  <2>4. OneChange'
    BY <1>2, <1>3, <1>6, <1>9, <2>1, <2>3 DEF OneChange
  <2>5. ListedInv'
    BY <1>2, <1>3, <1>6, <1>9, <2>1, <2>2, <2>3 DEF ListedInv, Made
  <2>6. QED
    BY <2>4, <2>5
<1>12. QED
  BY <1>5, <1>6, <1>7, <1>8, <1>10, <1>11 DEF KeysInv, KeysTypeOK

\* A call is answered, or lost: it stays where it is, done.
LEMMA CallDone ==
  ASSUME KeysInv, NEW c \in keyCalls, NEW reply \in [ok : BOOLEAN, list : KeyLists],
         keyCalls' = (keyCalls \ {c}) \cup {[c EXCEPT !.done = TRUE, !.reply = reply]},
         storedKeys' \in KeyLists,
         UNCHANGED <<views, shownView, panelKeys, keyDrafts, keysTyped, chatPick, lastPicked, userPick>>,
         lostCalls' \in Nat, outlived' \in BOOLEAN, PanelInv'
  PROVE  KeysInv'
<1> DEFINE d == [c EXCEPT !.done = TRUE, !.reply = reply]
<1>1. /\ d \in Calls /\ d.view = c.view /\ d.what = c.what /\ d.provider = c.provider
      /\ keyCalls' = (keyCalls \ {c}) \cup {d}
  <2>1. c \in Calls
    BY CallTypes
  <2>2. d \in Calls /\ d.view = c.view /\ d.what = c.what /\ d.provider = c.provider
    BY <2>1, CallAnswered
  <2>3. QED
    BY <2>2
<1> HIDE DEF d
<1>2. CoreTypeOK'
  BY <1>1, CallTypes DEF KeysInv, KeysTypeOK, CoreTypeOK
<1>3. PanelTypeOK'
  BY DEF KeysInv, KeysTypeOK, PanelTypeOK
<1>4. PickTypeOK' /\ PickInv'
  BY DEF KeysInv, KeysTypeOK, PickTypeOK, PickInv
<1>5. ViewInv'
  BY <1>1 DEF KeysInv, ViewInv
<1>6. OneList'
  BY <1>1 DEF KeysInv, OneList, OwnLists
<1>7. QED
  BY <1>2, <1>3, <1>4, <1>5, <1>6 DEF KeysInv, KeysTypeOK

\* Of the calls of a panel only what is said of this one changes.
LEMMA PanelCallDone ==
  ASSUME OneChange, UNCHANGED <<views, panelKeys>>, NEW c \in keyCalls, NEW d,
         keyCalls' = (keyCalls \ {c}) \cup {d}, d.what = c.what, d.view = c.view
  PROVE  /\ OneChange'
         /\ c.what = "list" => Changes' = Changes /\ OwnLists' \subseteq OwnLists \cup {d}
         /\ c.what # "list" => Changes = {c} /\ Changes' = {d} /\ OwnLists' = OwnLists
<1>1. CASE c.what = "list"
  <2>1. Changes' = Changes
    BY <1>1 DEF Changes
  <2>2. OwnLists' \subseteq OwnLists \cup {d} /\ (OwnLists = {} => OwnLists' = {})
    BY <1>1 DEF OwnLists
  <2>3. QED
    BY <1>1, <2>1, <2>2 DEF OneChange
<1>2. CASE c.what # "list"
  <2>1. Changes = {c}
    BY <1>2 DEF OneChange, Changes
  <2>2. Changes' = {d}
    BY <1>2, <2>1 DEF Changes
  <2>3. OwnLists' = OwnLists
    BY <1>2 DEF OwnLists
  <2>4. QED
    BY <1>2, <2>1, <2>2, <2>3 DEF OneChange
<1>3. QED
  BY <1>1, <1>2

LEMMA KeysAnswerInv ==
  ASSUME KeysInv, NEW c \in keyCalls, NEW ok \in BOOLEAN, RegistryAnswersCall(c, ok) PROVE KeysInv'
<1> DEFINE reply == [ok |-> ok, list |-> IF ok THEN storedKeys' ELSE NoKeys]
           d == [c EXCEPT !.done = TRUE, !.reply = reply]
<1>1. /\ ~c.done /\ keyCalls' = (keyCalls \ {c}) \cup {d}
      /\ storedKeys' = IF ok /\ c.what # "list" THEN [storedKeys EXCEPT ![c.provider] = c.key]
                       ELSE storedKeys
      /\ UNCHANGED <<views, shownView, panelKeys, keyDrafts, keysTyped, chatPick, lastPicked, userPick,
                     lostCalls, outlived>>
  BY DEF RegistryAnswersCall, panelVars, pickVars
<1>2. storedKeys \in KeyLists /\ lostCalls \in Nat /\ outlived \in BOOLEAN /\ c \in Calls
  BY CallTypes DEF KeysInv, KeysTypeOK, CoreTypeOK, PanelTypeOK
<1>3. storedKeys' \in KeyLists
  BY <1>1, <1>2, CallTypes DEF KeyLists
<1>4. reply \in [ok : BOOLEAN, list : KeyLists] /\ reply.ok = ok /\ (ok => reply.list = storedKeys')
  BY <1>3, NoKeysIsList
<1>5. /\ d.view = c.view /\ d.what = c.what /\ d.provider = c.provider /\ d.key = c.key
      /\ d.done /\ d.reply = reply
  BY <1>2, <1>4, CallAnswered, ZenonT(60)
<1> HIDE DEF reply
<1>6. PanelInv'
  <2> SUFFICES ASSUME shownView = "settings", ~outlived PROVE OneChange' /\ ListedInv'
    BY <1>1 DEF PanelInv
  <2>1. OneChange /\ ListedInv
    BY DEF KeysInv, PanelInv
  <2>2. /\ OneChange'
        /\ c.what = "list" => Changes' = Changes /\ OwnLists' \subseteq OwnLists \cup {d}
        /\ c.what # "list" => Changes = {c} /\ Changes' = {d} /\ OwnLists' = OwnLists
    BY <1>1, <1>5, <2>1, PanelCallDone
  <2> HIDE DEF d
  <2>3. CASE c.what = "list"
    BY <1>1, <1>4, <1>5, <2>1, <2>2, <2>3 DEF ListedInv, Made
  <2>4. CASE c.what # "list"
    <3>1. panelKeys.listLoaded /\ OwnLists = {} /\ panelKeys.list = storedKeys
      BY <1>1, <2>1, <2>2, <2>4 DEF OneChange, ListedInv, Made
    <3>2. ok => storedKeys' = [panelKeys.list EXCEPT ![d.provider] = d.key]
      BY <1>1, <1>5, <2>4, <3>1
    <3>3. ~ok => panelKeys.list = storedKeys'
      BY <1>1, <3>1
    <3>4. QED
      BY <1>1, <1>4, <1>5, <2>2, <2>4, <3>1, <3>2, <3>3 DEF ListedInv, Made
  <2>5. QED
    BY <2>2, <2>3, <2>4
<1> HIDE DEF d
<1>7. keyCalls' = (keyCalls \ {c}) \cup {[c EXCEPT !.done = TRUE, !.reply = reply]}
  BY <1>1 DEF d
<1>8. QED
  BY <1>1, <1>2, <1>3, <1>4, <1>6, <1>7, CallDone

LEMMA LostInv ==
  ASSUME KeysInv, NEW c \in keyCalls, CallIsLost(c) PROVE KeysInv'
<1> DEFINE d == [c EXCEPT !.done = TRUE, !.reply = Unanswered]
<1>1. /\ keyCalls' = (keyCalls \ {c}) \cup {d} /\ lostCalls' = lostCalls + 1
      /\ outlived' = (outlived \/ c.what # "list")
      /\ UNCHANGED <<storedKeys, views, shownView, panelKeys, keyDrafts, keysTyped, chatPick,
                     lastPicked, userPick>>
  BY DEF CallIsLost, panelVars, pickVars
<1>2. /\ storedKeys' \in KeyLists /\ lostCalls' \in Nat /\ outlived' \in BOOLEAN /\ c \in Calls
  BY <1>1, CallTypes DEF KeysInv, KeysTypeOK, CoreTypeOK, PanelTypeOK
<1>3. d.view = c.view /\ d.what = c.what /\ ~d.reply.ok
  <2>1. d.view = c.view /\ d.what = c.what /\ d.reply = Unanswered
    BY <1>2, CallAnswered, NoKeysIsList
  <2>2. QED
    BY <2>1 DEF Unanswered
<1>4. PanelInv'
  <2> SUFFICES ASSUME shownView = "settings", ~outlived, c.what = "list" PROVE OneChange' /\ ListedInv'
    BY <1>1 DEF PanelInv
  <2>1. OneChange /\ ListedInv
    BY DEF KeysInv, PanelInv
  <2>2. OneChange' /\ Changes' = Changes /\ OwnLists' \subseteq OwnLists \cup {d}
    BY <1>1, <1>3, <2>1, PanelCallDone
  <2> HIDE DEF d
  <2>3. ListedInv'
    BY <1>1, <1>3, <2>1, <2>2 DEF ListedInv, Made
  <2>4. QED
    BY <2>2, <2>3
<1>5. QED
  BY <1>1, <1>2, <1>4, NoKeysIsList, CallDone

-----------------------------------------------------------------------------
(* Replies.                                                                 *)

LEMMA NobodyInv ==
  ASSUME KeysInv, NEW c \in keyCalls, ReplyFindsNobody(c) PROVE KeysInv'
<1>1. /\ ~IsHeard(c) /\ keyCalls' = keyCalls \ {c}
      /\ UNCHANGED <<storedKeys, views, shownView, panelKeys, keyDrafts, keysTyped, chatPick,
                     lastPicked, userPick, lostCalls, outlived>>
  BY DEF ReplyFindsNobody, panelVars, pickVars
<1>2. KeysTypeOK'
  BY <1>1 DEF KeysInv, KeysTypeOK, CoreTypeOK, PanelTypeOK, PickTypeOK
<1>3. ViewInv' /\ PickInv' /\ OneList'
  BY <1>1 DEF KeysInv, ViewInv, PickInv, OneList, OwnLists
<1>4. PanelInv'
  <2> SUFFICES ASSUME shownView = "settings", ~outlived PROVE OneChange' /\ ListedInv'
    BY <1>1 DEF PanelInv
  <2>1. OneChange /\ ListedInv
    BY DEF KeysInv, PanelInv
  <2>2. c.view # views
    BY <1>1 DEF IsHeard
  <2>3. Changes' = Changes /\ OwnLists' = OwnLists
    BY <1>1, <2>1, <2>2 DEF Changes, OwnLists, OneChange
  <2>4. QED
    BY <1>1, <2>1, <2>3 DEF OneChange, ListedInv, Made
<1>5. QED
  BY <1>2, <1>3, <1>4 DEF KeysInv

LEMMA ListedStep ==
  ASSUME KeysInv, NEW c \in keyCalls, PanelIsListed(c) PROVE KeysInv'
<1>1. /\ c.done /\ c.what = "list" /\ c.view = views /\ shownView = "settings"
      /\ panelKeys' = [panelKeys EXCEPT !.loading = FALSE, !.listLoaded = @ \/ c.reply.ok,
                                        !.list = IF c.reply.ok THEN c.reply.list ELSE @]
      /\ keyCalls' = keyCalls \ {c}
      /\ UNCHANGED <<storedKeys, views, shownView, keyDrafts, keysTyped, chatPick, lastPicked,
                     userPick, lostCalls, outlived>>
  BY DEF PanelIsListed, IsHeard, pickVars
<1>2. /\ PanelTypeOK' /\ panelKeys'.listLoaded = (panelKeys.listLoaded \/ c.reply.ok)
      /\ panelKeys'.list = (IF c.reply.ok THEN c.reply.list ELSE panelKeys.list)
      /\ panelKeys'.busy = panelKeys.busy
  BY <1>1, CallTypes DEF KeysInv, KeysTypeOK, PanelTypeOK
<1>3. KeysTypeOK'
  BY <1>1, <1>2 DEF KeysInv, KeysTypeOK, CoreTypeOK, PickTypeOK
<1>4. ViewInv' /\ PickInv'
  BY <1>1 DEF KeysInv, ViewInv, PickInv
<1>5. OwnLists' = {} /\ Changes' = Changes /\ c \in OwnLists
  BY <1>1 DEF KeysInv, OneList, OwnLists, Changes
<1>6. OneList'
  BY <1>5 DEF OneList
<1>7. PanelInv'
  <2> SUFFICES ASSUME ~outlived PROVE OneChange' /\ ListedInv'
    BY <1>1 DEF PanelInv
  <2>1. OneChange /\ ListedInv
    BY <1>1 DEF KeysInv, PanelInv
  <2>2. ~panelKeys.listLoaded /\ Changes = {}
    BY <1>5, <2>1 DEF OneChange
  <2>3. c.reply.ok => c.reply.list = storedKeys
    BY <1>1, <1>5, <2>1 DEF ListedInv, Made
  <2>4. QED
    BY <1>1, <1>2, <1>5, <2>2, <2>3 DEF OneChange, ListedInv
<1>8. QED
  BY <1>3, <1>4, <1>6, <1>7 DEF KeysInv

LEMMA AnsweredStep ==
  ASSUME KeysInv, NEW c \in keyCalls, PanelIsAnswered(c) PROVE KeysInv'
<1>1. /\ c.done /\ c.what # "list" /\ c.view = views
      /\ panelKeys' = [panelKeys EXCEPT !.busy = FALSE,
                         !.list = IF c.reply.ok THEN [@ EXCEPT ![c.provider] = c.key] ELSE @]
      /\ keyDrafts' = IF c.what = "set" THEN [keyDrafts EXCEPT ![c.provider] = NoKey] ELSE keyDrafts
      /\ keyCalls' = keyCalls \ {c}
      /\ UNCHANGED <<storedKeys, views, shownView, keysTyped, chatPick, lastPicked, userPick,
                     lostCalls, outlived>>
  BY DEF PanelIsAnswered, IsHeard, pickVars
<1>2. /\ keyDrafts \in KeyLists /\ panelKeys.list \in KeyLists /\ c.provider \in Providers
      /\ c.key \in Nat
  BY <1>1, CallTypes DEF KeysInv, KeysTypeOK, PanelTypeOK
<1>3. keyDrafts' \in KeyLists /\ [panelKeys.list EXCEPT ![c.provider] = c.key] \in KeyLists
  BY <1>1, <1>2 DEF KeyLists, NoKey
<1>4. /\ PanelTypeOK' /\ panelKeys'.listLoaded = panelKeys.listLoaded
      /\ panelKeys'.list = IF c.reply.ok THEN [panelKeys.list EXCEPT ![c.provider] = c.key]
                           ELSE panelKeys.list
  BY <1>1, <1>3 DEF KeysInv, KeysTypeOK, PanelTypeOK
<1>5. KeysTypeOK'
  BY <1>1, <1>4 DEF KeysInv, KeysTypeOK, CoreTypeOK, PickTypeOK
<1>6. ViewInv' /\ PickInv'
  BY <1>1 DEF KeysInv, ViewInv, PickInv
<1>7. OwnLists' = OwnLists
  BY <1>1 DEF OwnLists
<1>8. OneList'
  BY <1>7 DEF KeysInv, OneList
<1>9. PanelInv'
  <2> SUFFICES ASSUME shownView = "settings", ~outlived PROVE OneChange' /\ ListedInv'
    BY <1>1 DEF PanelInv
  <2>1. OneChange /\ ListedInv
    BY DEF KeysInv, PanelInv
  <2>2. Changes = {c} /\ Changes' = {}
    BY <1>1, <2>1 DEF OneChange, Changes
  <2>3. panelKeys.listLoaded /\ OwnLists = {}
    BY <2>1, <2>2 DEF OneChange
  <2>4. panelKeys'.list = storedKeys
    BY <1>1, <1>4, <2>1, <2>2, <2>3 DEF ListedInv, Made
  <2>5. QED
    BY <1>1, <1>4, <1>7, <2>2, <2>3, <2>4 DEF OneChange, ListedInv
<1>10. QED
  BY <1>5, <1>6, <1>8, <1>9 DEF KeysInv

LEMMA ChatListedStep ==
  ASSUME KeysInv, NEW c \in keyCalls, ChatIsListed(c) PROVE KeysInv'
<1> DEFINE configured == {p \in Providers : c.reply.ok /\ c.reply.list[p] # NoKey}
           picked == PickDefault(configured)
<1>1. /\ shownView = "chat" /\ keyCalls' = keyCalls \ {c}
      /\ chatPick' = [configured |-> configured, ready |-> TRUE, provider |-> picked]
      /\ lastPicked' = IF chatPick'.provider = chatPick.provider THEN lastPicked ELSE chatPick'.provider
      /\ UNCHANGED <<storedKeys, views, shownView, panelKeys, keyDrafts, keysTyped, userPick, lostCalls,
                     outlived>>
  BY DEF ChatIsListed, panelVars
<1>2. /\ configured \in SUBSET Providers
      /\ chatPick.provider \in OrNoOne /\ lastPicked \in OrNoOne /\ userPick \in OrNoOne
  BY DEF KeysInv, KeysTypeOK, PickTypeOK
<1> HIDE DEF configured
<1>3. configured = {} => ResolveDefaultProvider(configured) = NoOne
  BY DEF ResolveDefaultProvider
<1>4. configured # {} => ResolveDefaultProvider(configured) \in configured
  BY <1>2, DefaultIsConfigured
<1>5. /\ picked \in OrNoOne /\ (configured # {} => picked # NoOne)
      /\ chatPick.provider # NoOne => picked = chatPick.provider
  BY <1>2, <1>3, <1>4, ProvidersAssumption DEF PickDefault, OrNoOne
<1> HIDE DEF picked
<1>6. PickTypeOK' /\ PickInv'
  <2>1. /\ chatPick'.configured = configured /\ chatPick'.provider = picked
        /\ chatPick' \in [configured : SUBSET Providers, ready : BOOLEAN, provider : OrNoOne]
    BY <1>1, <1>2, <1>5
  <2>2. userPick # NoOne => chatPick.provider = userPick
    BY DEF KeysInv, PickInv
  <2>3. QED
    BY <1>1, <1>2, <1>5, <2>1, <2>2 DEF PickTypeOK, PickInv
<1>7. KeysTypeOK'
  BY <1>1, <1>6 DEF KeysInv, KeysTypeOK, CoreTypeOK, PanelTypeOK
<1>8. ViewInv' /\ OneList' /\ PanelInv'
  BY <1>1 DEF KeysInv, ViewInv, OneList, OwnLists, PanelInv
<1>9. QED
  BY <1>6, <1>7, <1>8 DEF KeysInv

LEMMA KeysStutterInv == ASSUME KeysInv, UNCHANGED keyVars PROVE KeysInv'
<1>1. KeysTypeOK' /\ PickInv'
  BY DEF KeysInv, keyVars, KeysTypeOK, CoreTypeOK, PanelTypeOK, PickTypeOK, PickInv
<1>2. QED
  BY <1>1, NothingSent DEF keyVars

LEMMA KeysInvStep == KeysInv /\ [KeysNext]_keyVars => KeysInv'
<1> SUFFICES ASSUME KeysInv, [KeysNext]_keyVars PROVE KeysInv'
  OBVIOUS
<1>1. CASE OpenSettings \/ OpenChatPicker
  BY <1>1, OpenInv
<1>2. CASE LeaveView
  BY <1>2, KeysLeaveInv
<1>3. ASSUME NEW p \in Providers, TypeKey(p) \/ OnSave(p) \/ OnRemoveKey(p) \/ PickChatProvider(p)
      PROVE  KeysInv'
  BY <1>3, TypeInv, ChangeInv, PickInvStep
<1>4. ASSUME NEW c \in keyCalls, NEW ok \in BOOLEAN, RegistryAnswersCall(c, ok) PROVE KeysInv'
  BY <1>4, KeysAnswerInv
<1>5. ASSUME NEW c \in keyCalls,
             \/ CallIsLost(c) \/ ReplyFindsNobody(c)
             \/ PanelIsListed(c) \/ PanelIsAnswered(c) \/ ChatIsListed(c)
      PROVE  KeysInv'
  BY <1>5, LostInv, NobodyInv, ListedStep, AnsweredStep, ChatListedStep
<1>6. CASE UNCHANGED keyVars
  BY <1>6, KeysStutterInv
<1>7. QED
  BY <1>1, <1>2, <1>3, <1>4, <1>5, <1>6 DEF KeysNext

LEMMA KeysInvariance == KeysSpec => []KeysInv
BY KeysInvInit, KeysInvStep, PTL DEF KeysSpec

-----------------------------------------------------------------------------
(* Theorems.                                                                *)

(* The Core's keys, the panel, the calls under way and the chat's pick keep *)
(* to their types, whichever views are opened and left.                     *)
THEOREM KeysTypeCorrect == KeysSpec => []KeysTypeOK
<1>1. KeysInv => KeysTypeOK
  BY DEF KeysInv
<1>2. QED
  BY <1>1, KeysInvariance, PTL

(* A panel at rest lists the keys the Core has, and a chat keeps the        *)
(* provider the user picked, in whatever order the calls of several views   *)
(* are answered, fail or are lost.                                          *)
THEOREM ListsAreTrue == KeysSpec => []ProvidersAreTrue
<1>1. KeysInv => ProvidersAreTrue
  <2> SUFFICES ASSUME KeysInv PROVE ProvidersAreTrue
    OBVIOUS
  <2>1. ASSUME shownView = "settings", panelKeys.listLoaded, ~panelKeys.busy, ~outlived
        PROVE  panelKeys.list = storedKeys
    <3>1. OneChange /\ ListedInv
      BY <2>1 DEF KeysInv, PanelInv
    <3>2. Changes = {}
      BY <2>1, <3>1 DEF OneChange
    <3>3. QED
      BY <2>1, <3>1, <3>2 DEF ListedInv
  <2>2. QED
    BY <2>1 DEF KeysInv, PickInv, ProvidersAreTrue
<1>2. QED
  BY <1>1, KeysInvariance, PTL

=============================================================================
