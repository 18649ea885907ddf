-------------------------- MODULE TabManagerProofs --------------------------
(***************************************************************************)
(* TabManager for every set of addresses and every bound: its types, the   *)
(* cursor of every history, and the open active tab.                       *)
(***************************************************************************)
EXTENDS TabManager, FiniteSetTheorems, SequenceTheorems, TLAPS

\* A tab whose cursor and address agree, as CursorInv says of every open tab.
GoodTab(t) ==
  /\ t \in Tab
  /\ t.index < Len(t.history)
  /\ t.url = t.history[t.index + 1]
  /\ \A k \in 1 .. Len(t.history) - 1 : t.history[k] # t.history[k + 1]

\* The inductive invariant: each invariant checked by the runs is a part of it.
TabInv ==
  /\ DOMAIN tabs \subseteq Nat
  /\ IsFiniteSet(DOMAIN tabs)
  /\ \A i \in DOMAIN tabs : GoodTab(tabs[i])
  /\ tabs = [i \in DOMAIN tabs |-> tabs[i]]
  /\ next \in Nat
  /\ ActiveInv

\* A freshly opened tab is good.
LEMMA OpenedIsGood ==
  ASSUME NEW u \in Urls
  PROVE  GoodTab(Opened(u))
BY DEF GoodTab, Opened, TabOf, Tab

\* push_history turns a good tab into a good tab showing the new address.
LEMMA PushIsGood ==
  ASSUME NEW t, GoodTab(t), NEW u \in Urls
  PROVE  GoodTab(PushHistory(t, u)) /\ PushHistory(t, u).url = u
<1> DEFINE kept == SubSeq(t.history, 1, t.index + 1)
<1>1. /\ t \in Tab /\ t.history \in Seq(Urls) /\ t.index \in Nat
      /\ t.index + 1 \in 1 .. Len(t.history)
  BY DEF GoodTab, Tab
<1>2. /\ kept \in Seq(Urls)
      /\ Len(kept) = t.index + 1
      /\ \A k \in 1 .. t.index + 1 : kept[k] = t.history[k]
  BY <1>1
<1>3. \A k \in 1 .. Len(kept) - 1 : kept[k] # kept[k + 1]
  BY <1>1, <1>2 DEF GoodTab
<1> HIDE DEF kept
<1>4. CASE kept[Len(kept)] = u
  <2>1. PushHistory(t, u) = TabOf(u, kept, t.index)
    BY <1>4 DEF PushHistory, kept
  <2> QED BY <2>1, <1>1, <1>2, <1>3, <1>4 DEF GoodTab, Tab, TabOf
<1>5. CASE kept[Len(kept)] # u
  <2> DEFINE grown == Append(kept, u)
  <2>1. PushHistory(t, u) = TabOf(u, grown, Len(kept))
    BY <1>5 DEF PushHistory, kept
  <2>2. /\ grown \in Seq(Urls) /\ Len(grown) = Len(kept) + 1
        /\ grown[Len(kept) + 1] = u
        /\ \A k \in 1 .. Len(kept) : grown[k] = kept[k]
    BY <1>2
  <2>3. \A k \in 1 .. Len(grown) - 1 : grown[k] # grown[k + 1]
    BY <2>2, <1>2, <1>3, <1>5
  <2> HIDE DEF grown
  <2> QED BY <2>1, <2>2, <2>3, <1>1, <1>2 DEF GoodTab, Tab, TabOf
<1> QED BY <1>4, <1>5

\* Moving the cursor inside the history keeps a tab good.
LEMMA MoveIsGood ==
  ASSUME NEW t, GoodTab(t), NEW i \in 0 .. Len(t.history) - 1
  PROVE  GoodTab(MoveCursor(t, i))
<1>1. t \in Tab /\ t.history \in Seq(Urls) /\ t.history[i + 1] \in Urls
  BY DEF GoodTab, Tab
<1> QED BY <1>1 DEF GoodTab, Tab, MoveCursor, TabOf

-----------------------------------------------------------------------------
(* The invariant holds initially and every handler keeps it. *)

LEMMA InitHolds == TabInit => TabInv
<1> SUFFICES ASSUME TabInit PROVE TabInv
  OBVIOUS
<1> USE UrlAssumption
<1>1. GoodTab(PushHistory(Opened(Welcome), Home))
  BY OpenedIsGood, PushIsGood
<1>2. DOMAIN tabs = {0} /\ tabs[0] = PushHistory(Opened(Welcome), Home)
  BY DEF TabInit
<1>3. IsFiniteSet({0})
  BY FS_Singleton
<1> QED BY <1>1, <1>2, <1>3 DEF TabInit, TabInv, ActiveInv, ActiveIsOpen

\* A handler that only replaces the active tab by a good one keeps TabInv.
LEMMA UpdateKeeps ==
  ASSUME TabInv, NEW t, GoodTab(t), UpdateActive(t)
  PROVE  TabInv'
BY DEF TabInv, UpdateActive, ActiveInv, ActiveIsOpen

\* Opening tab `next` beside a set of open tabs keeps TabInv.
LEMMA OpenKeeps ==
  ASSUME TabInv, NEW m, DOMAIN m \subseteq DOMAIN tabs,
         \A i \in DOMAIN m : m[i] = tabs[i],
         NEW t, GoodTab(t),
         tabs' = WithTab(m, next, t), active' = next, next' = next + 1
  PROVE  TabInv'
<1>1. IsFiniteSet(DOMAIN m \union {next})
  BY FS_Subset, FS_AddElement DEF TabInv
<1>2. DOMAIN tabs' = DOMAIN m \union {next}
  BY DEF WithTab
<1>3. \A i \in DOMAIN tabs' : GoodTab(tabs'[i])
  BY <1>2 DEF TabInv, WithTab
<1>4. tabs' = [i \in DOMAIN tabs' |-> tabs'[i]]
  BY <1>2 DEF WithTab
<1> QED BY <1>1, <1>2, <1>3, <1>4 DEF TabInv, ActiveInv, ActiveIsOpen

LEMMA StepKeeps == TabInv /\ [TabNext]_tabVars => TabInv'
<1> SUFFICES ASSUME TabInv, [TabNext]_tabVars PROVE TabInv'
  OBVIOUS
<1> DEFINE t == tabs[active]
<1>a. GoodTab(t)
  BY DEF TabInv, ActiveInv, ActiveIsOpen
<1>b. t.index \in Nat /\ Len(t.history) \in Nat /\ t.index < Len(t.history)
  BY <1>a DEF GoodTab, Tab
<1>1. ASSUME NEW u \in Urls, Navigate(u) PROVE TabInv'
  BY <1>1, <1>a, PushIsGood, UpdateKeeps DEF Navigate
<1>2. CASE Back
  <2>1. t.index - 1 \in 0 .. Len(t.history) - 1
    BY <1>2, <1>b DEF Back
  <2> QED BY <2>1, <1>2, <1>a, MoveIsGood, UpdateKeeps DEF Back
<1>3. CASE Forward
  <2>1. t.index + 1 \in 0 .. Len(t.history) - 1
    BY <1>3, <1>b DEF Forward
  <2> QED BY <2>1, <1>3, <1>a, MoveIsGood, UpdateKeeps DEF Forward
<1>4. CASE NewTab
  BY <1>4, UrlAssumption, OpenedIsGood, PushIsGood, OpenKeeps DEF NewTab
<1>5. ASSUME NEW id \in 0 .. next - 1, SwitchTab(id) PROVE TabInv'
  BY <1>5 DEF SwitchTab, TabInv, ActiveInv, ActiveIsOpen
<1>6. ASSUME NEW id \in 0 .. next - 1, CloseLastTab(id) PROVE TabInv'
  <2>1. /\ DOMAIN Without(id) \subseteq DOMAIN tabs
        /\ \A i \in DOMAIN Without(id) : Without(id)[i] = tabs[i]
    BY DEF Without, Restrict
  <2> QED BY <2>1, <1>6, UrlAssumption, OpenedIsGood, OpenKeeps DEF CloseLastTab
<1>7. ASSUME NEW id \in 0 .. next - 1, CloseOneTab(id) PROVE TabInv'
  <2>1. /\ DOMAIN tabs' = DOMAIN tabs \ {id}
        /\ tabs' = [i \in DOMAIN tabs \ {id} |-> tabs[i]]
        /\ next' = next
    BY <1>7 DEF CloseOneTab, Without, Restrict
  <2>2. IsFiniteSet(DOMAIN tabs')
    BY <2>1, FS_RemoveElement DEF TabInv
  <2>3. active' \in DOMAIN tabs'
    BY <1>7, <2>1 DEF CloseOneTab, TabInv, ActiveInv, ActiveIsOpen
  <2> QED BY <2>1, <2>2, <2>3 DEF TabInv, ActiveInv, ActiveIsOpen
<1>8. CASE UNCHANGED tabVars
  BY <1>8 DEF tabVars, TabInv, ActiveInv, ActiveIsOpen
<1> QED BY <1>1, <1>2, <1>3, <1>4, <1>5, <1>6, <1>7, <1>8 DEF TabNext, CloseTab

LEMMA TabInvariant == TabSpec => []TabInv
BY InitHolds, StepKeeps, PTL DEF TabSpec

-----------------------------------------------------------------------------
\* Every reachable state is well typed.
THEOREM TypeCorrect == TabSpec => []TypeOK
<1>1. TabInv => TypeOK
  BY DEF TabInv, TypeOK, ActiveInv, ActiveIsOpen, GoodTab
<1> QED BY <1>1, TabInvariant, PTL

\* Back, Forward and Refresh never index outside a history, and the address a
\* tab shows is the entry under its cursor.
THEOREM CursorIsValid == TabSpec => []CursorInv
<1>1. TabInv => CursorInv
  BY DEF TabInv, CursorInv, GoodTab
<1> QED BY <1>1, TabInvariant, PTL

\* No history entry repeats the one before it.
THEOREM HistoryNeverRepeats == TabSpec => []NoRepeatInv
<1>1. TabInv => NoRepeatInv
  BY DEF TabInv, NoRepeatInv, GoodTab
<1> QED BY <1>1, TabInvariant, PTL

\* The command loop always has an open active tab, stale closes included, and
\* no identity is handed out twice.
THEOREM ActiveTabIsOpen == TabSpec => []ActiveInv
<1>1. TabInv => ActiveInv
  BY DEF TabInv
<1> QED BY <1>1, TabInvariant, PTL
-----------------------------------------------------------------------------
(* The array and the cursor implement the pages behind and ahead. *)

\* Two sequences over a set are equal when they agree at every position.
LEMMA SameSequence ==
  ASSUME NEW S, NEW s \in Seq(S), NEW r \in Seq(S), Len(s) = Len(r),
         \A k \in 1 .. Len(s) : s[k] = r[k]
  PROVE  s = r
BY SeqEqual

\* A fresh tab has nothing behind and nothing ahead.
LEMMA OpenedAsPage ==
  ASSUME NEW u \in Urls
  PROVE  AsPage(Opened(u)) = Session!Page(<<>>, u, <<>>)
<1>1. GoodTab(Opened(u))
  BY OpenedIsGood
<1>2. /\ AsPage(Opened(u)).behind = <<>> /\ AsPage(Opened(u)).ahead = <<>>
      /\ AsPage(Opened(u)).onScreen = u
  BY DEF AsPage, Opened, TabOf
<1> QED BY <1>2 DEF AsPage, Session!Page

\* An array up to the cursor is what is behind it, then the entry under it.
LEMMA SplitCursor ==
  ASSUME NEW h \in Seq(Urls), NEW i \in Nat, i < Len(h)
  PROVE  SubSeq(h, 1, i + 1) = Append(SubSeq(h, 1, i), h[i + 1])
<1> DEFINE b == SubSeq(h, 1, i)
           longer == Append(b, h[i + 1])
<1>1. b \in Seq(Urls) /\ Len(b) = i /\ \A k \in 1 .. i : b[k] = h[k]
  OBVIOUS
<1> HIDE DEF b
<1>2. /\ longer \in Seq(Urls) /\ Len(longer) = i + 1
      /\ \A k \in 1 .. i + 1 : longer[k] = h[k]
  BY <1>1
<1>3. /\ SubSeq(h, 1, i + 1) \in Seq(Urls) /\ Len(SubSeq(h, 1, i + 1)) = i + 1
      /\ \A k \in 1 .. i + 1 : SubSeq(h, 1, i + 1)[k] = h[k]
  OBVIOUS
<1> HIDE DEF longer
<1>4. SubSeq(h, 1, i + 1) = longer
  BY <1>2, <1>3, SameSequence
<1> QED BY <1>4 DEF b, longer

\* What push_history keeps of an array, split at the old and the new cursor.
LEMMA SplitPush ==
  ASSUME NEW h \in Seq(Urls), NEW i \in Nat, i < Len(h), NEW u \in Urls,
         NEW kept, kept = SubSeq(h, 1, i + 1)
  PROVE  /\ Len(kept) = i + 1 /\ kept[i + 1] = h[i + 1]
         /\ SubSeq(kept, 1, i) = SubSeq(h, 1, i)
         /\ SubSeq(kept, i + 2, Len(kept)) = <<>>
         /\ SubSeq(Append(kept, u), 1, i + 1) = kept
         /\ SubSeq(Append(kept, u), i + 3, Len(Append(kept, u))) = <<>>
<1>1. kept \in Seq(Urls) /\ Len(kept) = i + 1 /\ \A k \in 1 .. i + 1 : kept[k] = h[k]
  OBVIOUS
<1>2. SubSeq(kept, 1, i) = SubSeq(h, 1, i)
  <2>1. /\ SubSeq(kept, 1, i) \in Seq(Urls) /\ Len(SubSeq(kept, 1, i)) = i
        /\ \A k \in 1 .. i : SubSeq(kept, 1, i)[k] = h[k]
    BY <1>1
  <2>2. /\ SubSeq(h, 1, i) \in Seq(Urls) /\ Len(SubSeq(h, 1, i)) = i
        /\ \A k \in 1 .. i : SubSeq(h, 1, i)[k] = h[k]
    OBVIOUS
  <2> QED BY <2>1, <2>2, SameSequence
<1>3. SubSeq(kept, i + 2, Len(kept)) = <<>>
  BY <1>1, SubSeqEmpty
<1> DEFINE grown == Append(kept, u)
<1>4. /\ grown \in Seq(Urls) /\ Len(grown) = i + 2
      /\ \A k \in 1 .. i + 1 : grown[k] = kept[k]
  BY <1>1
<1> HIDE DEF grown
<1>5. SubSeq(grown, 1, i + 1) = kept
  <2>1. /\ SubSeq(grown, 1, i + 1) \in Seq(Urls) /\ Len(SubSeq(grown, 1, i + 1)) = i + 1
        /\ \A k \in 1 .. i + 1 : SubSeq(grown, 1, i + 1)[k] = kept[k]
    BY <1>4
  <2> QED BY <2>1, <1>1, SameSequence
<1>6. SubSeq(grown, i + 3, Len(grown)) = <<>>
  BY <1>4, SubSeqEmpty
<1> QED BY <1>1, <1>2, <1>3, <1>5, <1>6 DEF grown

\* push_history is a visit.
LEMMA PushAsPage ==
  ASSUME NEW t, GoodTab(t), NEW u \in Urls
  PROVE  AsPage(PushHistory(t, u)) =
           IF u = AsPage(t).onScreen
             THEN Session!Page(AsPage(t).behind, u, <<>>)
             ELSE Session!Page(Append(AsPage(t).behind, AsPage(t).onScreen), u, <<>>)
<1> DEFINE h == t.history
           i == t.index
           kept == SubSeq(h, 1, i + 1)
<1>1. h \in Seq(Urls) /\ i \in Nat /\ i < Len(h) /\ t.url = h[i + 1]
  BY DEF GoodTab, Tab
<1>2. AsPage(t).behind = SubSeq(h, 1, i) /\ AsPage(t).onScreen = h[i + 1]
  BY <1>1 DEF AsPage
<1>3. PushHistory(t, u) = IF kept[Len(kept)] = u
                            THEN TabOf(u, kept, i)
                            ELSE TabOf(u, Append(kept, u), Len(kept))
  BY DEF PushHistory
<1> HIDE DEF h, i
<1>4. /\ Len(kept) = i + 1 /\ kept[i + 1] = h[i + 1]
      /\ SubSeq(kept, 1, i) = SubSeq(h, 1, i)
      /\ SubSeq(kept, i + 2, Len(kept)) = <<>>
      /\ SubSeq(Append(kept, u), 1, i + 1) = kept
      /\ SubSeq(Append(kept, u), i + 3, Len(Append(kept, u))) = <<>>
  BY <1>1, SplitPush
<1> HIDE DEF kept
<1>5. CASE u = h[i + 1]
  <2>1. AsPage(TabOf(u, kept, i)) = Session!Page(SubSeq(h, 1, i), u, <<>>)
    BY <1>4 DEF AsPage, TabOf, Session!Page
  <2> QED BY <2>1, <1>2, <1>3, <1>4, <1>5
<1>6. CASE u # h[i + 1]
  <2>1. (i + 1) + 2 = i + 3
    BY <1>1
  <2>2. AsPage(TabOf(u, Append(kept, u), i + 1)) = Session!Page(kept, u, <<>>)
    BY <2>1, <1>4 DEF AsPage, TabOf, Session!Page
  <2>3. kept = Append(SubSeq(h, 1, i), h[i + 1])
    BY <1>1, SplitCursor DEF kept
  <2> QED BY <2>2, <2>3, <1>2, <1>3, <1>4, <1>6
<1> QED BY <1>5, <1>6

\* An array split one entry further left.
LEMMA SplitBack ==
  ASSUME NEW h \in Seq(Urls), NEW i \in Nat, 0 < i, i < Len(h)
  PROVE  /\ Len(SubSeq(h, 1, i)) = i
         /\ SubSeq(h, 1, i)[i] = h[i]
         /\ SubSeq(h, 1, i - 1) = SubSeq(SubSeq(h, 1, i), 1, i - 1)
         /\ SubSeq(h, i + 1, Len(h)) = <<h[i + 1]>> \o SubSeq(h, i + 2, Len(h))
<1> DEFINE b == SubSeq(h, 1, i)
<1>1. b \in Seq(Urls) /\ Len(b) = i /\ \A k \in 1 .. i : b[k] = h[k]
  OBVIOUS
<1>2. SubSeq(h, i + 1, Len(h)) = <<h[i + 1]>> \o SubSeq(h, i + 2, Len(h))
  <2>1. i + 1 \in 1 .. Len(h) /\ Len(h) \in i + 1 .. Len(h)
    OBVIOUS
  <2>2. SubSeq(h, i + 1, Len(h)) = <<h[i + 1]>> \o SubSeq(h, (i + 1) + 1, Len(h))
    BY <2>1, SubSeqRecursiveFirst
  <2> QED BY <2>2
<1> HIDE DEF b
<1>3. /\ SubSeq(b, 1, i - 1) \in Seq(Urls) /\ Len(SubSeq(b, 1, i - 1)) = i - 1
      /\ \A k \in 1 .. i - 1 : SubSeq(b, 1, i - 1)[k] = h[k]
  BY <1>1
<1>4. /\ SubSeq(h, 1, i - 1) \in Seq(Urls) /\ Len(SubSeq(h, 1, i - 1)) = i - 1
      /\ \A k \in 1 .. i - 1 : SubSeq(h, 1, i - 1)[k] = h[k]
  OBVIOUS
<1>5. SubSeq(h, 1, i - 1) = SubSeq(b, 1, i - 1)
  BY <1>3, <1>4, SameSequence
<1> QED BY <1>1, <1>2, <1>5 DEF b

\* An array split one entry further right.
LEMMA SplitForward ==
  ASSUME NEW h \in Seq(Urls), NEW i \in Nat, i + 1 < Len(h)
  PROVE  /\ SubSeq(h, i + 2, Len(h)) # <<>>
         /\ Head(SubSeq(h, i + 2, Len(h))) = h[i + 2]
         /\ Tail(SubSeq(h, i + 2, Len(h))) = SubSeq(h, i + 3, Len(h))
         /\ SubSeq(h, 1, i + 1) = Append(SubSeq(h, 1, i), h[i + 1])
<1> DEFINE a == SubSeq(h, i + 2, Len(h))
<1>1. a # <<>>
  <2>1. a \in Seq(Urls) /\ Len(a) > 0
    OBVIOUS
  <2> HIDE DEF a
  <2> QED BY <2>1, EmptySeq
<1>2. Head(a) = h[i + 2] /\ Tail(a) = SubSeq(h, i + 3, Len(h))
  <2>1. i + 2 \in 1 .. Len(h) /\ Len(h) \in i + 2 .. Len(h)
    OBVIOUS
  <2>2. Head(a) = h[i + 2] /\ Tail(a) = SubSeq(h, (i + 2) + 1, Len(h))
    BY <2>1, HeadTailOfSubSeq
  <2> QED BY <2>2
<1>3. i < Len(h)
  OBVIOUS
<1> QED BY <1>1, <1>2, <1>3, SplitCursor

\* Moving the cursor back is Back.
LEMMA BackAsPage ==
  ASSUME NEW t, GoodTab(t), t.index > 0
  PROVE  /\ Len(AsPage(t).behind) > 0
         /\ AsPage(MoveCursor(t, t.index - 1)) =
              Session!Page(SubSeq(AsPage(t).behind, 1, Len(AsPage(t).behind) - 1),
                           AsPage(t).behind[Len(AsPage(t).behind)],
                           <<AsPage(t).onScreen>> \o AsPage(t).ahead)
<1> DEFINE h == t.history
           i == t.index
<1>1. /\ h \in Seq(Urls) /\ i \in Nat /\ 0 < i /\ i < Len(h) /\ t.url = h[i + 1]
  BY DEF GoodTab, Tab
<1>2. /\ (i - 1) + 1 = i /\ (i - 1) + 2 = i + 1
  BY <1>1
<1>3. /\ AsPage(t).behind = SubSeq(h, 1, i) /\ AsPage(t).onScreen = h[i + 1]
      /\ AsPage(t).ahead = SubSeq(h, i + 2, Len(h))
  BY <1>1 DEF AsPage
<1>4. AsPage(MoveCursor(t, i - 1)) =
        [behind |-> SubSeq(h, 1, i - 1), onScreen |-> h[i],
         ahead |-> SubSeq(h, i + 1, Len(h))]
  BY <1>2 DEF AsPage, MoveCursor, TabOf
<1> HIDE DEF h, i
<1>5. /\ Len(SubSeq(h, 1, i)) = i
      /\ SubSeq(h, 1, i)[i] = h[i]
      /\ SubSeq(h, 1, i - 1) = SubSeq(SubSeq(h, 1, i), 1, i - 1)
      /\ SubSeq(h, i + 1, Len(h)) = <<h[i + 1]>> \o SubSeq(h, i + 2, Len(h))
  BY <1>1, SplitBack
<1> QED BY <1>1, <1>3, <1>4, <1>5 DEF Session!Page, i

\* Moving the cursor forward is Forward.
LEMMA ForwardAsPage ==
  ASSUME NEW t, GoodTab(t), t.index < Len(t.history) - 1
  PROVE  /\ AsPage(t).ahead # <<>>
         /\ AsPage(MoveCursor(t, t.index + 1)) =
              Session!Page(Append(AsPage(t).behind, AsPage(t).onScreen),
                           Head(AsPage(t).ahead), Tail(AsPage(t).ahead))
<1> DEFINE h == t.history
           i == t.index
<1>1. h \in Seq(Urls) /\ i \in Nat /\ i + 1 < Len(h) /\ t.url = h[i + 1]
  BY DEF GoodTab, Tab
<1>2. /\ (i + 1) + 1 = i + 2 /\ (i + 1) + 2 = i + 3
  BY <1>1
<1>3. /\ AsPage(t).behind = SubSeq(h, 1, i) /\ AsPage(t).onScreen = h[i + 1]
      /\ AsPage(t).ahead = SubSeq(h, i + 2, Len(h))
  BY <1>1 DEF AsPage
<1>4. AsPage(MoveCursor(t, i + 1)) =
        [behind |-> SubSeq(h, 1, i + 1), onScreen |-> h[i + 2],
         ahead |-> SubSeq(h, i + 3, Len(h))]
  BY <1>2 DEF AsPage, MoveCursor, TabOf
<1> HIDE DEF h, i
<1>5. /\ SubSeq(h, i + 2, Len(h)) # <<>>
      /\ Head(SubSeq(h, i + 2, Len(h))) = h[i + 2]
      /\ Tail(SubSeq(h, i + 2, Len(h))) = SubSeq(h, i + 3, Len(h))
      /\ SubSeq(h, 1, i + 1) = Append(SubSeq(h, 1, i), h[i + 1])
  BY <1>1, SplitForward
<1> QED BY <1>3, <1>4, <1>5 DEF Session!Page, i

\* Opening a tab beside some of the open tabs is Open.
LEMMA OpenRefines ==
  ASSUME TabInv, NEW m, m = [i \in DOMAIN m |-> tabs[i]], DOMAIN m \subseteq DOMAIN tabs,
         next < MaxTabs,
         tabs' = WithTab(m, next, Opened(Home)), active' = next, next' = next + 1
  PROVE  Session!Open(DOMAIN m, next) /\ next \in (0 .. MaxTabs - 1) \ (0 .. next - 1)
<1>1. DOMAIN tabs' = DOMAIN m \union {next}
  BY DEF WithTab
<1>2. \A i \in DOMAIN m : i # next /\ tabs'[i] = tabs[i]
  BY DEF WithTab, TabInv, ActiveInv
<1>3. tabs'[next] = Opened(Home)
  BY DEF WithTab
<1>4. AsPage(Opened(Home)) = Session!Page(<<>>, Home, <<>>)
  BY OpenedAsPage, UrlAssumption
<1>5. [i \in DOMAIN tabs |-> AsPage(tabs[i])]' =
        [j \in DOMAIN m \union {next} |->
           IF j = next THEN Session!Page(<<>>, Home, <<>>)
                       ELSE [i \in DOMAIN tabs |-> AsPage(tabs[i])][j]]
  <2>1. [i \in DOMAIN tabs |-> AsPage(tabs[i])]' = [i \in DOMAIN tabs' |-> AsPage(tabs'[i])]
    OBVIOUS
  <2> QED BY <2>1, <1>1, <1>2, <1>3, <1>4
<1>6. /\ next \in Nat /\ next \notin 0 .. next - 1 /\ next \in 0 .. MaxTabs - 1
      /\ (0 .. next - 1)' = (0 .. next - 1) \union {next}
  BY BoundAssumption DEF TabInv
<1> QED BY <1>5, <1>6 DEF Session!Open

\* A change of the active tab alone is Turn.
LEMMA UpdateRefines ==
  ASSUME TabInv, NEW t, UpdateActive(t)
  PROVE  Session!Turn(AsPage(t))
<1>1. /\ active \in DOMAIN tabs /\ DOMAIN tabs' = DOMAIN tabs
      /\ \A i \in DOMAIN tabs : tabs'[i] = IF i = active THEN t ELSE tabs[i]
  BY DEF UpdateActive, TabInv, ActiveInv, ActiveIsOpen
<1>2. [i \in DOMAIN tabs' |-> AsPage(tabs'[i])] =
        [[i \in DOMAIN tabs |-> AsPage(tabs[i])] EXCEPT ![active] = AsPage(t)]
  BY <1>1
<1> QED BY <1>2 DEF Session!Turn, UpdateActive

\* Every step of the tab manager is a step of a session or a stutter.
LEMMA StepRefines ==
  ASSUME TabInv, [TabNext]_tabVars
  PROVE  [Session!Next]_(Session!vars)
<1> DEFINE t == tabs[active]
           pages == [i \in DOMAIN tabs |-> AsPage(tabs[i])]
<1>a. GoodTab(t) /\ pages[active] = AsPage(t) /\ DOMAIN pages = DOMAIN tabs
  BY DEF TabInv, ActiveInv, ActiveIsOpen
<1>b. t.index \in Nat /\ Len(t.history) \in Nat
  BY <1>a DEF GoodTab, Tab
<1>1. ASSUME NEW u \in Urls, Navigate(u) PROVE Session!Next
  <2>1. Session!Turn(AsPage(PushHistory(t, u)))
    BY <1>1, UpdateRefines DEF Navigate
  <2>2. Session!Visit(u)
    BY <2>1, <1>a, PushAsPage DEF Session!Visit
  <2> QED BY <2>2 DEF Session!Next
<1>2. ASSUME Back PROVE Session!Next
  <2>1. t.index > 0 /\ Session!Turn(AsPage(MoveCursor(t, t.index - 1)))
    BY <1>2, UpdateRefines DEF Back
  <2>2. Session!Back
    BY <2>1, <1>a, BackAsPage DEF Session!Back
  <2> QED BY <2>2 DEF Session!Next
<1>3. ASSUME Forward PROVE Session!Next
  <2>1. t.index < Len(t.history) - 1 /\ Session!Turn(AsPage(MoveCursor(t, t.index + 1)))
    BY <1>3, UpdateRefines DEF Forward
  <2>2. Session!Forward
    BY <2>1, <1>a, ForwardAsPage DEF Session!Forward
  <2> QED BY <2>2 DEF Session!Next
<1>4. ASSUME NewTab PROVE Session!Next
  <2>1. PushHistory(Opened(Home), Home) = Opened(Home)
    BY DEF PushHistory, Opened, TabOf
  <2>2. /\ tabs = [i \in DOMAIN tabs |-> tabs[i]] /\ next < MaxTabs
        /\ tabs' = WithTab(tabs, next, Opened(Home)) /\ active' = next /\ next' = next + 1
    BY <1>4, <2>1 DEF NewTab, TabInv
  <2>3. /\ Session!Open(DOMAIN tabs, next)
        /\ next \in (0 .. MaxTabs - 1) \ (0 .. next - 1)
    BY <2>2, OpenRefines
  <2> QED BY <2>3, <1>a DEF Session!Next
<1>5. ASSUME NEW id \in 0 .. next - 1, SwitchTab(id) PROVE Session!Next
  <2>1. Session!Select(id) /\ id \in DOMAIN pages
    BY <1>5 DEF SwitchTab, Session!Select
  <2> QED BY <2>1 DEF Session!Next
<1>6. ASSUME NEW id \in 0 .. next - 1, CloseLastTab(id) PROVE Session!Next
  <2>1. /\ Without(id) = [i \in DOMAIN Without(id) |-> tabs[i]]
        /\ DOMAIN Without(id) = DOMAIN tabs \ {id}
    BY DEF Without, Restrict
  <2>2. DOMAIN tabs = {active}
    <3>1. active \in DOMAIN tabs /\ IsFiniteSet(DOMAIN tabs) /\ Cardinality(DOMAIN tabs) <= 1
      BY <1>6 DEF CloseLastTab, TabInv, ActiveInv, ActiveIsOpen
    <3>2. Cardinality(DOMAIN tabs) = 1
      BY <3>1, FS_EmptySet, FS_CardinalityType
    <3> QED BY <3>1, <3>2, FS_Singleton
  <2>3. /\ Session!Open(DOMAIN tabs \ {id}, next)
        /\ next \in (0 .. MaxTabs - 1) \ (0 .. next - 1)
    BY <2>1, <1>6, OpenRefines DEF CloseLastTab
  <2>4. CASE id = active
    BY <2>2, <2>3, <2>4, <1>a DEF Session!Next
  <2>5. CASE id # active
    <3>1. DOMAIN tabs \ {id} = DOMAIN tabs
      BY <2>2, <2>5
    <3> QED BY <3>1, <2>3, <1>a DEF Session!Next
  <2> QED BY <2>4, <2>5
<1>7. ASSUME NEW id \in 0 .. next - 1, CloseOneTab(id)
      PROVE  [Session!Next]_(Session!vars)
  <2>1. /\ DOMAIN tabs' = DOMAIN tabs \ {id}
        /\ tabs' = [i \in DOMAIN tabs \ {id} |-> tabs[i]]
        /\ next' = next
        /\ active' \in DOMAIN tabs'
        /\ active # id => active' = active
    BY <1>7 DEF CloseOneTab, Without, Restrict, TabInv, ActiveInv, ActiveIsOpen
  <2>2. CASE id \in DOMAIN tabs
    <3>1. DOMAIN tabs # {id}
      <4>1. Cardinality({id}) = 1
        BY FS_Singleton
      <4>2. Cardinality(DOMAIN tabs) > 1
        BY <1>7 DEF CloseOneTab
      <4> QED BY <4>1, <4>2
    <3>2. [i \in DOMAIN tabs |-> AsPage(tabs[i])]' = [i \in DOMAIN pages \ {id} |-> pages[i]]
      BY <2>1
    <3>3. Session!Close(id)
      BY <3>1, <3>2, <2>1, <1>a DEF Session!Close
    <3> QED BY <3>3, <2>2, <1>a DEF Session!Next
  <2>3. CASE id \notin DOMAIN tabs
    <3>1. tabs' = tabs /\ active' = active /\ next' = next
      BY <2>1, <2>3 DEF TabInv, ActiveInv, ActiveIsOpen
    <3> QED BY <3>1 DEF Session!vars
  <2> QED BY <2>2, <2>3
<1>8. CASE UNCHANGED tabVars
  BY <1>8 DEF tabVars, Session!vars
<1> QED BY <1>1, <1>2, <1>3, <1>4, <1>5, <1>6, <1>7, <1>8 DEF TabNext, CloseTab

\* The tab the program starts with is the session's first tab.
LEMMA InitRefines == TabInit => Session!Init
<1> SUFFICES ASSUME TabInit PROVE Session!Init
  OBVIOUS
<1>1. DOMAIN tabs = {0} /\ tabs[0] = PushHistory(Opened(Welcome), Home)
      /\ active = 0 /\ next = 1
  BY DEF TabInit
<1>2. GoodTab(Opened(Welcome)) /\ AsPage(Opened(Welcome)) = Session!Page(<<>>, Welcome, <<>>)
  BY OpenedIsGood, OpenedAsPage, UrlAssumption
<1>3. AsPage(tabs[0]) = Session!Page(<<Welcome>>, Home, <<>>)
  <2>1. /\ AsPage(Opened(Welcome)).behind = <<>>
        /\ AsPage(Opened(Welcome)).onScreen = Welcome
    BY <1>2 DEF Session!Page
  <2>2. AsPage(tabs[0]) = Session!Page(Append(<<>>, Welcome), Home, <<>>)
    BY <1>1, <1>2, <2>1, PushAsPage, UrlAssumption
  <2>3. Append(<<>>, Welcome) = <<Welcome>>
    OBVIOUS
  <2> QED BY <2>2, <2>3
<1>4. 0 .. next - 1 = {0}
  BY <1>1
<1> QED BY <1>1, <1>3, <1>4 DEF Session!Init

\* TabManager implements BrowsingSession: the array and cursor of every tab
\* are its pages behind and ahead, and each command is the session's.
THEOREM SessionIsImplemented == TabSpec => ImplementsSession
BY InitRefines, StepRefines, TabInvariant, PTL DEF TabSpec, ImplementsSession
=============================================================================
