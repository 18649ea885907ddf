----------------------------- MODULE TabManager -----------------------------
(***************************************************************************)
(* core/src/lib.rs: TabManager, and what each tab command of the Aegis     *)
(* command loop does to it.  Every action below is one whole handler of    *)
(* run_loop: the TabManager calls it makes, in order, and the assignments  *)
(* navigate() makes to the active tab.                                     *)
(*                                                                         *)
(* Titles follow from addresses and are left out.  So are last_active and  *)
(* is_suspended: only suspend_inactive_tabs reads them, and it writes      *)
(* nothing that the commands read.                                         *)
(***************************************************************************)
EXTENDS Naturals, Sequences, FiniteSets, Functions

CONSTANTS
  Urls,        \* every address a tab can hold
  Home,        \* sentinel://home
  Welcome,     \* sentinel://welcome
  MaxTabs,     \* bound: how many tabs are ever created
  MaxHistory   \* bound: the longest history a tab grows to

ASSUME UrlAssumption == {Home, Welcome} \subseteq Urls /\ Home # Welcome
ASSUME BoundAssumption == MaxTabs \in Nat \ {0} /\ MaxHistory \in Nat \ {0, 1}

VARIABLES
  tabs,    \* TabManager.tabs: id -> Tab
  active,  \* active_tab_id
  next     \* next_tab_id

tabVars == <<tabs, active, next>>

Tab == [url : Urls, history : Seq(Urls), index : Nat]

TypeOK ==
  /\ DOMAIN tabs \subseteq Nat
  /\ tabs \in [DOMAIN tabs -> Tab]
  /\ active \in Nat
  /\ next \in Nat

-----------------------------------------------------------------------------
(* What the methods of TabManager do to one tab. *)

TabOf(u, entries, i) == [url |-> u, history |-> entries, index |-> i]

Opened(u) == TabOf(u, <<u>>, 0)

\* Faulty variants of push_history: the future is not cut off, or u is compared
\* with the last entry of all.
PushKeepsFuture(t, u) == TabOf(u, Append(t.history, u), t.index + 1)

PushComparesLast(t, u) ==
  LET kept == SubSeq(t.history, 1, t.index + 1) IN
  IF t.history[Len(t.history)] = u
    THEN TabOf(u, t.history, Len(t.history) - 1)
    ELSE TabOf(u, Append(kept, u), Len(kept))

\* push_history: what was ahead is cut off even when u is already the last entry.
PushHistory(t, u) ==
  LET kept == SubSeq(t.history, 1, t.index + 1) IN
  IF kept[Len(kept)] = u
    THEN TabOf(u, kept, t.index)
    ELSE TabOf(u, Append(kept, u), Len(kept))

MoveCursor(t, i) == TabOf(t.history[i + 1], t.history, i)

Without(id) == Restrict(tabs, DOMAIN tabs \ {id})

WithTab(m, id, t) == [i \in DOMAIN m \union {id} |-> IF i = id THEN t ELSE m[i]]

-----------------------------------------------------------------------------
\* Aegis::new opens Welcome and boot() navigates to Home before the loop.
TabInit ==
  /\ tabs   = [i \in {0} |-> PushHistory(Opened(Welcome), Home)]
  /\ active = 0
  /\ next   = 1

ActiveIsOpen == active \in DOMAIN tabs

UpdateActive(t) ==
  /\ tabs' = [tabs EXCEPT ![active] = t]
  /\ UNCHANGED <<active, next>>

Navigate(u) ==
  /\ ActiveIsOpen
  /\ tabs[active].index + 1 < MaxHistory
  /\ UpdateActive(PushHistory(tabs[active], u))

\* A faulty Back: the index is decremented without looking at it.
BackUnguarded ==
  /\ ActiveIsOpen
  /\ UpdateActive(TabOf(tabs[active].url, tabs[active].history, tabs[active].index - 1))

Back ==
  /\ ActiveIsOpen
  /\ tabs[active].index > 0
  /\ UpdateActive(MoveCursor(tabs[active], tabs[active].index - 1))

Forward ==
  /\ ActiveIsOpen
  /\ tabs[active].index < Len(tabs[active].history) - 1
  /\ UpdateActive(MoveCursor(tabs[active], tabs[active].index + 1))

\* create_tab, then navigate(Home, true), which finds Home already on top.
NewTab ==
  /\ next < MaxTabs
  /\ tabs'   = WithTab(tabs, next, PushHistory(Opened(Home), Home))
  /\ active' = next
  /\ next'   = next + 1

SwitchTab(id) ==
  /\ id \in DOMAIN tabs
  /\ active' = id
  /\ UNCHANGED <<tabs, next>>

\* With one tab left the handler closes `id` and opens a Home tab, without
\* asking whether `id` is that one tab.
CloseLastTab(id) ==
  /\ Cardinality(DOMAIN tabs) <= 1
  /\ next < MaxTabs
  /\ tabs'   = WithTab(Without(id), next, Opened(Home))
  /\ active' = next
  /\ next'   = next + 1

\* A faulty close: a successor is chosen whichever tab was closed.
CloseMovesActive(id) ==
  /\ Cardinality(DOMAIN tabs) > 1
  /\ tabs' = Without(id)
  /\ active' \in DOMAIN tabs \ {id}
  /\ UNCHANGED next

\* The successor of a closed active tab is HashMap::keys().next(): any of them.
CloseOneTab(id) ==
  /\ Cardinality(DOMAIN tabs) > 1
  /\ tabs' = Without(id)
  /\ active' \in IF active = id THEN DOMAIN tabs \ {id} ELSE {active}
  /\ UNCHANGED next

CloseTab(id) == CloseLastTab(id) \/ CloseOneTab(id)

\* The UI names tabs it was told about earlier: any id handed out so far.
TabNext ==
  \/ \E u \in Urls : Navigate(u)
  \/ Back
  \/ Forward
  \/ NewTab
  \/ \E id \in 0 .. next - 1 : SwitchTab(id)
  \/ \E id \in 0 .. next - 1 : CloseTab(id)

TabSpec == TabInit /\ [][TabNext]_tabVars

-----------------------------------------------------------------------------
\* A tab's cursor is inside its history and its address is the entry under
\* the cursor, so Back and Forward never index out of range (lines 257-279)
\* and Refresh reloads what the cursor points at.
CursorInv ==
  \A i \in DOMAIN tabs :
    /\ tabs[i].index < Len(tabs[i].history)
    /\ tabs[i].url = tabs[i].history[tabs[i].index + 1]

\* Back and Forward always change the page: no entry repeats the one before
\* it, whatever mix of visits, Back and cut-off futures produced the history.
NoRepeatInv ==
  \A i \in DOMAIN tabs : \A k \in 1 .. Len(tabs[i].history) - 1 :
    tabs[i].history[k] # tabs[i].history[k + 1]

\* Identities are handed out once, and the active identity is always an open
\* tab: a close of any tab, in any order, of an id already closed too, never
\* leaves the command loop without a tab to navigate.
ActiveInv ==
  /\ ActiveIsOpen
  /\ \A i \in DOMAIN tabs : i < next

\* A tab as BrowsingSession sees it: the array split at the cursor.
AsPage(t) ==
  [behind   |-> SubSeq(t.history, 1, t.index),
   onScreen |-> t.url,
   ahead    |-> SubSeq(t.history, t.index + 2, Len(t.history))]

Session == INSTANCE BrowsingSession WITH
  Ids   <- 0 .. MaxTabs - 1,
  pages <- [i \in DOMAIN tabs |-> AsPage(tabs[i])],
  shown <- active,
  used  <- 0 .. next - 1

\* The array and cursor of every tab behave as the pages behind and ahead of
\* the page on screen, and closing, opening and switching as a session's.
ImplementsSession == Session!Init /\ [][Session!Next]_(Session!vars)
=============================================================================
