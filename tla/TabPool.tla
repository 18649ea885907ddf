------------------------------- MODULE TabPool -------------------------------
(***************************************************************************)
(* ui/src/tab_pool.rs: TabWebViewPool, the few live WebViews behind the    *)
(* tab strip, and ContentWebView::build (ui/src/webview_host.rs), which    *)
(* may fail.  Each method is an operator from the pool before the call to  *)
(* the pool after it, so that an event handler of the UI that makes several *)
(* calls is their composition; here every method is an action of its own.  *)
(*                                                                         *)
(* The privacy script and the proxy of a view are fixed when it is built;  *)
(* both are its `setup`.                                                   *)
(***************************************************************************)
EXTENDS Naturals, Sequences, FiniteSets, SequencesExt

CONSTANTS
  TabIds,      \* identities the core gives to tabs
  Addresses,   \* what a tab's address can be
  Web,         \* the http(s) ones: a view loads these by itself
  Setups,      \* proxy and privacy level a view is built with
  FirstSetup,  \* those of the view made at start-up
  MaxCached,   \* MAX_CACHED
  Blank,       \* what a view shows that no address stands for
  None         \* no active tab

ASSUME PoolAssumption ==
  /\ Web \subseteq Addresses
  /\ Blank \notin Addresses
  /\ None \notin TabIds
  /\ FirstSetup \in Setups
  /\ MaxCached \in Nat \ {0}

VARIABLE pool

\* slots: tab -> its live view; lru: those tabs, least recently used first;
\* current: `active`; setup: socks_port and privacy; visible: the views not hidden.
Pool(slots, lru, current, setup, visible) ==
  [slots |-> slots, lru |-> lru, current |-> current, setup |-> setup, visible |-> visible]

View == [setup : Setups, lastUrl : Addresses \union {Blank}, page : Addresses \union {Blank}]

PoolTypeOK ==
  /\ DOMAIN pool = {"slots", "lru", "current", "setup", "visible"}
  /\ DOMAIN pool.slots \subseteq TabIds
  /\ pool.slots \in [DOMAIN pool.slots -> View]
  /\ pool.lru \in Seq(TabIds)
  /\ pool.current \in TabIds \union {None}
  /\ pool.setup \in Setups
  /\ pool.visible \subseteq DOMAIN pool.slots

Cached(p) == DOMAIN p.slots

\* active() and active_mut() return a view.
HasActive(p) == p.current \in Cached(p)

-----------------------------------------------------------------------------
(* Views. *)

ViewOf(setup, lastUrl, page) == [setup |-> setup, lastUrl |-> lastUrl, page |-> page]

\* build(): an http(s) address is loaded, anything else leaves the grey page.
Built(setup, url) == ViewOf(setup, url, IF url \in Web THEN url ELSE Blank)

Showing(v, lastUrl, page) == ViewOf(v.setup, lastUrl, page)

WithView(slots, id, v) == [i \in DOMAIN slots \union {id} |-> IF i = id THEN v ELSE slots[i]]

WithoutViews(slots, gone) == [i \in DOMAIN slots \ gone |-> slots[i]]

-----------------------------------------------------------------------------
(* The recency queue. *)

\* What position i of a queue becomes when only the positions in `kept` stay.
Place(kept, i) == Cardinality({j \in kept : j <= i})

\* retain: the queue without `gone`, the others in their order.
Retain(lru, gone) ==
  LET kept == {i \in DOMAIN lru : lru[i] \notin gone} IN
  IF kept = DOMAIN lru
    THEN lru
    ELSE [k \in 1 .. Cardinality(kept) |-> lru[CHOOSE i \in kept : Place(kept, i) = k]]

\* A faulty touch: the old place in the queue stays.
TouchAgain(lru, id) == Append(lru, id)

Touch(lru, id) == Append(Retain(lru, {id}), id)

\* A faulty limit: `>=` for `>`.
FitsOneMore(ids) == Cardinality(ids) <= MaxCached + 1

Fits(ids) == Cardinality(ids) <= MaxCached

\* A faulty choice: from the back of the queue.
VictimsNewest(lru, keep) ==
  {lru[k] : k \in {k \in 1 .. Len(lru) :
     lru[k] # keep /\ \A j \in k + 1 .. Len(lru) : lru[j] = keep}}

\* The first in the queue other than `keep`, if there is one.
Victims(lru, keep) ==
  {lru[k] : k \in {k \in 1 .. Len(lru) :
     lru[k] # keep /\ \A j \in 1 .. k - 1 : lru[j] = keep}}

\* evict_if_needed.  One view at most is over the limit, as one was added.
Evicted(p, keep) ==
  LET gone == Victims(p.lru, keep) IN
  IF Fits(Cached(p))
    THEN p
    ELSE Pool(WithoutViews(p.slots, gone), Retain(p.lru, gone), p.current, p.setup,
              p.visible \ gone)

-----------------------------------------------------------------------------
(* The methods. *)

\* TabWebViewPool::new around a view built for tab `id`.
NewPool(id) ==
  Pool([i \in {id} |-> Built(FirstSetup, Blank)], <<id>>, id, FirstSetup, {id})

\* switch_to the active tab: its view is shown, whatever it holds.
Reshown(p, id) == Pool(p.slots, p.lru, id, p.setup, p.visible \union {id})

\* Faulty switches to a cached view: without hide_all, or returning before
\* `active` is set.
RecalledOver(p, id, url) ==
  Pool(p.slots, Touch(p.lru, id), id, p.setup, p.visible \union {id})

RecalledInactive(p, id, url) == Pool(p.slots, Touch(p.lru, id), p.current, p.setup, {id})

\* switch_to a cached view: reload it if the core's address drifted away.
Recalled(p, id, url) ==
  LET v == p.slots[id]
      drifted == v.lastUrl # url /\ url \in Web
  IN  Pool(IF drifted THEN WithView(p.slots, id, Showing(v, url, url)) ELSE p.slots,
           Touch(p.lru, id), id, p.setup, {id})

\* A faulty build: with the setup of the first view, not the pool's.
AddedAsFirst(p, id, url) ==
  Evicted(Pool(WithView(p.slots, id, Built(FirstSetup, url)),
               Touch(p.lru, id), id, p.setup, {id}), id)

\* switch_to a tab without a view: build one, then evict.
Added(p, id, url) ==
  Evicted(Pool(WithView(p.slots, id, Built(p.setup, url)),
               Touch(p.lru, id), id, p.setup, {id}), id)

Switched(p, id, url) ==
  CASE id \in Cached(p) /\ p.current = id -> Reshown(p, id)
    [] id \in Cached(p) /\ p.current # id -> Recalled(p, id, url)
    [] id \notin Cached(p)                -> Added(p, id, url)

\* A faulty order: the views are hidden only once the new one is built.
SwitchFailedShowsOld(p) == p

\* The build failed: every view is already hidden, and the old tab stays active.
SwitchFailed(p) == Pool(p.slots, p.lru, p.current, p.setup, {})

\* A faulty close: the active tab is not replaced when it goes.
ClosedKeepsActive(p, gone) ==
  Pool(WithoutViews(p.slots, gone), Retain(p.lru, gone), p.current, p.setup, p.visible \ gone)

\* close_tab for each of `gone`.  When the active tab goes, the most recently
\* used survivor becomes active and is shown.
Closed(p, gone) ==
  LET left == Retain(p.lru, gone)
      heir == IF left = <<>> THEN None ELSE Last(left)
  IN  IF p.current \in gone
        THEN Pool(WithoutViews(p.slots, gone), left, heir, p.setup,
                  (p.visible \ gone) \union ({heir} \ {None}))
        ELSE Pool(WithoutViews(p.slots, gone), left, p.current, p.setup, p.visible \ gone)

\* rebuild_all: drop every view, then build one with the new setup.
Rebuilt(setup, url, id) ==
  Pool([i \in {id} |-> Built(setup, url)], <<id>>, id, setup, {id})

\* The build failed: no view is left, and the active tab still names one.
RebuildFailed(p, setup) == Pool([i \in {} |-> Blank], <<>>, p.current, setup, {})

\* load_url_active, load_html_active and an assignment to the active view's
\* last_url: nothing happens without an active view.
Show(p, lastUrl, page) ==
  IF HasActive(p)
    THEN Pool(WithView(p.slots, p.current, Showing(p.slots[p.current], lastUrl, page)),
              p.lru, p.current, p.setup, p.visible)
    ELSE p

-----------------------------------------------------------------------------
PoolInit == \E id \in TabIds : pool = NewPool(id)

SwitchTo(id, url) == pool' = Switched(pool, id, url)

SwitchToFails(id) ==
  /\ id \notin Cached(pool)
  /\ pool' = SwitchFailed(pool)

CloseViews(gone) ==
  /\ gone # {}
  /\ pool' = Closed(pool, gone)

RebuildAll(setup, url, id) == pool' = Rebuilt(setup, url, id)

RebuildAllFails(setup) == pool' = RebuildFailed(pool, setup)

LoadUrlActive(url) == pool' = Show(pool, url, url)

LoadHtmlActive(page, bar) == pool' = Show(pool, bar, page)

PoolNext ==
  \/ \E id \in TabIds, url \in Addresses : SwitchTo(id, url)
  \/ \E id \in TabIds : SwitchToFails(id)
  \/ \E gone \in SUBSET Cached(pool) : CloseViews(gone)
  \/ \E setup \in Setups, url \in Addresses, id \in TabIds : RebuildAll(setup, url, id)
  \/ \E setup \in Setups : RebuildAllFails(setup)
  \/ \E url \in Web : LoadUrlActive(url)
  \/ \E page \in Addresses \ Web, bar \in Addresses : LoadHtmlActive(page, bar)

PoolSpec == PoolInit /\ [][PoolNext]_pool

-----------------------------------------------------------------------------
\* The recency queue names each live view once and nothing else: eviction
\* (line 90) never looks for a view that is gone and never overlooks one.
QueueInv ==
  /\ ToSet(pool.lru) = Cached(pool)
  /\ Len(pool.lru) = Cardinality(Cached(pool))

\* At most MAX_CACHED views live at any moment between two calls, whatever
\* mix of switches, closes and failed builds came before.
CapacityInv == Cardinality(Cached(pool)) <= MaxCached

\* No two views are drawn over each other: what can be seen is the view that
\* load_url_active and load_html_active would change.
OneVisibleInv == pool.visible \subseteq {pool.current}

\* Pages and addresses go nowhere (lines 172 and 181) only when no view is left
\* at all: as long as one lives, the active tab has a view to put them in, whatever
\* was closed and whichever builds failed.
ActiveIsAliveInv == Cached(pool) # {} => HasActive(pool)

\* No view outlives a change of proxy or of privacy level: a tab kept in the
\* cache can never come back with the setup of an earlier mode.
SameSetupInv == \A id \in Cached(pool) : pool.slots[id].setup = pool.setup

\* A view evicted to make room was used before every view that stays.
EvictsOldest ==
  [][Cached(pool') \subseteq Cached(pool) \/
       \A gone \in Cached(pool) \ Cached(pool'), kept \in Cached(pool) \intersect Cached(pool') :
         \E j, k \in 1 .. Len(pool.lru) :
           j < k /\ pool.lru[j] = gone /\ pool.lru[k] = kept]_pool
=============================================================================
