# Sentinel Browser: a verification project

TLA+ modules that model the parts of Sentinel Browser where state, order and
failure matter, TLC configurations that check them, and TLAPS proofs about each part and
about their composition. Every definition is translated from the source; `PROJECT.json` maps
each to the lines it stands for.

## 1. The system

Two threads and what is between them:

    UI thread (winit)                        core thread (tokio)
    WindowManager, TabWebViewPool            Aegis: TabManager, Vortex, storage,
      clicks, keys, URL bar, views           governance, search, security
           |  UiCommand, bounded channel (100), blocking_send  ->  |
           |  <-  UiEvent, unbounded winit queue                   |

The core handles one command at a time. It tells the UI what it did only through
events. The UI handles one event at a time, and none while it sits in
`blocking_send`.

### Inventory

| component | state | operations | hard to get right | correct when | module |
|---|---|---|---|---|---|
| TabManager (`core/src/lib.rs`) | tabs with history and cursor, active id, next id | navigate, back, forward, new, switch, close | long mixes of visits and cut-off futures; the next active tab comes from a hash map | cursor in range and at the tab's address; an active tab exists; nothing of another tab changes | `BrowsingSession`, `TabManager`, `TabManagerProofs` |
| Aegis loop (`core/src/lib.rs`, `src/main.rs`) | phase, security level, the above | boot, each `UiCommand`, the pages behind `sentinel://` | events go out in order but name no tab; a handler may fail halfway | every page reaches its tab; UI and core agree once all is quiet | `Browser`, `BrowserProofs` |
| WindowManager (`ui/src/lib.rs`) | tab strip, active tab, URL bar, badge, SOCKS port | each `UiEvent`, clicks, typing | acts on what it last heard; blocks on a full channel | badge, port, strip follow the core; it never stays blocked | `Browser`, `BrowserProofs` |
| TabWebViewPool, ContentWebView (`ui/src/tab_pool.rs`, `webview_host.rs`) | live views, recency queue, active, proxy and privacy level | switch_to, close_tab, rebuild_all, load | a build fails after others were hidden or dropped; eviction at the limit | one visible view, at most MAX_CACHED, none with an old proxy | `TabPool`, `TabPoolProofs` |
| Vortex (`network/src/lib.rs`) | settings and `network.json`, Tor client, published port, resolver | load, initialize, update_config, switch_profile, add_profile, add bridge or V2Ray | modes leave things behind; a save may fail, and precedes a failure; crashes | a published port is ours or V2Ray's; the resolver suits the mode; settings survive | `Vortex`, `VortexProofs` |
| SOCKS server (`network/src/socks.rs`) | listeners; connections; the mutex on the Tor client | accept, dial, copy; initialize and test on the same mutex | the mutex is held for the length of a tunnel | no tunnel over a replaced client; every waiter is served | `SocksServer`, `SocksServerProofs`, `Vortex` |
| V2Ray handler (`network/src/v2ray.rs`) | child process, fixed port | start | the port is published once the process is spawned, whatever becomes of it | as Vortex | `Vortex` |
| Governance (`governance/src/lib.rs`) | proposals, votes, spent nullifiers | submit, cast, queue, execute | repeated ids; a clock set back; several spellings of a nullifier | one vote per nullifier; no early or repeated execution | `Governance`, `GovernanceProofs` |
| Encrypted storage (`core/src/storage.rs`, `core/src/lib.rs`) | key file, salt, settings, tables | start-up, each page that writes | crashes between steps; loss of the key file | all that is stored can be read; choices survive; it boots | `Vault`, `VaultProofs` |
| Secure DNS (`network/src/dns.rs`) | resolver, cache | new, resolve | as Vortex | the mode's resolver is installed | `Vortex` (which resolver) |
| Pluggable transports (`pt.rs`, `pt_fetch.rs`) | `bridges.txt`, helpers | append, choose, install | bridges accumulate, one missing helper spoils all | the mode's bridge is used | `Bridges`, in `Vortex` |
| Horus search (`search/`) | index lock, DHT channel and task, pending queries | search, index_page, DHT events | late, lost and repeated answers; a lock held over a channel; merging | a search ends, takes its own answer, loses no result | `Horus`, `HorusProofs` |
| Security manager, ad blocker, update check, pages, drawing, plugins | little or none | | | | not modelled, section 8 |

Shared state: the `Arc<Mutex<..>>` fields of Vortex (Tor client, SOCKS port,
resolver), which the SOCKS tasks and the core's task use. Calls: Aegis into all
others. Callbacks: none that write; winit delivers events. Persisted: the SQLite
database, `vault.key`, `network.json`, `bridges.txt`.

## 2. The modules

A state is written with the names of the code, an action is one handler or method
with every call it makes. Operators that a comment calls *faulty* or *mutant* are
in no specification: they are variants of the definition below them, kept because
each property must be falsified by at least one of them.

**`TabManager`** has `tabs`, `active`, `next` (the three fields) and one action per
tab command. `PushHistory` is `push_history`; `CloseLastTab` and `CloseOneTab` are the
two branches of the `CloseTab` handler. The successor of a closed active tab is any
open tab, as `HashMap::keys().next()` may return any. **`BrowsingSession`** is its
abstraction: pages behind, on screen and ahead, with no array and no cursor.
`TabManager` implements it with `AsPage` as the refinement mapping.

**`TabPool`** models the pool as one record and each method as an operator from the
record before the call to the one after, so that a UI handler that makes several
calls is their composition. A view's proxy and privacy script are fixed when it is
built: both are its `setup`. A build may fail at each place where the code has `?`. `visible` is
which views were shown and not hidden since; a dropped view is not in it. `Retain` is
Vec::retain by positions: a kept entry goes to the place its count of kept predecessors
gives, with no recursion, so that the queue can be reasoned about.

**`Vortex`** has the settings in memory and on disk and what `initialize` sets:
the Tor client, the published port, the SOCKS listeners, the handle to V2Ray, the
resolver. `Initialized` and `InitializeFails` are its returns. A save may fail
(`SaveFails`): what was set in memory stays there, the file is the old one or torn, and
`update_config` returns before `initialize`, so that the links stay those of the old mode.
It may also be cut off by a crash, as `fs::write` truncates first. `InitializeV2Ray` publishes
the port as soon as the process is spawned, as the code does; whether the process serves
it is not a state here, because nothing in the code reads it. `unsaved` and `refused` are
history: a failed save that none made good, and a mode that ended in an error. It EXTENDS
**`Bridges`**, the lines of `bridges.txt`, the helpers that are found and the `route` over
which the client *in use* was bootstrapped: a bootstrap that fails leaves an earlier client,
and its route, as they are. A line is the helper it needs and whether arti reads it; the
user may edit the file and the PATH between any two steps. `Bootstraps` appends the mode's
line (or fails to, which the code does not look at) and then makes the configuration from
the file.

**`Browser`** composes the three: it EXTENDS `TabManager`, and has `Vortex` (as `Net`)
and `TabPool` (as `Views`) by INSTANCE. A command is one step of the core, ending in
the events it sent; the UI takes them one by one; so all that a user can do between
two of them is a behaviour. `LoadUrl` and `LoadHtml` carry, for the properties only,
the tab they were made for. Addresses are constants and fall into classes: `Web`,
`Onion`, `ModePages`, `ProfilePages`, `TogglePage`, and the rest, which give a page of
our own; `Bare` is text that `resolve_input` turns into an address. `Typed` is what may
stand in the URL bar for any length of time before Enter is pressed, or for ever;
`Entered` is typed and entered before the next event is handled; `Buttons` are the two
addresses the UI sends by itself (the network menu and the update page). Pages that
change the mode are reached only by typing: the UI forwards no `sentinel://` link.
`ProfilePages` name a profile of mode *p*; `SwitchesProfile` changes the mode as
`connect_switch` does, without an event. `FailsToSetMode` is an `update_config` whose save or
whose `initialize` failed: the mode is set and neither links nor events follow. `heard`
remembers how much the UI was told of the mode the core is in: mode and port, the port
only, after such a failure, or nothing, after a profile was switched to. `StartsNetwork` is
the part of `boot` that both a boot and one that fails after it have in common.

**`Governance`** has the engine's three vectors and a clock that may be set either way.
The hash is injective and a proof verifies exactly for the public inputs it was made
for. A `voter_hash` is a nullifier and a spelling of it: the engine *remembers* bytes
and *verifies* a field element, and `Bytes` and `Field` keep the two apart.

**`Vault`** has `vault.key`, the salt row, the other settings, three tables, and the
steps of `Aegis::new` with a crash possible between any two. A ciphertext is tagged
with the key and salt that made it. The two SQLite statements of a page are one
action: the state between them is the one that `OpenPage` followed by a crash leaves.

**`SocksServer`** has the connections of one server and the core's task around the
mutex on the Tor client, as a holder and a FIFO queue (tokio's mutex is fair).

**`Horus`** has one search at a time (the core awaits it), `index_page` with the lock on
the index it holds, the channel to the DHT task and that task's `pending_queries`. `live`
is Kademlia: a query under way may progress at any time, any number of times, or never.
A source answers with one of a few lists; `Merged` is the code's sort, dedup and truncate.
The sort and the dedup are stated by positions too: `InOrder` lists a finite set in a given
order by counting what goes before each member.
`heard` is history: the word whose shard the search took.

`MC*.tla` extend a module for TLC and, for `Browser`, give its address constants values.

## 3. The runs

| run | what it asks | bounds |
|---|---|---|
| `TabPool` | the queue is the views; never above the limit; one visible; the active tab has a view while there is any; no old setup; the evicted view was oldest | 4 tabs over the code's limit of 3, 2 addresses, 2 setups |
| `Vortex` | published port ours or V2Ray's; resolver suits the mode unless an error was shown; settings durable but for failed saves; a profile keeps its meaning; a bootstrap in a mode with a bridge is bridged | 1 V2Ray outbound, 2 ports of ours and V2Ray's, 1 name, 2 profiles or custom entries, Snowflake, 2 lines with 1 helper |
| `BrowserTabs` | cursor in range, no repeated entry, implements `BrowsingSession`; pages reach their tab; screen and page agree when settled; all settles | 4 commands, 5 tabs ever, cache 2, channel 1 |
| `BrowserModes` | chrome, badge, port, proxy, level and page agree when settled | 3 clicks, 4 modes and a profile, 1 port of ours and V2Ray's, failing builds, storage, saves and modes, links, a button |
| `Governance` | one vote each; only counted votes move a proposal; delay kept; executed is final | 2 ids, 2 identities, 3 proposals, 2 votes, clock to 2 |
| `Vault` | readable unless the key was lost; start-up settings readable; choices survive; it boots | 2 keys, 3 crashes, 1 loss |
| `SocksServer` | no tunnel over a replaced client; every waiter is served unless a tunnel is open for ever | 3 connections, 2 clients |
| `Horus` | a search takes its own answer; no query lost or leaked; the merge is ranked and loses nothing; every search ends | 3 searches, 2 words, a channel of 2, a list of 3 |

Four more runs end in a counterexample: they state what the repository says and the
code does not do (section 5).

**Why the bounds are enough.** They are chosen so that each interesting case occurs
at least once with one to spare: a fourth tab makes the pool evict; five tabs ever let
one be opened, closed and asked for again; three proposals on two ids make an id repeat;
two ports let the preferred and a free one be taken and a start fail (in `Browser` one does,
as which port is published makes no difference there but for V2Ray's); one name and two
entries let it be saved twice, in two modes, with either save failing; two lines let one
bridge be usable and another not; a channel of one fills with one command, the second
blocks; two keys allow one loss; three crashes allow one in each of key creation,
defaults and a page. Four commands suffice to open a tab, load it, return and close it.
Three searches let two that timed out fill the DHT's channel of two before the third,
and an answer to the first reach the third. The lists of `MCHorus` hold one page under
two titles, one page known to two sources, and more results than the list of three.

`MaxTabs`, `MaxHistory`, `MaxAdded`, `MaxProposals`, `MaxVotes`,
`MaxClock`, `MaxKeys`, `MaxCrashes`, `MaxClients`, `MaxClicks`, `MaxSearches` and
`Ephemeral` are bounds of the models; `MaxCached` and `ChannelSize` are the code's
constants, smaller in `Browser`, and `Cap` and `ChannelSize` smaller in `Horus`. Most of
what TLC finds for the parts is proved for every value (section 6).

`CHECK_DEADLOCK FALSE` stands in the Browser configurations, where the user may stop,
and in Vortex's, where a torn file does not start again.

## 4. Fairness

* `Browser`: weak fairness of `Core`, `HandleEvent`, `Unblock`: the two threads are
  scheduled, and a send that can go through does. Nothing is assumed of the user. This
  also assumes that a command ends; the code bounds a bootstrap to 60 s, and the mutex
  that `initialize` takes is the subject of `SocksServer`.
* `Vault`: weak fairness of `Boot`: a start-up that is not interrupted proceeds, and
  after a crash somebody starts the browser again (crashes are bounded, so they stop).
* `SocksServer`: tasks run and `connect` returns. Nothing is assumed of tunnels: the copy has
  no timeout, and one that stays open keeps every other connection, and `initialize`,
  waiting. `EveryWaiterIsServed` therefore says that either some tunnel is open for ever
  (`OpenForEver`) or everyone gets a turn: an open tunnel is the only thing that starves.
* `Horus`: weak fairness of `SearchStep` (each request has a timeout, tokio's mutex is
  FIFO, so a search that waits for the index goes before the next `index_page`), of
  `SendPut`, and of `TakePut \/ TakeGet`: the DHT task is polled. Kademlia may never answer.

## 5. Where the code departs from its documents

1. `VortexV2Ray`: README.md:48 promises a "Real V2Ray SOCKS outbound". With a Tor client
   left from an earlier mode, `initialize` publishes the Tor SOCKS port over V2Ray's.
2. `BrowserOnion`: README.md:15, `.onion` takes the "SOCKS path". A view that `switch_to`
   builds or recalls loads its address with the pool's current proxy, possibly none.
3. `BrowserRestore`: README.md:14, modes rebuild with "URL restored". The address restored
   is the one the pool remembers, not where a link led.
4. `VortexBridges`: network/src/pt.rs:118, the default configuration is taken "when nothing
   usable is configured". One line without its helper makes it be taken although another
   bridge is usable.

Seen while modelling, not runs of their own:
* A `CloseTab` for an id that is already gone opens a tab when one is left
  (core/src/lib.rs:543, "Keep at least one tab"). `CloseLastTab` does the same.
* After a switch to V2Ray, `SocksReady` rebuilds the views without a proxy (it knows Tor
  only, ui/src/lib.rs:199); a link followed then goes directly under a V2Ray badge.
* README's per-host allowlist is written and never read (`allowed` in `Vault`).
* `connect_switch` changes the mode without telling the UI: badge, port and proxy stay the
  old mode's until a mode is announced (`heard` is "nothing").
* `update_config` sets the mode before it saves it, and saves it before it initializes it. After
  a failed save the mode is new, and resolver, port and badge are the old one's: Direct
  mode with the resolver over Tor among others (`refused` in `ResolverInv`, `heard` in
  `ModeAgreesInv`). A profile whose save failed is listed and lost at the next start, or
  written after all by a later save (`unsaved` in `SettingsAreDurable`).
* After a failed bootstrap in a mode with a bridge an earlier, direct client stays in use.
* V2Ray's port is published when its process is spawned and stays published when that exits.
* A core that fails in `boot` leaves the window, with whatever it was told, and no core.
* governance/src/lib.rs:258 says one vote per identity and proposal. The engine compares
  the bytes of nullifiers; another 32 bytes for the same field element count as another
  nullifier. `OneVoteEachInv` is stated per spelling for that reason.
* search/src/ahmia.rs:2 and docs/ARCHITECTURE.md:13 say Ahmia is asked over Tor; a search
  over Tor that fails or finds nothing is repeated at ahmia.fi over the clear net (line 41).
* Horus is given the Tor client before the network is initialized (core/src/lib.rs:309),
  so it never has one.
* Shards are filed under the bytes of an address and looked up under the hash of a word:
  a search finds none on disk. A `Put` is acknowledged though the disk write failed.
* A page that is crawled again is added to the index again; the copies count against the
  twenty local results before they are merged.

## 6. What is proved

**`TabManagerProofs`**, from `UrlAssumption` and `BoundAssumption`, for any addresses and
any bounds. The inductive invariant `TabInv` says of every tab that it is a `GoodTab`
(types, cursor in range, address under the cursor, no repeated neighbours), of identities
that they are below `next`, and that the active one is open. The type invariant is not
inductive by itself: `Back` indexes the history, so it needs the cursor. Lemmas say what
`PushHistory`, `MoveCursor` and `Opened` make of a good tab. From `TabInv` follow
`TypeCorrect`, `CursorIsValid`, `HistoryNeverRepeats`, `ActiveTabIsOpen`, and the
refinement `SessionIsImplemented`: each action maps to one of the session's, or to a
stutter, through lemmas on how `SubSeq` splits at the cursor.

**`GovernanceProofs`**, from `TimelockAssumption`, `BuiltInAssumption`, `ZeroAssumption` and
`BoundAssumption`, for any ids, identities, timelock and behaviour of the clock. `GovInv`
joins `GovTypeOK`, `OneVoteEachInv` and `MovedByVoteInv`. `ProofsExplainNullifiers` says that
a vote that verifies has a nullifier that is no `Zero`. `ExecutesAfterDelay` and
`ExecutedIsFinal` are action properties proved from `GovInv`: the release time is that of the
last counted vote on the id plus the timelock, and the first proposal of an id is the only
one that moves.

**`HorusProofs`**, from `HorusAssumption`, for any words, any answers and any bounds.
`OwnAnswerInv` is not inductive: an answer is taken when its receiver is the waiting
search's, so every receiver must have one word. `HorusIInv` adds `ControlOK` (the types of
the control part) and `QueriesAgree`: whatever is in the channel or the table was asked by
this search or an earlier one, and by this one only for its word. `SearchTakesItsOwnAnswer`
and `NoQueryIsLost` follow; lemmas say what Append and Tail do to the range of the channel.
A second invariant on top of it, `HorusLInv`, has the lists and the rest of the types, and
gives `HorusTypesHold` and `MergeIsRanked`. What it needs of the data is proved without
induction: `InOrderIsRank` (counting numbers a finite set in any strict total order, one to
one), `GoesFirstOrders` (score, then title, then place is such an order), `SortedIsRanked`,
`RunHasHead` (every place is in a run whose head is kept), `NeighboursDiffer` and
`TruncatedIsPrefix`, joined in `MergedMerges`. That titles are compared like numbers and that
sources answer with lists of results is what the assumption says of the data.

**`VortexProofs`**, from `VortexAssumption`, `BoundAssumption` and `BridgesAssumption`, for any
protocols, ports, profiles, lines and helpers. `VortexIInv` adds to the checked invariants
`Quiet` (a process that is down publishes nothing, which is why a failed start publishes
nothing either), `ListenInv` (our servers were started with a Tor client and keep it) and
`SavedInv`: the file is absent, torn, or has what the process had before the saves that
failed, which is a prefix of its profiles and no more custom entries, and exactly what it has
when no save failed. `StartedSocksIsOurs` is the core: whatever is published before the
listeners are touched must be ours already, because a start that finds no free port leaves
it published. From the invariant follow `VortexTyped`, `PublishedPortIsOurs`,
`ResolverSuitsTheMode`, `SettingsLast`, `NamesLast` and `BridgesAreTaken`. Three of them have to
name what a failed save costs, for that is what the code does: the resolver suits a mode
that was taken without an error, settings last from the last save that succeeded, and a
name keeps its meaning over a restart if it was saved.

**`VaultProofs`**, from `MaxKeysAssumption`, `MaxCrashesAssumption` and `NoneAssumption`.
`ReadableInv` is not inductive: a key is made and a salt is drawn only when nothing is stored
(`EmptyInv`), and whoever is past `unlock` has the cipher of the file and the salt
(`StageInv`). `DefaultsInv` says which defaults each stage has behind it; it gives
`StartupSettingsAreReadable` after a loss too. `StoredIsReadable` and `StartsKeepChoices`
follow: a setting that lacks is one that is missing, for what is there is readable.

**`SocksServerProofs`**, from `CoreAssumption` and `HolderAssumption`, for any number of
connections and clients. `HoldersHold`: whoever dials or copies holds the mutex, the core's
test too; so the client is replaced only when nothing is dialled.

**`TabPoolProofs`**, from `PoolAssumption`, for any tabs, addresses, setups and limit, in three
invariants. `Sound` (one view at most is seen, all views have one setup) is kept by each
method whatever the queue holds and whoever is evicted: `OneIsVisible`, `SetupIsShared`.
`PoolInv` is the other: the pool is `WellFormed` (the code's types, and a queue that holds
each live view once) and `Small`. Eviction looks for its victim in the queue, so the limit
is inductive only together with the queue: a queue that missed a view, or named one twice,
would let the pool grow. `PlaceIsRank` and `RetainedQueue` say what `Retain` keeps;
`PoolTypesHold`, `QueueNamesEachView`, `CapacityIsKept` and `OldestIsEvicted` follow. `Alive` is
inductive with `WellFormed`: a switch evicts some other view than the one it shows, and a close
names the most recent that remains, which the queue knows; it gives `ActiveIsAlive`.

**`BrowserProofs`** is the composition, for any addresses, modes, profiles, level toggles,
failing builds and bounds, from `AddressAssumption`, `ModeAssumption`, `UrlAssumption` and
`BoundAssumption`. What the runs check of it speaks of the moment when nothing is under way;
such a statement is far from inductive, for the core and the UI are never in that state
together while they work. `BrowserInv` therefore speaks of the queue of events: *for each part of
the UI, the newest message under way that touches it is right, and when none is under way
the part itself is.*
* `StripInv`, `LevelInv`, `PortInv` and `BadgeInv` say so of the tab strip, the privacy level, the
  SOCKS port and the badge. `Told` is the newest message of some kinds, `Quiet` that there is
  none.
* `PageInv` says so of the page on screen. Six kinds of messages change what a view shows, so
  the newest of them all must be the page of the active tab, and a list of tabs behind it
  (`Trailing`) must name the same tab.
* `ProxyInv` says so of the proxy: once no such message is under way, the views have the proxy
  that the address of a web tab and the mode ask for.
* `ScreenInv` has `Arrives`: each page in the queue comes to the tab it was made for, if the lists of
  tabs before it are followed. This is the whole of `PagesReachTheirTab`, as messages
  name no tab.
* The rest is types, the pool's `WellFormed`, `Sound` and `Small`, `TabInv` of the tabs, and `BootInv`: a core
  that is not up has said nothing, published nothing and has its first tab at home.

The proof has three parts. `News` and `Report` are what each handler of the core is shown to say:
whatever it changed it also said, and the page of the active tab comes last. A report
appended to the queue keeps the invariant, whoever made it; `StartNews` is the report of a
start, which a start that fails later has made too. `Drawn` is what each handler of the UI
is shown to make of the first message, with the lemmas of `TabPoolProofs` on what the pool's
methods show, keep and hide. The theorems are `BrowserTypesHold`, `ChromeAgrees`,
`ActiveTabIsOnScreen`, `PageAgrees`, `ModeAgrees`, `ProxyAgrees` and `PagesArrive`; `BrowserCursorIsValid`,
`BrowserNeverRepeats` and `BrowserIsASession` carry over what `TabManagerProofs` shows of the tabs
alone to a core whose commands name tabs of some time ago. In the same way `PoolIsKept` carries
the queue, the limit, the one visible view and the shared setup over to the pool in the
hands of the UI, whose handlers call several methods in one step and go on after a failed one.

The proof corrected four statements. `OnScreenInv` and `PagesReachTheirTab` hold as long as views
can be built (a failed build leaves the pool without an active view until the next message).
`ModeAgreesInv` allows the views the first level while the level is still the stored one, for
no view is told of it at a start, and it needs `heard`: after a mode that was taken with an
error the badge names the old one, and after a switch on the connect page the port is the
old one too. `ProxyAgreesInv` is about the port the core published and the mode it is in, so
it leaves out that silent switch, and it speaks of the tab at a web address, whose view
was set for it; one on a page of our own keeps the proxy it was built with.

**Only model-checked:** liveness (`Settles`, `VaultBoots`, `EveryWaiterIsServed`, `SearchEnds`), because
the prover does not handle fairness and ENABLED. Every invariant and every action property
that a passing run checks, and the refinement, is proved. No module declares a RECURSIVE
operator.

## 7. Plan

Built in this order: `TabManager` and its abstraction, since every command goes through
it; `TabPool` and `Vortex`, the two parts it meets; `Browser`, their composition;
`Governance`; `Vault`; `SocksServer`; `Bridges`, inside `Vortex`; profiles in `Browser`;
`Horus`. Left for the model, in this order: the spelling of nullifiers as a run of its own;
power loss (unsynced writes) in `Vault`; the crawler, with the index's single writer.

Left for the proofs: the one-vote lemma for several spellings of a nullifier; what the further
modules above bring.

## 8. Not modelled

* A UI whose first view cannot be built (`ui/src/lib.rs:132-135`): it has no pool and shows nothing.
* Whether the V2Ray child serves the port it was given: `v2ray.rs` returns as soon as it is
  spawned. The model says which program a port was published for, and no more.
* The rest of search: the crawler, the text index and its writer, shards on disk (no search
  finds them), how an answer is parsed; third-party engines and I/O.
* `fetch`, `download` and `connect_stream` of Vortex with their connection counter: nothing
  in the program calls them.
* Security manager: job object, software vault and ML-KEM are system calls, or not called.
* Ad blocker: a pure filter; the modelled addresses are ones it lets through.
* DNS lookups and their cache: no page is resolved through them.
* Update check, page templates, drawing, plugins: no state that others depend on.
* Periodic suspension of tabs and telemetry: nothing a user sees depends on it.
* Commands nobody sends: `ChangeNetwork`, `AddBridge`, `AddV2Ray`, `SetProxyMode`, `SetPrivacy`.
* What a WebView engine does inside a page: a followed link changes the page and nothing
  else; requests are not modelled, only the proxy they would go through.
