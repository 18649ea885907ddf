------------------------------- MODULE Browser -------------------------------
(***************************************************************************)
(* The browser: the core thread (Aegis, core/src/lib.rs), the UI thread    *)
(* (ui/src/lib.rs) and what is between them, the bounded channel of        *)
(* commands of src/main.rs and the unbounded queue of UiEvents of winit.   *)
(* It composes TabManager, Vortex and TabPool.                             *)
(*                                                                         *)
(* One command is one step of the core: the UI sees what a handler did     *)
(* through the events it sent, in order and one at a time, so everything   *)
(* the user can do between two of those events is a behaviour here.        *)
(***************************************************************************)
EXTENDS TabManager, TLC

CONSTANTS
  Web, Onion,        \* http(s) addresses, and those of them that hold ".onion"
  ModePages,         \* sentinel://network?type=...: address -> the protocol asked for
  ProfilePages,      \* sentinel://connect_switch?name=...: address -> its protocol
  TogglePage,        \* sentinel://toggle_security, or None
  Flaky,             \* addresses whose page storage may fail to produce
  Typed,             \* what the user types in the URL bar, to be entered later or never
  Entered,           \* addresses typed and entered before the next event arrives
  Bare,              \* text that is no address: text -> the address it stands for
  Buttons,           \* addresses behind buttons: the network menu, the update
  Links,             \* addresses a page on screen may link to
  StoredMode,        \* the protocol in network.json at start
  StoredLevel,       \* the security level in the database at start
  BuildMayFail,      \* whether WebViewBuilder may fail
  MaxCached,         \* MAX_CACHED
  ChannelSize,       \* capacity of the command channel, 100
  MaxClicks,         \* bound: commands the user gives
  Blank,             \* what a view shows that no address stands for
  None,
  Tor, Clear, Unsupported, Configs, V2RayReady, Preferred, Ephemeral, V2RayPort

VARIABLES
  phase,     \* of the core: "booting", "up", or "dead"
  protocol, torUp, port, listeners, v2ray, dns,   \* Vortex
  heard,     \* history: what the UI has heard of the mode the core is in: "mode" and
             \* port, the "port", or "nothing" since a profile was switched to
  level,     \* the stored security level
  commands,  \* the channel, oldest first
  waiting,   \* the command of a UI thread inside blocking_send, or None
  events,    \* UiEvents on their way
  strip,     \* the tabs the UI draws
  shown,     \* active_tab_id of the UI
  bar,       \* url_bar_buffer
  label,     \* network_label
  uiPort,    \* socks_port of the UI
  pool,      \* TabWebViewPool
  clicks     \* commands given so far

linkVars == <<torUp, port, listeners, v2ray, dns>>
netVars  == <<protocol, linkVars>>
modeVars == <<netVars, heard>>
coreVars == <<tabVars, phase, modeVars, level>>
viewVars == <<strip, shown, label, uiPort, pool>>
uiVars   == <<viewVars, bar>>
vars     == <<coreVars, commands, waiting, events, uiVars, clicks>>

Levels == {"Standard", "Strict", "Paranoid"}
Ports  == {Preferred, V2RayPort} \union Ephemeral
Setup(socks, l) == [socks |-> socks, level |-> l]

Net == INSTANCE Vortex WITH
  Names <- {}, MaxAdded <- 0, Absent <- "absent", Torn <- "torn",
  running <- phase # "dead", profiles <- <<>>, custom <- 0,
  disk <- "absent", unsaved <- FALSE, refused <- FALSE,
  Bridged <- {}, Lines <- {}, LineOf <- <<>>, Needs <- <<>>, Parses <- {}, Bundled <- {},
  bridges <- {}, helpers <- {}, route <- "direct"

Views == INSTANCE TabPool WITH
  TabIds <- 0 .. MaxTabs - 1, Addresses <- Urls \union DOMAIN Bare,
  Setups <- {Setup(s, l) : s \in Ports \union {None}, l \in Levels},
  FirstSetup <- Setup(None, "Standard")

Texts == Urls \union DOMAIN Bare   \* what the URL bar may hold

\* Pages of our own are not web pages.
ASSUME AddressAssumption ==
  /\ Onion \subseteq Web /\ Web \subseteq Urls /\ Buttons \subseteq Urls
  /\ Typed \union Entered \union Links \subseteq Texts
  /\ Blank \notin Texts
  /\ Web \intersect ({Home, TogglePage} \union DOMAIN ModePages \union DOMAIN ProfilePages) = {}

ASSUME ModeAssumption ==
  /\ {ModePages[u] : u \in DOMAIN ModePages} \subseteq Net!Protocols
  /\ {ProfilePages[u] : u \in DOMAIN ProfilePages} \subseteq Net!Protocols
  /\ StoredMode \in Net!Protocols /\ StoredLevel \in Levels
  /\ Tor # Clear /\ {Tor, Clear, Unsupported} \intersect Configs = {}
  /\ Unsupported \notin {Tor, Clear}
  /\ None \notin Ports \union 0 .. MaxTabs - 1
  /\ MaxCached \in Nat \ {0} /\ ChannelSize \in Nat \ {0}

-----------------------------------------------------------------------------
(* UiEvents.  Pages carry the tab they were made for, which the program's   *)
(* LoadUrl and LoadHtml do not: only the properties look at it.             *)

\* list_tabs: the address of every tab.
ListTabs == [i \in DOMAIN tabs' |-> tabs'[i].url]

\* A faulty list: taken before the handler changes the active tab.
TabsChangedEarly == [kind |-> "Tabs", urls |-> ListTabs,
                     active |-> IF active \in DOMAIN tabs' THEN active ELSE active']

TabsChanged == [kind |-> "Tabs", urls |-> ListTabs, active |-> active']

SetUrlBar(u)      == [kind |-> "Bar", url |-> u]
LoadUrl(u)        == [kind |-> "Url", url |-> u, tab |-> active']
LoadHtml(u)       == [kind |-> "Html", url |-> u, tab |-> active']
StatusChanged(p)  == [kind |-> "Status", protocol |-> p]
SocksReady(p)     == [kind |-> "Socks", port |-> p]
PrivacyUpdated(l) == [kind |-> "Privacy", level |-> l]
ConfigError       == [kind |-> "Error"]

\* A faulty announcement: the preferred port is taken for the port in use.
SocksIfPreferred == IF port' = None THEN <<>> ELSE <<SocksReady(Preferred)>>

SocksIfAny == IF port' = None THEN <<>> ELSE <<SocksReady(port')>>

Send(msgs) == events' = events \o msgs

-----------------------------------------------------------------------------
(* navigate(), after the history and the address of the tab were updated    *)
(* and the tabs sent: `before` is what the handler has sent so far.         *)

WebPage(before, u) ==
  /\ u \in Web
  /\ Send(before \o <<SetUrlBar(u), LoadUrl(u)>>)
  /\ UNCHANGED <<modeVars, level>>

\* A page of our own; V2Ray when it is not configured, and I2P and WireGuard,
\* get a page that says so and change nothing.
OwnPage(before, u) ==
  /\ u \notin Web \union DOMAIN ProfilePages \union {TogglePage}
  /\ u \in DOMAIN ModePages =>
       \/ ModePages[u] = Unsupported
       \/ ModePages[u] \in Configs /\ ~V2RayReady
  /\ Send(before \o <<LoadHtml(u)>>)
  /\ UNCHANGED <<modeVars, level>>

\* A storage error while the page is made leaves the view as it is.
NoPage(before, u) ==
  /\ u \in Flaky \ (Web \union DOMAIN ModePages \union DOMAIN ProfilePages)
  /\ Send(before)
  /\ UNCHANGED <<modeVars, level>>

\* One while history_enabled is read: the UI does not hear of the address.
NoNews(before, u) ==
  /\ u \in Flaky
  /\ Send(before)
  /\ UNCHANGED <<modeVars, level>>

NextLevel == CASE level = "Standard" -> "Strict"
               [] level = "Strict"   -> "Paranoid"
               [] level = "Paranoid" -> "Standard"

\* A faulty toggle: no `continue`, so the settings page is not sent.
TogglesWithoutPage(before, u) ==
  /\ u = TogglePage
  /\ level' = NextLevel
  /\ Send(Append(before, PrivacyUpdated(level')))
  /\ UNCHANGED modeVars

TogglesSecurity(before, u) ==
  /\ u = TogglePage
  /\ level' = NextLevel
  /\ Send(before \o <<PrivacyUpdated(level'), LoadHtml(u)>>)
  /\ UNCHANGED modeVars

\* The modes that a page of ours offers.
Offered == {Tor, Clear} \union (IF V2RayReady THEN Configs ELSE {})

\* update_config, where network.json could be written and initialize succeeded, and
\* where one of them failed: the mode is changed and nothing else.
SetsMode(p) == Net!SetMode(p) /\ Net!Initialized(p)

FailsToSetMode(p) == Net!SetMode(p) /\ UNCHANGED linkVars

\* handle_network_change: the badge is sent before the port.  When update_config
\* fails nothing more is sent, though the protocol has changed.
ChangesMode(before, u) ==
  /\ u \in DOMAIN ModePages
  /\ ModePages[u] \in Offered
  /\ UNCHANGED level
  /\ \/ /\ SetsMode(ModePages[u])
        /\ heard' = "mode"
        /\ Send(before \o <<StatusChanged(ModePages[u])>> \o SocksIfAny \o <<LoadHtml(u)>>)
     \/ /\ FailsToSetMode(ModePages[u])
        /\ heard' = IF heard = "nothing" THEN heard ELSE "port"
        /\ Send(before)

\* connect_switch calls switch_profile itself: the UI gets the page and is told
\* neither the mode nor the port.
SwitchesProfile(before, u) ==
  /\ u \in DOMAIN ProfilePages
  /\ heard' = "nothing"
  /\ UNCHANGED level
  /\ \/ SetsMode(ProfilePages[u]) /\ Send(Append(before, LoadHtml(u)))
     \/ FailsToSetMode(ProfilePages[u]) /\ Send(before)

Navigates(before, u) ==
  LET sent == Append(before, TabsChanged) IN
  \/ WebPage(sent, u)
  \/ OwnPage(sent, u)
  \/ NoPage(sent, u)
  \/ NoNews(before, u)
  \/ TogglesSecurity(sent, u)
  \/ ChangesMode(sent, u)
  \/ SwitchesProfile(sent, u)

-----------------------------------------------------------------------------
(* The core: boot, then one command after the other. *)

\* initialize and its news, and what is sent after them; a failure is only reported.
StartsNetwork(sent) ==
  LET news == SocksIfAny \o <<StatusChanged(protocol)>> \o sent IN
  \/ Net!Initialized(protocol) /\ Send(news)
  \/ Net!InitializeFails(protocol) /\ Send(<<ConfigError>> \o news)

\* The network is up before the first page.
Boot ==
  /\ phase = "booting"
  /\ phase' = "up"
  /\ UNCHANGED <<tabVars, protocol, heard, level, commands, waiting, uiVars, clicks>>
  /\ StartsNetwork(<<TabsChanged, LoadHtml(Home), TabsChanged>>)

\* The job object fails before the network is up, or the storage fails under the
\* first page: the thread ends, the channel closes and a UI waiting in
\* blocking_send gets an error.
BootFails ==
  /\ phase = "booting"
  /\ phase' = "dead"
  /\ commands' = <<>>
  /\ waiting' = None
  /\ UNCHANGED <<tabVars, protocol, heard, level, uiVars, clicks>>
  /\ \/ UNCHANGED <<linkVars, events>>
     \/ \E sent \in {<<>>, <<TabsChanged>>} : StartsNetwork(sent)

HandleNavigate(c) ==
  /\ c.do = "Navigate"
  /\ Navigate(c.url)
  /\ Navigates(<<>>, c.url)

HandleBack(c) ==
  /\ c.do = "Back"
  /\ Back
  /\ Navigates(<<>>, tabs'[active].url)

HandleForward(c) ==
  /\ c.do = "Forward"
  /\ Forward
  /\ Navigates(<<>>, tabs'[active].url)

\* Back and Forward at an end of the history do nothing.
HandleNoHistory(c) ==
  /\ \/ c.do = "Back" /\ tabs[active].index = 0
     \/ c.do = "Forward" /\ tabs[active].index = Len(tabs[active].history) - 1
  /\ UNCHANGED <<tabVars, modeVars, level, events>>

HandleRefresh(c) ==
  /\ c.do = "Refresh"
  /\ UNCHANGED tabVars
  /\ Navigates(<<>>, tabs[active].url)

HandleNewTab(c) ==
  /\ c.do = "NewTab"
  /\ NewTab
  /\ Navigates(<<TabsChanged>>, Home)

\* A faulty switch: the view is believed to have kept its page.
SwitchTabOnly(c) ==
  /\ c.do = "SwitchTab"
  /\ SwitchTab(c.id) \/ (c.id \notin DOMAIN tabs /\ UNCHANGED tabVars)
  /\ Send(<<TabsChanged, SetUrlBar(tabs[active'].url)>>)
  /\ UNCHANGED <<modeVars, level>>

\* A tab that was closed in the meantime is not switched to, but the active
\* one is navigated all the same.
HandleSwitchTab(c) ==
  /\ c.do = "SwitchTab"
  /\ SwitchTab(c.id) \/ (c.id \notin DOMAIN tabs /\ UNCHANGED tabVars)
  /\ LET u == tabs[active'].url IN Navigates(<<TabsChanged, SetUrlBar(u)>>, u)

HandleCloseTab(c) ==
  /\ c.do = "CloseTab"
  /\ CloseTab(c.id)
  /\ LET u == tabs'[active'].url IN Navigates(<<TabsChanged, SetUrlBar(u)>>, u)

Handled(c) ==
  \/ HandleNavigate(c) \/ HandleBack(c) \/ HandleForward(c) \/ HandleNoHistory(c)
  \/ HandleRefresh(c) \/ HandleNewTab(c) \/ HandleSwitchTab(c) \/ HandleCloseTab(c)

\* A faulty core: it waits for the UI to take its events first.
HandleCommandWhenDrained ==
  /\ phase = "up"
  /\ UNCHANGED phase
  /\ commands # <<>>
  /\ events = <<>>
  /\ Handled(Head(commands))
  /\ commands' = Tail(commands)
  /\ UNCHANGED <<waiting, uiVars, clicks>>

HandleCommand ==
  /\ phase = "up"
  /\ UNCHANGED phase
  /\ commands # <<>>
  /\ Handled(Head(commands))
  /\ commands' = Tail(commands)
  /\ UNCHANGED <<waiting, uiVars, clicks>>

Core == Boot \/ BootFails \/ HandleCommand

-----------------------------------------------------------------------------
(* The UI thread: one event at a time, and none while it is inside          *)
(* blocking_send.                                                           *)

\* last_url() and using_tor_proxy() of the pool.
LastUrl == IF Views!HasActive(pool) THEN pool.slots[pool.current].lastUrl ELSE Blank

UsingProxy == Views!HasActive(pool) /\ pool.slots[pool.current].setup.socks # None

Proxied == {"Tor", "V2Ray"}

LabelOf(p) == CASE p = Tor         -> "Tor"
                [] p = Clear       -> "Direct"
                [] p \in Configs   -> "V2Ray"
                [] p = Unsupported -> "I2P"

\* switch_to and rebuild_all, whose build may fail.
SwitchesPool(p, id, url) ==
  \/ pool' = Views!Switched(p, id, url)
  \/ BuildMayFail /\ id \notin Views!Cached(p) /\ pool' = Views!SwitchFailed(p)

RebuildsPool(setup, url, id) ==
  \/ pool' = Views!Rebuilt(setup, url, id)
  \/ BuildMayFail /\ pool' = Views!RebuildFailed(pool, setup)

\* A faulty handler: the views of closed tabs are not dropped.
OnTabsKeepsViews(e) ==
  /\ e.kind = "Tabs"
  /\ strip' = DOMAIN e.urls
  /\ bar' = e.urls[e.active]
  /\ shown' = e.active
  /\ SwitchesPool(pool, e.active, e.urls[e.active])
  /\ UNCHANGED <<label, uiPort>>

\* Close the views of tabs that are gone, then switch to the active tab.  The
\* UI takes it for shown even when no view could be built.
OnTabs(e) ==
  /\ e.kind = "Tabs"
  /\ strip' = DOMAIN e.urls
  /\ bar' = e.urls[e.active]
  /\ shown' = e.active
  /\ SwitchesPool(Views!Closed(pool, Views!Cached(pool) \ DOMAIN e.urls),
                  e.active, e.urls[e.active])
  /\ UNCHANGED <<label, uiPort>>

OnBar(e) ==
  /\ e.kind = "Bar"
  /\ bar' = e.url
  /\ UNCHANGED <<strip, shown, label, uiPort, pool>>

\* A faulty handler: the mode alone decides.
OnUrlByMode(e) ==
  LET want == IF label \in Proxied THEN uiPort ELSE None IN
  /\ e.kind = "Url"
  /\ bar' = e.url
  /\ IF pool.setup.socks # want
       THEN RebuildsPool(Setup(want, pool.setup.level), e.url, shown)
       ELSE pool' = Views!Show(pool, e.url, e.url)
  /\ UNCHANGED <<strip, shown, label, uiPort>>

\* A view with another proxy is needed: every view is rebuilt.
OnUrl(e) ==
  LET want == IF e.url \in Onion \/ label \in Proxied THEN uiPort ELSE None IN
  /\ e.kind = "Url"
  /\ bar' = e.url
  /\ IF pool.setup.socks # want
       THEN RebuildsPool(Setup(want, pool.setup.level), e.url, shown)
       ELSE pool' = Views!Show(pool, e.url, e.url)
  /\ UNCHANGED <<strip, shown, label, uiPort>>

\* The page is remembered under what the URL bar holds at this moment.
OnHtml(e) ==
  /\ e.kind = "Html"
  /\ pool' = Views!Show(pool, bar, e.url)
  /\ UNCHANGED <<strip, shown, bar, label, uiPort>>

OnStatus(e) ==
  /\ e.kind = "Status"
  /\ label' = LabelOf(e.protocol)
  /\ LET want == IF label' \in Proxied \/ LastUrl \in Onion THEN uiPort ELSE None
     IN  RebuildsPool(Setup(want, pool.setup.level), LastUrl, shown)
  /\ UNCHANGED <<strip, shown, bar, uiPort>>

\* Unlike the two handlers above, this one does not know of V2Ray.
OnSocks(e) ==
  /\ e.kind = "Socks"
  /\ uiPort' = e.port
  /\ LET want == IF label = "Tor" \/ LastUrl \in Onion THEN e.port ELSE None
     IN  RebuildsPool(Setup(want, pool.setup.level), LastUrl, shown)
  /\ UNCHANGED <<strip, shown, bar, label>>

OnPrivacy(e) ==
  /\ e.kind = "Privacy"
  /\ RebuildsPool(Setup(IF UsingProxy THEN uiPort ELSE None, e.level), LastUrl, shown)
  /\ UNCHANGED <<strip, shown, bar, label, uiPort>>

OnError(e) ==
  /\ e.kind = "Error"
  /\ pool' = Views!Show(pool, LastUrl, Blank)
  /\ UNCHANGED <<strip, shown, bar, label, uiPort>>

HandleEvent ==
  /\ waiting = None
  /\ events # <<>>
  /\ LET e == Head(events) IN
       \/ OnTabs(e) \/ OnBar(e) \/ OnUrl(e) \/ OnHtml(e)
       \/ OnStatus(e) \/ OnSocks(e) \/ OnPrivacy(e) \/ OnError(e)
  /\ events' = Tail(events)
  /\ UNCHANGED <<coreVars, commands, waiting, clicks>>

-----------------------------------------------------------------------------
(* The user, and the channel. *)

HasRoom == Len(commands) < ChannelSize

\* A faulty channel: it has no bound.
DispatchUnbounded(c) ==
  /\ waiting = None
  /\ clicks < MaxClicks
  /\ clicks' = clicks + 1
  /\ commands' = Append(commands, c)
  /\ UNCHANGED <<coreVars, waiting, events, viewVars>>

\* Nobody receives from a dead core's channel: blocking_send fails at once.
Dispatch(c) ==
  /\ waiting = None
  /\ clicks < MaxClicks
  /\ clicks' = clicks + 1
  /\ commands' = IF HasRoom /\ phase # "dead" THEN Append(commands, c) ELSE commands
  /\ waiting' = IF HasRoom \/ phase = "dead" THEN None ELSE c
  /\ UNCHANGED <<coreVars, events, viewVars>>

\* The tab strip shows the tabs the UI last heard of, each with a cross; a tab
\* that finds no room in the window is never hit, which is a choice not taken.
TabStripHits == {"SwitchTab", "CloseTab"} \X strip

Click ==
  /\ UNCHANGED bar
  /\ \/ \E do \in {"Back", "Forward", "Refresh", "NewTab"} : Dispatch([do |-> do])
     \/ \E hit \in TabStripHits : Dispatch([do |-> hit[1], id |-> hit[2]])
     \/ \E u \in Buttons : Dispatch([do |-> "Navigate", url |-> u])

\* The user edits the URL bar; an event may overwrite what is typed.
Type(u) ==
  /\ waiting = None
  /\ clicks < MaxClicks
  /\ bar' = u
  /\ UNCHANGED <<coreVars, commands, waiting, events, viewVars, clicks>>

\* resolve_input: a name gets its https://, other words become a search.
ResolveInput(text) == IF text \in DOMAIN Bare THEN Bare[text] ELSE text

Enters(text) ==
  /\ ResolveInput(text) \in Urls
  /\ Dispatch([do |-> "Navigate", url |-> ResolveInput(text)])
  /\ bar' = text

\* A link inside a page is the view's own business: neither last_url nor the
\* core hears of it.
FollowLink(u) ==
  /\ pool.current \in pool.visible
  /\ pool.slots[pool.current].page # Blank
  /\ clicks < MaxClicks
  /\ pool' = Views!Pool(Views!WithView(pool.slots, pool.current,
                 Views!Showing(pool.slots[pool.current], pool.slots[pool.current].lastUrl, u)),
               pool.lru, pool.current, pool.setup, pool.visible)
  /\ clicks' = clicks + 1
  /\ UNCHANGED <<coreVars, commands, waiting, events, strip, shown, bar, label, uiPort>>

User ==
  \/ Click
  \/ Enters(bar)
  \/ \E u \in Entered : Enters(u)
  \/ \E u \in Typed : Type(u)
  \/ \E u \in Links : FollowLink(u)

\* A blocked blocking_send goes through.
Unblock ==
  /\ waiting # None
  /\ HasRoom
  /\ commands' = Append(commands, waiting)
  /\ waiting' = None
  /\ UNCHANGED <<coreVars, events, uiVars, clicks>>

-----------------------------------------------------------------------------
\* The UI draws its chrome and a splash page while the core boots.
Init ==
  /\ TabInit
  /\ phase     = "booting"
  /\ protocol  = StoredMode
  /\ torUp     = FALSE
  /\ port      = None
  /\ listeners = {}
  /\ v2ray     = None
  /\ dns       = None
  /\ heard     = "mode"
  /\ level     = StoredLevel
  /\ commands  = <<>>
  /\ waiting   = None
  /\ events    = <<>>
  /\ strip     = {}
  /\ shown     = 0
  /\ bar       = Home
  /\ label     = "Tor"
  /\ uiPort    = None
  /\ pool      = Views!NewPool(0)
  /\ clicks    = 0

Next == Core \/ HandleEvent \/ Unblock \/ User

\* The two threads keep running; the user need not do anything.
Fairness == WF_vars(Core) /\ WF_vars(HandleEvent) /\ WF_vars(Unblock)

Spec == Init /\ [][Next]_vars /\ Fairness

BrowserTypeOK ==
  /\ TypeOK
  /\ phase \in {"booting", "up", "dead"}
  /\ protocol \in Net!Protocols
  /\ torUp \in BOOLEAN
  /\ port \in Ports \union {None}
  /\ heard \in {"mode", "port", "nothing"}
  /\ level \in Levels
  /\ Len(commands) <= ChannelSize
  /\ waiting = None \/ "do" \in DOMAIN waiting
  /\ strip \subseteq 0 .. next - 1
  /\ shown \in 0 .. next - 1
  /\ bar \in Urls \union DOMAIN Bare \union {Blank}
  /\ uiPort \in Ports \union {None}
  /\ Views!PoolTypeOK

-----------------------------------------------------------------------------
\* A page the core renders or names for a tab is put into that tab's view,
\* however many tabs were opened, closed and switched since, as long as views can
\* be built: the events name no tab, the order of TabsChanged and LoadHtml is all
\* there is (lines 224-329).
PagesReachTheirTab ==
  [][~BuildMayFail /\ HandleEvent /\ Head(events).kind \in {"Url", "Html"} =>
       pool'.current = Head(events).tab]_vars

\* Nothing is under way.
Settled == phase = "up" /\ commands = <<>> /\ waiting = None /\ events = <<>>

\* With nothing under way the tab strip and the tab the UI takes for active are
\* those of the core, no view of a closed tab lives, and no view but the active
\* tab's is on screen.
ChromeAgreesInv ==
  Settled =>
    /\ strip = DOMAIN tabs
    /\ shown = active
    /\ Views!Cached(pool) \subseteq DOMAIN tabs
    /\ pool.visible \subseteq {active}

\* As long as views can be built, the active tab's view is on screen and is
\* the one the next page goes to.
OnScreenInv ==
  ~BuildMayFail /\ Settled => pool.current = active /\ pool.visible = {active}

\* Addresses that may get no page: storage fails, or update_config.
MayGetNoPage ==
  Flaky \union {u \in DOMAIN ModePages : ModePages[u] \in Offered} \union DOMAIN ProfilePages

\* With nothing under way the view on screen, if there is one, shows the page
\* of the active tab, though rebuilds for a proxy or a privacy level threw pages
\* away in between.  A failed build may have cost it its page, never given it
\* another one, and a link may have been followed.
PageAgreesInv ==
  Settled /\ active \in pool.visible /\ tabs[active].url \notin MayGetNoPage =>
    pool.slots[active].page \in
      {tabs[active].url} \union Links \union (IF BuildMayFail THEN {Blank} ELSE {})

\* With nothing under way the views have the privacy level that was chosen last
\* (or the first one, when the level is still the stored one, of which no view is
\* told at a start), the UI knows the port, and the badge names the core's mode, a
\* V2Ray mode included.  Two things are not reported to the UI and stay wrong
\* until the next mode is announced, which must put everything right: a change
\* that failed after the core took the mode (lines 440-441), which costs the
\* badge, and a profile switched to on the connect page, which costs both.
ModeAgreesInv ==
  Settled =>
    /\ pool.setup.level = level \/ (level = StoredLevel /\ pool.setup.level = "Standard")
    /\ heard # "nothing" => uiPort = port
    /\ heard = "mode" => label = LabelOf(protocol)

\* Whether web pages are to go through SOCKS: the core's mode says so, or, when it
\* was taken with an error, the last mode that was announced and still serves.
AsksForSocks ==
  IF heard = "mode" THEN protocol \in {Tor} \union Configs ELSE label \in Proxied

\* With nothing under way, the view of a tab that is at a web address goes through
\* the port that the core published exactly when the mode or the address asks for
\* it, however modes, ports, failures and tabs came before; it goes directly when
\* no port was ever published.  The profile that nobody told the UI of is left
\* out: after it the views keep the old mode's proxy.  (A link followed in a view
\* goes the same way, and one followed from a page of our own goes where its view
\* is set.)
ProxyAgreesInv ==
  Settled /\ heard # "nothing" /\ active \in pool.visible
    /\ tabs[active].url \in Web \ MayGetNoPage =>
      pool.slots[active].setup.socks =
        IF AsksForSocks \/ tabs[active].url \in Onion THEN port ELSE None

\* Every command is carried out and every event shown once the user stops.
Settles == <>[](phase = "dead" \/ Settled)

-----------------------------------------------------------------------------
(* What the documents and comments say and the code does not do. *)

\* README.md:15, "`.onion` | SOCKS path": once the UI knows of a SOCKS port, no
\* view holds an onion page it loaded without one.
OnionGoesThroughSocks ==
  uiPort # None =>
    \A id \in Views!Cached(pool) :
      pool.slots[id].page \in Onion => pool.slots[id].setup.socks # None

\* README.md:14, "WebView rebuilds when switching modes (URL restored)": the
\* rebuild for a new mode or port shows the web page that was on screen.
RebuildKeepsThePage ==
  [][HandleEvent /\ Head(events).kind \in {"Status", "Socks"}
       /\ pool.visible = {shown} /\ pool.slots[shown].page \in Web =>
         pool'.slots[shown].page = pool.slots[shown].page]_vars
=============================================================================
