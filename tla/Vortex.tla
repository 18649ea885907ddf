-------------------------------- MODULE Vortex --------------------------------
(***************************************************************************)
(* network/src/lib.rs: Vortex, with the parts of socks.rs and v2ray.rs     *)
(* that decide which local port web traffic is sent to, and the settings   *)
(* file that survives a crash and may fail to be written.                  *)
(*                                                                         *)
(* A protocol is Tor, Tor over a bridge (Bridged), Clear, Unsupported (I2P *)
(* and WireGuard), or one of the V2Ray outbounds in Configs.  Over which   *)
(* bridges Tor is bootstrapped is in Bridges; a bootstrap may go either    *)
(* way over any of them.                                                   *)
(***************************************************************************)
EXTENDS Naturals, Sequences, Bridges

CONSTANTS
  Tor, Clear, Unsupported,   \* Protocol::Tor, Clearweb, and the two refused
  Configs,                   \* Protocol::V2Ray(config)
  V2RayReady,                \* v2ray_ready(): the environment is configured
  Preferred,                 \* settings.socks_port, 9050
  Ephemeral,                 \* bound: ports the system hands out for 0
  V2RayPort,                 \* 10808
  Names,                     \* names of profiles
  MaxAdded,                  \* bound: profiles, bridges and V2Ray configurations added
  Absent, Torn               \* no settings file; one cut off in the middle

TorModes  == {Tor} \union Bridged
Protocols == TorModes \union {Clear, Unsupported} \union Configs
TorPorts  == {Preferred} \union Ephemeral
Profile   == [name : Names, protocol : Protocols]
Settings  == [protocol : Protocols, profiles : Seq(Profile), custom : Nat]

ASSUME BoundAssumption == MaxAdded \in Nat

ASSUME VortexAssumption ==
  /\ V2RayReady \in BOOLEAN
  /\ {V2RayPort, None} \intersect TorPorts = {}
  /\ None \notin Protocols \union {V2RayPort}
  /\ {Absent, Torn} \intersect Settings = {} /\ Absent # Torn
  /\ {Clear, Unsupported} \intersect (TorModes \union Configs) = {}
  /\ Clear # Unsupported /\ TorModes \intersect Configs = {}
  /\ None \notin {"Tor", "Tor without client", "DoH", "direct", "bridges"}

VARIABLES
  running,    \* the process is alive
  protocol,   \* settings.active_protocol
  profiles,   \* settings.profiles
  custom,     \* how many settings.custom_bridges and v2ray_configs there are
  disk,       \* network.json
  torUp,      \* tor_client is Some
  port,       \* socks_port
  listeners,  \* ports our own SOCKS servers accept on
  v2ray,      \* v2ray_handler: the outbound of the process started last, or None
  dns,        \* provider and Tor client of the resolver
  unsaved,    \* history: no save since the last one that failed went through
  refused     \* history: the mode was started or chosen last with an error

\* What initialize() may change.
servedVars == <<torUp, port, listeners, v2ray, dns>>
linkVars   == <<servedVars, bridgeVars>>
chosen     == <<protocol, profiles, custom>>
fileVars   == <<disk, unsaved>>
vortexVars == <<running, chosen, fileVars, refused, linkVars>>

VortexTypeOK ==
  /\ running \in BOOLEAN
  /\ protocol \in Protocols
  /\ profiles \in Seq(Profile)
  /\ custom \in 0 .. MaxAdded
  /\ disk \in Settings \union {Absent, Torn}
  /\ torUp \in BOOLEAN
  /\ port \in TorPorts \union {V2RayPort, None}
  /\ listeners \subseteq TorPorts
  /\ v2ray \in Configs \union {None}
  /\ dns \in {None, "Tor", "Tor without client", "DoH"}
  /\ unsaved \in BOOLEAN /\ refused \in BOOLEAN
  /\ BridgesTypeOK

-----------------------------------------------------------------------------
(* initialize *)

\* A faulty start: the port asked for is published, not the one that was bound.
StartSocksAsked(published) ==
  /\ port' = IF Preferred \in listeners THEN 0 ELSE Preferred
  /\ listeners' = listeners \union {Preferred}

\* SocksProxy::start on the preferred port, or on any free one when that is
\* taken, by us or by another program; a failed start leaves the port that was
\* published before.
StartSocks(published) ==
  \/ \E p \in TorPorts \ listeners : port' = p /\ listeners' = listeners \union {p}
  \/ port' = published /\ UNCHANGED listeners

SocksIfTor(published) ==
  IF torUp' THEN StartSocks(published)
            ELSE port' = published /\ UNCHANGED listeners

\* SecureDns::new: over Tor with the client just bootstrapped, if any, in a Tor
\* mode; DNS over HTTPS in every other (Google's is replaced by Quad9).
Resolver(p, bootstrapped) ==
  CASE p \notin TorModes                 -> "DoH"
    [] p \in TorModes /\ bootstrapped    -> "Tor"
    [] p \in TorModes /\ ~bootstrapped   -> "Tor without client"

\* A faulty initialize: it returns before the resolver is replaced.
InitializeTorOldResolver(p, bootstrapped) ==
  /\ p \in TorModes \union {Clear}
  /\ Bootstraps(p, bootstrapped)
  /\ torUp' = (torUp \/ bootstrapped)
  /\ SocksIfTor(port)
  /\ UNCHANGED <<v2ray, dns>>

\* A bootstrap that fails keeps an earlier client, and is no error.
InitializeTor(p, bootstrapped) ==
  /\ p \in TorModes \union {Clear}
  /\ Bootstraps(p, bootstrapped)
  /\ torUp' = (torUp \/ bootstrapped)
  /\ SocksIfTor(port)
  /\ dns' = Resolver(p, bootstrapped)
  /\ UNCHANGED v2ray

\* The port is published as soon as the process is spawned.  Whether it serves it
\* and for how long, or one started for an earlier configuration and never killed
\* does, nothing in the code looks at, and nothing here depends on.
InitializeV2Ray(p) ==
  /\ p \in Configs
  /\ V2RayReady
  /\ v2ray' = p
  /\ UNCHANGED <<torUp, bridgeVars>>
  /\ SocksIfTor(V2RayPort)
  /\ dns' = Resolver(p, FALSE)

Initialized(p) ==
  \/ \E bootstrapped \in BOOLEAN : InitializeTor(p, bootstrapped)
  \/ InitializeV2Ray(p)

\* A faulty order: the port is published before the process is started.
InitializeFailsLate(p) ==
  /\ p \in Configs \union {Unsupported}
  /\ port' = IF p \in Configs THEN V2RayPort ELSE port
  /\ UNCHANGED <<torUp, listeners, v2ray, dns, bridgeVars>>

\* The error returns: V2Ray unconfigured or not spawned, and I2P / WireGuard.
InitializeFails(p) ==
  /\ p \in Configs \union {Unsupported}
  /\ UNCHANGED linkVars

-----------------------------------------------------------------------------
VortexInit ==
  /\ running   = FALSE
  /\ protocol  = Tor
  /\ profiles  = <<>>
  /\ custom    = 0
  /\ disk      = Absent
  /\ torUp     = FALSE
  /\ port      = None
  /\ listeners = {}
  /\ v2ray     = None
  /\ dns       = None
  /\ unsaved   = FALSE
  /\ refused   = FALSE
  /\ bridges   = {}
  /\ helpers   \in SUBSET Helpers
  /\ route     = None

\* SettingsManager::load, then initialize.  A failed initialize is reported
\* and the browser goes on without it; a torn file stops Vortex::new.
Loaded ==
  IF disk = Absent THEN [protocol |-> Tor, profiles |-> <<>>, custom |-> 0] ELSE disk

Start ==
  /\ ~running
  /\ disk # Torn
  /\ running'  = TRUE
  /\ protocol' = Loaded.protocol
  /\ profiles' = Loaded.profiles
  /\ custom'   = Loaded.custom
  /\ \/ Initialized(Loaded.protocol) /\ refused' = FALSE
     \/ InitializeFails(Loaded.protocol) /\ refused' = TRUE
  /\ unsaved' = FALSE
  /\ UNCHANGED disk

\* SettingsManager::save writes all of the settings.  fs::write empties the file
\* before it fills it, so one that fails leaves the old file or a torn one.
Saved ==
  /\ disk' = [protocol |-> protocol', profiles |-> profiles', custom |-> custom']
  /\ unsaved' = FALSE

SaveFails == disk' \in {disk, Torn} /\ unsaved' = TRUE

SetMode(p) ==
  /\ running
  /\ protocol' = p
  /\ UNCHANGED <<running, profiles, custom>>

\* update_config: the choice is kept whatever comes of it.  It is saved before
\* initialize, which a failing save leaves out: the links stay another mode's.
UpdateConfig(p) == SetMode(p) /\ Saved /\ Initialized(p) /\ refused' = FALSE

UpdateConfigFails(p) ==
  /\ SetMode(p)
  /\ refused' = TRUE
  /\ \/ Saved /\ InitializeFails(p)
     \/ SaveFails /\ UNCHANGED linkVars

UpdatesConfig(p) == UpdateConfig(p) \/ UpdateConfigFails(p)

\* switch_profile: the protocol of the first profile of that name, if there is one.
Meant(name) ==
  {profiles[k].protocol : k \in {k \in DOMAIN profiles :
     profiles[k].name = name /\ \A j \in 1 .. k - 1 : profiles[j].name # name}}

SwitchProfile(name) ==
  \E p \in Meant(name) : UpdatesConfig(p)

MayAdd == Len(profiles) + custom < MaxAdded

\* Faulty saves of a profile: in memory only though it is said to be saved, or
\* before those of its name.
AddProfileUnsaved(name) ==
  /\ running
  /\ MayAdd
  /\ profiles' = Append(profiles, [name |-> name, protocol |-> protocol])
  /\ UNCHANGED <<running, protocol, custom, refused, linkVars, fileVars>>

AddProfileFirst(name) ==
  /\ running
  /\ MayAdd
  /\ profiles' = <<[name |-> name, protocol |-> protocol]>> \o profiles
  /\ UNCHANGED <<running, protocol, custom, refused, linkVars>>
  /\ Saved \/ SaveFails

\* add_profile: a profile whose save failed is in memory all the same.
AddProfile(name) ==
  /\ running
  /\ MayAdd
  /\ profiles' = Append(profiles, [name |-> name, protocol |-> protocol])
  /\ UNCHANGED <<running, protocol, custom, refused, linkVars>>
  /\ Saved \/ SaveFails

HelperFound(p) == Available(LineOf[p])

\* sentinel://network with a bridge: without its helper it is plain Tor.
AskForBridge(p) ==
  IF HelperFound(p) THEN UpdatesConfig(p) ELSE UpdatesConfig(Tor)

\* check_and_auto_switch, which nothing in the program calls yet: when a probe
\* finds the network blocked it goes from Direct to Tor, and from there to a
\* bridge whose helper is found; from another mode it goes nowhere.
AutoSwitch ==
  \/ protocol = Clear /\ UpdatesConfig(Tor)
  \/ /\ protocol = Tor
     /\ \E p \in Bridged : HelperFound(p) /\ UpdatesConfig(p)

\* add_custom_bridge and add_v2ray_config: no initialize ever looks at them.
AddCustom ==
  /\ running
  /\ MayAdd
  /\ custom' = custom + 1
  /\ UNCHANGED <<running, protocol, profiles, refused, linkVars>>
  /\ Saved \/ SaveFails

\* The process dies, and its servers and its handle to V2Ray's with it.
Dies ==
  /\ running
  /\ running'   = FALSE
  /\ torUp'     = FALSE
  /\ port'      = None
  /\ listeners' = {}
  /\ v2ray'     = None
  /\ dns'       = None
  /\ route'     = None
  /\ UNCHANGED <<chosen, unsaved, refused, bridges, helpers>>

Crash == Dies /\ UNCHANGED disk

CrashWhileSaving == Dies /\ disk' = Torn

\* The page that installs the helpers, and what the user does outside.
InstallPt ==
  running /\ InstallHelpers /\ UNCHANGED <<running, chosen, fileVars, refused, servedVars>>

Edit ==
  (EditBridges \/ EditPath) /\ UNCHANGED <<running, chosen, fileVars, refused, servedVars>>

VortexNext ==
  \/ Start
  \/ \E p \in {Tor, Clear} \union Configs : UpdatesConfig(p)
  \/ \E p \in Bridged : AskForBridge(p)
  \/ \E name \in Names : SwitchProfile(name) \/ AddProfile(name)
  \/ AutoSwitch
  \/ AddCustom
  \/ InstallPt
  \/ Edit
  \/ Crash
  \/ CrashWhileSaving

VortexSpec == VortexInit /\ [][VortexNext]_vortexVars

-----------------------------------------------------------------------------
\* A published port is nobody else's, whatever modes, failed saves and failed
\* starts came before: one of our servers accepts on it and has a Tor client, or it
\* is the one that a V2Ray process of this run was told to serve.  The port
\* outlives the mode that set it (lines 365-420).
PublishedPortInv ==
  running =>
    /\ port \in TorPorts => port \in listeners /\ torUp
    /\ port = V2RayPort => v2ray # None

\* The resolver is the mode's unless the user was shown an error: Direct mode never
\* looks names up with the resolver an earlier Tor mode left behind, nor a Tor mode
\* with DNS over HTTPS, and a resolver over Tor has a client to use.  After an
\* error, a failing save's included, mode and resolver may disagree.
ResolverInv ==
  running =>
    /\ ~refused => /\ protocol = Clear => dns = "DoH"
                   /\ protocol \in TorModes => dns \in {"Tor", "Tor without client"}
    /\ dns = "Tor" => torUp

\* The next start has the settings that the process died with, a mode that could
\* not be initialized included.  A failing save costs no more than what was chosen
\* since the last one that went through, and what went wrong once is made good by
\* the next save: a start never loses a profile and keeps one that is newer.
SettingsAreDurable ==
  [][Start => /\ \E n \in 0 .. Len(profiles) : profiles' = SubSeq(profiles, 1, n)
              /\ custom' <= custom
              /\ ~unsaved => chosen' = chosen]_vortexVars

\* A profile's name keeps its meaning: saving the name again, in another mode,
\* never changes where switch_profile goes, neither at once nor after a restart.
\* After a failing save a restart may not know the name, but it gives it no other
\* meaning.
ProfilesKeepTheirMeaning ==
  [][\A name \in Names : Meant(name) # {} =>
       \/ Meant(name)' = Meant(name)
       \/ Start /\ unsaved /\ Meant(name)' = {}]_vortexVars

\* A step in which a Tor mode is started or chosen and Tor is bootstrapped.
Bootstrapped == (Start \/ UpdateConfig(protocol')) /\ dns' = "Tor"

\* In a mode with a bridge, a client that is bootstrapped goes over bridges, at
\* once and after every restart, whatever was done to bridges.txt in between: the
\* mode's line is there again before the configuration is made.  It takes the line
\* to be written and read, and every helper that bridges.txt needs to be found.
\* (When the bootstrap fails, an earlier client stays in use, a direct one too.)
BridgedModeIsBridged ==
  [][Bootstrapped /\ protocol' \in Bridged
       /\ LineOf[protocol'] \in bridges' \intersect Parses /\ (\A l \in bridges' : Available(l))
     => route' = "bridges"]_vortexVars

-----------------------------------------------------------------------------
(* What the documentation says and the code does not do. *)

\* pt.rs:118, "Returns default config (no bridges) when nothing usable is
\* configured": with a bridge that can be used, Tor is not bootstrapped directly.
UsableBridgesAreUsed ==
  [][Bootstrapped /\ (\E l \in bridges' \intersect Parses : Available(l))
     => route' = "bridges"]_vortexVars

\* README.md:48, "Real V2Ray SOCKS outbound": in V2Ray mode the published port
\* is the V2Ray process's.
V2RayModeUsesV2Ray ==
  [][\A c \in Configs : UpdateConfig(c) => port' = V2RayPort]_vortexVars
=============================================================================
