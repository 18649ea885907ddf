----------------------------- MODULE VortexProofs -----------------------------
(***************************************************************************)
(* Vortex for any protocols, ports, profiles and bridges: the published    *)
(* port is ours, the resolver suits a mode that was taken without an error, *)
(* and a start has what was saved.                                         *)
(***************************************************************************)
EXTENDS Vortex, TLAPS

\* While the process does not run it serves nothing.
Quiet == ~running => torUp = FALSE /\ port = None /\ dns = None /\ listeners = {}

\* A port that is ours.
Ours(p, ls, up, v) == /\ p \in TorPorts => p \in ls /\ up
                      /\ p = V2RayPort => v # None

\* Our servers were started with a Tor client, and keep it.
ListenInv == listeners # {} => torUp

Now == [protocol |-> protocol, profiles |-> profiles, custom |-> custom]

\* What a process without a file starts with.
Fresh == [protocol |-> Tor, profiles |-> <<>>, custom |-> 0]

\* The file holds settings that the process once had: what it has, or what it had
\* before the saves that failed.
SavedInv ==
  /\ disk \in Settings =>
       /\ Len(disk.profiles) <= Len(profiles)
       /\ \A k \in 1 .. Len(disk.profiles) : disk.profiles[k] = profiles[k]
       /\ disk.custom <= custom
  /\ ~unsaved /\ disk \in Settings => disk = Now
  /\ ~unsaved /\ disk = Absent => Now = Fresh

\* The inductive invariant.
VortexIInv ==
  VortexTypeOK /\ Quiet /\ SavedInv /\ ListenInv /\ PublishedPortInv /\ ResolverInv

\* The types of what initialize() is answerable for.
LinkTypes ==
  /\ torUp \in BOOLEAN
  /\ port \in TorPorts \union {V2RayPort, None}
  /\ listeners \subseteq TorPorts
  /\ v2ray \in Configs \union {None}
  /\ dns \in {None, "Tor", "Tor without client", "DoH"}
  /\ BridgesTypeOK

LinkOK == LinkTypes /\ ListenInv /\ PublishedPortInv /\ (dns = "Tor" => torUp)

\* The resolver of a mode.
Resolves(p, d) ==
  /\ p = Clear => d = "DoH"
  /\ p \in TorModes => d \in {"Tor", "Tor without client"}

-----------------------------------------------------------------------------
(* initialize. *)

\* What is published before the listeners are touched is ours already.
LEMMA StartedSocksIsOurs ==
  ASSUME NEW published \in TorPorts \union {V2RayPort, None}, SocksIfTor(published),
         listeners \subseteq TorPorts, torUp' \in BOOLEAN,
         Ours(published, listeners, torUp', v2ray'), listeners # {} => torUp'
  PROVE  /\ Ours(port', listeners', torUp', v2ray')
         /\ port' \in TorPorts \union {V2RayPort, None}
         /\ listeners' \subseteq TorPorts
         /\ ListenInv'
<1>1. CASE port' = published /\ UNCHANGED listeners
  BY <1>1 DEF ListenInv
<1>2. ASSUME torUp', NEW p \in TorPorts \ listeners, port' = p, listeners' = listeners \union {p}
      PROVE  /\ Ours(port', listeners', torUp', v2ray')
             /\ port' \in TorPorts \union {V2RayPort, None}
             /\ listeners' \subseteq TorPorts
             /\ ListenInv'
  <2>1. p # V2RayPort
    BY VortexAssumption
  <2> QED BY <1>2, <2>1 DEF Ours, ListenInv
<1> QED BY <1>1, <1>2 DEF SocksIfTor, StartSocks

LEMMA OursBefore ==
  ASSUME VortexIInv
  PROVE  Ours(port, listeners, torUp, v2ray)
<1>1. CASE running
  BY <1>1 DEF VortexIInv, PublishedPortInv, Ours
<1>2. CASE ~running
  BY <1>2, VortexAssumption DEF VortexIInv, Quiet, Ours
<1> QED BY <1>1, <1>2

LEMMA BootstrapsTyped ==
  ASSUME BridgesTypeOK, NEW p, NEW b, Bootstraps(p, b)
  PROVE  BridgesTypeOK'
<1>1. \A x \in Bridged : LineOf[x] \in Lines
  BY BridgesAssumption
<1>2. bridges' \subseteq Lines
  BY <1>1 DEF Bootstraps, BridgesTypeOK
<1>3. route' \in {"direct", "bridges", None} /\ UNCHANGED helpers
  BY DEF Bootstraps, Config, BridgesTypeOK
<1> QED BY <1>2, <1>3 DEF BridgesTypeOK

LEMMA InitializedHolds ==
  ASSUME VortexIInv, NEW p, protocol' = p, Initialized(p)
  PROVE  LinkOK' /\ Resolves(p, dns')
<1>1. CASE \E bootstrapped \in BOOLEAN : InitializeTor(p, bootstrapped)
  <2>1. PICK bootstrapped \in BOOLEAN : InitializeTor(p, bootstrapped)
    BY <1>1
  <2>2. /\ torUp' = (torUp \/ bootstrapped) /\ v2ray' = v2ray
        /\ dns' = Resolver(p, bootstrapped) /\ SocksIfTor(port) /\ Bootstraps(p, bootstrapped)
        /\ p \in TorModes \union {Clear}
    BY <2>1 DEF InitializeTor
  <2>3. torUp' \in BOOLEAN /\ (bootstrapped => torUp') /\ (torUp => torUp')
    BY <2>2 DEF VortexIInv, VortexTypeOK
  <2>4. Ours(port, listeners, torUp', v2ray') /\ (listeners # {} => torUp')
    BY <2>2, <2>3, OursBefore DEF Ours, VortexIInv, ListenInv
  <2>5. /\ Ours(port', listeners', torUp', v2ray') /\ listeners' \subseteq TorPorts
        /\ port' \in TorPorts \union {V2RayPort, None} /\ ListenInv'
    BY <2>2, <2>3, <2>4, StartedSocksIsOurs DEF VortexIInv, VortexTypeOK
  <2>6. PublishedPortInv'
    BY <2>5 DEF PublishedPortInv, Ours
  <2>7. dns' \in {"Tor", "Tor without client", "DoH"} /\ (dns' = "Tor" => bootstrapped)
    BY <2>2 DEF Resolver
  <2>8. Resolves(p, dns')
    BY <2>2, VortexAssumption DEF Resolver, Resolves
  <2>9. BridgesTypeOK'
    BY <2>2, BootstrapsTyped DEF VortexIInv, VortexTypeOK
  <2> QED BY <2>2, <2>3, <2>5, <2>6, <2>7, <2>8, <2>9
          DEF LinkOK, LinkTypes, VortexIInv, VortexTypeOK
<1>2. CASE InitializeV2Ray(p)
  <2>1. /\ p \in Configs /\ v2ray' = p
        /\ UNCHANGED <<torUp, bridges, helpers, route>>
        /\ dns' = Resolver(p, FALSE) /\ SocksIfTor(V2RayPort)
    BY <1>2 DEF InitializeV2Ray, bridgeVars
  <2>2. p # None /\ p # Clear /\ p \notin TorModes /\ V2RayPort \notin TorPorts
    BY <2>1, VortexAssumption DEF Protocols
  <2>3. Ours(V2RayPort, listeners, torUp', v2ray') /\ (listeners # {} => torUp') /\ torUp' \in BOOLEAN
    BY <2>1, <2>2 DEF Ours, VortexIInv, ListenInv, VortexTypeOK
  <2>4. /\ Ours(port', listeners', torUp', v2ray') /\ listeners' \subseteq TorPorts
        /\ port' \in TorPorts \union {V2RayPort, None} /\ ListenInv'
    BY <2>1, <2>3, StartedSocksIsOurs DEF VortexIInv, VortexTypeOK
  <2>5. PublishedPortInv'
    BY <2>4 DEF PublishedPortInv, Ours
  <2>6. dns' = "DoH" /\ Resolves(p, dns')
    BY <2>1, <2>2 DEF Resolver, Resolves
  <2>7. BridgesTypeOK'
    BY <2>1 DEF BridgesTypeOK, VortexIInv, VortexTypeOK
  <2> QED BY <2>1, <2>3, <2>4, <2>5, <2>6, <2>7 DEF LinkOK, LinkTypes
<1> QED BY <1>1, <1>2 DEF Initialized

\* A failing initialize, or none at all, leaves the links as they are.
LEMMA LinksKeptHold ==
  ASSUME VortexIInv, UNCHANGED linkVars
  PROVE  LinkOK'
<1>1. UNCHANGED <<torUp, port, listeners, v2ray, dns, bridges, helpers, route>>
  BY DEF linkVars, servedVars, bridgeVars
<1>2. PublishedPortInv'
  BY <1>1, OursBefore DEF PublishedPortInv, Ours
<1>3. dns = "Tor" => torUp
  BY VortexAssumption DEF VortexIInv, Quiet, ResolverInv, VortexTypeOK
<1> QED BY <1>1, <1>2, <1>3
        DEF LinkOK, LinkTypes, VortexIInv, VortexTypeOK, BridgesTypeOK, ListenInv

-----------------------------------------------------------------------------
(* The file. *)

\* What can be added to the settings is counted.
LEMMA SettingsCounted ==
  ASSUME VortexIInv
  PROVE  /\ profiles \in Seq(Profile) /\ Len(profiles) \in Nat
         /\ custom \in 0 .. MaxAdded /\ custom \in Nat
<1>1. profiles \in Seq(Profile) /\ custom \in 0 .. MaxAdded
  BY DEF VortexIInv, VortexTypeOK
<1>2. Len(profiles) \in Nat
  BY <1>1
<1>3. custom \in Nat
  BY <1>1, BoundAssumption
<1> QED BY <1>1, <1>2, <1>3

\* A save that goes through, and one that fails, with no less to save than before.
LEMMA SaveHolds ==
  ASSUME VortexIInv, Saved \/ SaveFails,
         protocol' \in Protocols, profiles' \in Seq(Profile), custom' \in 0 .. MaxAdded,
         Len(profiles) <= Len(profiles'), custom <= custom',
         \A k \in 1 .. Len(profiles) : profiles'[k] = profiles[k]
  PROVE  disk' \in Settings \union {Absent, Torn} /\ unsaved' \in BOOLEAN /\ SavedInv'
<1>1. custom' \in Nat /\ custom \in Nat /\ Len(profiles) \in Nat /\ Len(profiles') \in Nat
  BY BoundAssumption, SettingsCounted
<1>2. CASE Saved
  <2>1. disk' = Now' /\ unsaved' = FALSE
    BY <1>2 DEF Saved, Now
  <2>2. disk' \in Settings
    BY <1>1, <2>1 DEF Now, Settings
  <2>3. disk'.profiles = profiles' /\ disk'.custom = custom' /\ disk' # Absent
    BY <2>1, <2>2, VortexAssumption DEF Now
  <2>4. /\ Len(disk'.profiles) <= Len(profiles') /\ disk'.custom <= custom'
        /\ \A k \in 1 .. Len(disk'.profiles) : disk'.profiles[k] = profiles'[k]
    BY <1>1, <2>3
  <2> QED BY <2>1, <2>2, <2>3, <2>4 DEF SavedInv
<1>3. CASE SaveFails
  <2>1. disk' \in {disk, Torn} /\ unsaved' = TRUE
    BY <1>3 DEF SaveFails
  <2>2. disk' \in Settings => disk' = disk
    BY <2>1, VortexAssumption
  <2>3. disk \in Settings => disk.profiles \in Seq(Profile) /\ disk.custom \in Nat
    BY DEF Settings
  <2>4. disk' \in Settings =>
          /\ Len(disk'.profiles) <= Len(profiles')
          /\ \A k \in 1 .. Len(disk'.profiles) : disk'.profiles[k] = profiles'[k]
          /\ disk'.custom <= custom'
    <3> SUFFICES ASSUME disk' \in Settings
                 PROVE  /\ Len(disk.profiles) <= Len(profiles')
                        /\ \A k \in 1 .. Len(disk.profiles) : disk.profiles[k] = profiles'[k]
                        /\ disk.custom <= custom'
      BY <2>2
    <3>1. /\ Len(disk.profiles) <= Len(profiles) /\ disk.custom <= custom
          /\ \A k \in 1 .. Len(disk.profiles) : disk.profiles[k] = profiles[k]
      BY <2>2 DEF VortexIInv, SavedInv
    <3>2. Len(disk.profiles) \in Nat /\ disk.custom \in Nat
      BY <2>2, <2>3
    <3> QED BY <1>1, <3>1, <3>2
  <2> QED BY <2>1, <2>4 DEF SavedInv, VortexIInv, VortexTypeOK
<1> QED BY <1>2, <1>3

\* A start finds what the process had, or had before the saves that failed.
LEMMA LoadedIsSaved ==
  ASSUME VortexIInv, disk # Torn
  PROVE  /\ Loaded \in Settings /\ Loaded.custom <= custom
         /\ Len(Loaded.profiles) <= Len(profiles)
         /\ \A k \in 1 .. Len(Loaded.profiles) : Loaded.profiles[k] = profiles[k]
         /\ ~unsaved => Loaded = Now
         /\ disk = Absent => Loaded = Fresh
<1>1. CASE disk = Absent
  <2>1. Loaded = Fresh
    BY <1>1 DEF Loaded, Fresh
  <2>2. Fresh \in Settings /\ Len(Fresh.profiles) = 0 /\ Fresh.custom = 0
    BY DEF Fresh, Settings, Protocols, TorModes
  <2>3. custom \in Nat /\ Len(profiles) \in Nat
    BY SettingsCounted
  <2>4. Loaded.custom <= custom /\ Len(Loaded.profiles) <= Len(profiles) /\ 1 .. Len(Loaded.profiles) = {}
    BY <2>1, <2>2, <2>3
  <2>5. ~unsaved => Loaded = Now
    BY <1>1, <2>1 DEF VortexIInv, SavedInv
  <2> QED BY <2>1, <2>2, <2>4, <2>5
<1>2. CASE disk # Absent
  <2>1. Loaded = disk /\ disk \in Settings
    BY <1>2 DEF Loaded, VortexIInv, VortexTypeOK
  <2> QED BY <1>2, <2>1 DEF VortexIInv, SavedInv
<1> QED BY <1>1, <1>2

\* Every profile's protocol is one.
LEMMA MeantIsProtocol ==
  ASSUME VortexIInv, NEW name
  PROVE  Meant(name) \subseteq Protocols
<1>1. profiles \in Seq(Profile)
  BY DEF VortexIInv, VortexTypeOK
<1>2. \A k \in DOMAIN profiles : profiles[k] \in Profile
  BY <1>1
<1>3. \A x \in Profile : x.protocol \in Protocols
  BY DEF Profile
<1> QED BY <1>2, <1>3 DEF Meant

\* A profile that is added last takes nobody's name.
LEMMA AppendKeepsMeaning ==
  ASSUME profiles \in Seq(Profile), NEW x \in Profile,
         profiles' = Append(profiles, x), NEW name, Meant(name) # {}
  PROVE  Meant(name)' = Meant(name)
<1> DEFINE First(k) == profiles[k].name = name /\ \A j \in 1 .. k - 1 : profiles[j].name # name
           First2(k) == profiles'[k].name = name /\ \A j \in 1 .. k - 1 : profiles'[j].name # name
<1>1. /\ DOMAIN profiles = 1 .. Len(profiles) /\ Len(profiles) \in Nat
      /\ DOMAIN profiles' = 1 .. Len(profiles) + 1
      /\ \A k \in 1 .. Len(profiles) : profiles'[k] = profiles[k]
  OBVIOUS
<1>2. PICK i \in 1 .. Len(profiles) : First(i)
  BY <1>1 DEF Meant
<1>3. \A k \in 1 .. Len(profiles) : First2(k) <=> First(k)
  <2> SUFFICES ASSUME NEW k \in 1 .. Len(profiles) PROVE First2(k) <=> First(k)
    OBVIOUS
  <2>1. \A j \in 1 .. k - 1 : profiles'[j] = profiles[j]
    BY <1>1
  <2> QED BY <2>1, <1>1
<1>4. ~First2(Len(profiles) + 1)
  <2>1. i \in 1 .. (Len(profiles) + 1) - 1 /\ profiles'[i].name = name
    BY <1>1, <1>2
  <2> QED BY <2>1
<1>5. Meant(name) = {profiles[k].protocol : k \in {k \in 1 .. Len(profiles) : First(k)}}
  BY <1>1 DEF Meant
<1>6. Meant(name)' = {profiles'[k].protocol : k \in {k \in 1 .. Len(profiles) + 1 : First2(k)}}
  BY <1>1 DEF Meant
<1>7. {k \in 1 .. Len(profiles) + 1 : First2(k)} = {k \in 1 .. Len(profiles) : First(k)}
  <2> HIDE DEF First, First2
  <2>1. 1 .. Len(profiles) + 1 = 1 .. Len(profiles) \union {Len(profiles) + 1}
    BY <1>1
  <2> QED BY <2>1, <1>3, <1>4
<1> HIDE DEF First, First2
<1> QED BY <1>1, <1>5, <1>6, <1>7

-----------------------------------------------------------------------------
(* The steps. *)

LEMMA VortexInitHolds == VortexInit => VortexIInv
<1> SUFFICES ASSUME VortexInit PROVE VortexIInv
  OBVIOUS
<1>1. /\ Tor \in Protocols /\ 0 \in 0 .. MaxAdded
      /\ <<>> \in Seq(Profile) /\ BridgesTypeOK
  <2>1. 0 \in 0 .. MaxAdded
    BY BoundAssumption
  <2> QED BY <2>1 DEF VortexInit, Protocols, TorModes, BridgesTypeOK
<1>2. VortexTypeOK
  BY <1>1 DEF VortexInit, VortexTypeOK
<1>3. SavedInv
  BY VortexAssumption DEF VortexInit, SavedInv, Now, Fresh
<1> QED BY <1>2, <1>3, VortexAssumption
        DEF VortexInit, VortexIInv, Quiet, ListenInv, PublishedPortInv, ResolverInv

LEMMA StartHolds ==
  ASSUME VortexIInv, Start
  PROVE  VortexIInv'
<1>1. /\ running' = TRUE /\ disk' = disk /\ disk # Torn /\ unsaved' = FALSE
      /\ protocol' = Loaded.protocol /\ profiles' = Loaded.profiles /\ custom' = Loaded.custom
      /\ \/ Initialized(Loaded.protocol) /\ refused' = FALSE
         \/ InitializeFails(Loaded.protocol) /\ refused' = TRUE
  BY DEF Start
<1>2. LinkOK' /\ refused' \in BOOLEAN /\ (~refused' => Resolves(protocol', dns'))
  BY <1>1, InitializedHolds, LinksKeptHold DEF InitializeFails
<1>3. /\ Loaded \in Settings /\ Loaded.custom <= custom
      /\ disk = Absent => Loaded = Fresh
  BY <1>1, LoadedIsSaved
<1>4. protocol' \in Protocols /\ profiles' \in Seq(Profile) /\ custom' \in Nat
  BY <1>1, <1>3 DEF Settings
<1>5. custom' \in 0 .. MaxAdded
  BY <1>1, <1>3, <1>4, SettingsCounted, BoundAssumption
<1>6. VortexTypeOK'
  BY <1>1, <1>2, <1>4, <1>5 DEF LinkOK, LinkTypes, VortexTypeOK, VortexIInv
<1>7. Loaded = Now'
  <2>1. Loaded = [protocol |-> Loaded.protocol, profiles |-> Loaded.profiles, custom |-> Loaded.custom]
    BY <1>3 DEF Settings
  <2> QED BY <1>1, <2>1 DEF Now
<1>8. disk \in Settings => Loaded = disk
  BY VortexAssumption DEF Loaded
<1>9. SavedInv'
  <2>1. /\ Len(profiles') <= Len(profiles') /\ custom' <= custom'
    BY <1>4
  <2>2. disk' = Absent => Now' = Fresh
    BY <1>1, <1>3, <1>7
  <2>3. disk' \in Settings => disk' = Now' /\ disk'.profiles = profiles' /\ disk'.custom = custom'
    BY <1>1, <1>7, <1>8
  <2> QED BY <2>1, <2>2, <2>3 DEF SavedInv
<1>10. ResolverInv'
  BY <1>2 DEF ResolverInv, Resolves, LinkOK
<1> QED BY <1>1, <1>2, <1>6, <1>9, <1>10 DEF VortexIInv, LinkOK, Quiet

LEMMA UpdatesConfigHolds ==
  ASSUME VortexIInv, NEW p \in Protocols, UpdatesConfig(p)
  PROVE  VortexIInv'
<1>1. /\ SetMode(p) /\ (Saved \/ SaveFails) /\ refused' \in BOOLEAN
      /\ (Initialized(p) /\ ~refused') \/ (UNCHANGED linkVars /\ refused')
  BY DEF UpdatesConfig, UpdateConfig, UpdateConfigFails, InitializeFails
<1>2. /\ running /\ running' = running /\ protocol' = p
      /\ profiles' = profiles /\ custom' = custom
  BY <1>1 DEF SetMode
<1>3. LinkOK' /\ (~refused' => Resolves(protocol', dns'))
  BY <1>1, <1>2, InitializedHolds, LinksKeptHold
<1>4. disk' \in Settings \union {Absent, Torn} /\ unsaved' \in BOOLEAN /\ SavedInv'
  <2>1. profiles \in Seq(Profile) /\ custom \in 0 .. MaxAdded /\ Len(profiles) <= Len(profiles)
        /\ custom <= custom
    BY SettingsCounted
  <2> QED BY <1>1, <1>2, <2>1, SaveHolds
<1>5. VortexTypeOK'
  BY <1>1, <1>2, <1>3, <1>4 DEF LinkOK, LinkTypes, VortexTypeOK, VortexIInv
<1>6. ResolverInv'
  BY <1>3 DEF ResolverInv, Resolves, LinkOK
<1> QED BY <1>2, <1>3, <1>4, <1>5, <1>6 DEF VortexIInv, LinkOK, Quiet

\* A step that adds to the settings, saved or not, and changes nothing else.
LEMMA AddedStepHolds ==
  ASSUME VortexIInv, running, Saved \/ SaveFails,
         UNCHANGED <<running, protocol, refused, linkVars>>,
         profiles' \in Seq(Profile), custom' \in 0 .. MaxAdded,
         Len(profiles) <= Len(profiles'), custom <= custom',
         \A k \in 1 .. Len(profiles) : profiles'[k] = profiles[k]
  PROVE  VortexIInv'
<1>1. disk' \in Settings \union {Absent, Torn} /\ unsaved' \in BOOLEAN /\ SavedInv'
  <2>1. protocol' \in Protocols
    BY DEF VortexIInv, VortexTypeOK
  <2> QED BY <2>1, SaveHolds
<1>2. VortexTypeOK'
  BY <1>1 DEF VortexIInv, VortexTypeOK, linkVars, servedVars, bridgeVars, BridgesTypeOK
<1> QED BY <1>1, <1>2
        DEF VortexIInv, Quiet, ListenInv, PublishedPortInv, ResolverInv, linkVars, servedVars

LEMMA AddProfileHolds ==
  ASSUME VortexIInv, NEW name \in Names, AddProfile(name)
  PROVE  VortexIInv'
<1>1. [name |-> name, protocol |-> protocol] \in Profile
  BY DEF Profile, VortexIInv, VortexTypeOK
<1>2. profiles \in Seq(Profile) /\ custom \in 0 .. MaxAdded
  BY DEF VortexIInv, VortexTypeOK
<1>3. /\ profiles' = Append(profiles, [name |-> name, protocol |-> protocol])
      /\ running /\ (Saved \/ SaveFails) /\ custom' = custom
      /\ UNCHANGED <<running, protocol, refused, linkVars>>
  BY DEF AddProfile
<1>4. /\ profiles' \in Seq(Profile) /\ Len(profiles) <= Len(profiles')
      /\ \A k \in 1 .. Len(profiles) : profiles'[k] = profiles[k]
  BY <1>1, <1>2, <1>3
<1>5. custom <= custom'
  BY <1>2, <1>3, BoundAssumption
<1> QED BY <1>2, <1>3, <1>4, <1>5, AddedStepHolds

LEMMA AddCustomHolds ==
  ASSUME VortexIInv, AddCustom
  PROVE  VortexIInv'
<1>1. profiles \in Seq(Profile) /\ custom \in 0 .. MaxAdded /\ Len(profiles) \in Nat
  BY SettingsCounted
<1>2. /\ running /\ Len(profiles) + custom < MaxAdded /\ custom' = custom + 1
      /\ (Saved \/ SaveFails)
      /\ profiles' = profiles /\ UNCHANGED <<running, protocol, refused, linkVars>>
  BY DEF AddCustom, MayAdd
<1>3. custom' \in 0 .. MaxAdded /\ custom <= custom' /\ Len(profiles) <= Len(profiles')
  BY <1>1, <1>2, BoundAssumption
<1> QED BY <1>1, <1>2, <1>3, AddedStepHolds

LEMMA DiesHolds ==
  ASSUME VortexIInv, Dies, disk' \in {disk, Torn}
  PROVE  VortexIInv'
<1>1. VortexTypeOK'
  BY DEF Dies, chosen, VortexIInv, VortexTypeOK, BridgesTypeOK
<1>2. SavedInv'
  BY VortexAssumption DEF Dies, chosen, VortexIInv, SavedInv, Now
<1> QED BY <1>1, <1>2 DEF Dies, VortexIInv, Quiet, ListenInv, PublishedPortInv, ResolverInv

LEMMA BridgesStepHolds ==
  ASSUME VortexIInv, BridgesTypeOK', UNCHANGED <<running, chosen, fileVars, refused, servedVars>>
  PROVE  VortexIInv'
BY DEF VortexIInv, VortexTypeOK, Quiet, SavedInv, Now, ListenInv, PublishedPortInv, ResolverInv,
       chosen, servedVars, fileVars

LEMMA EditsTyped ==
  ASSUME BridgesTypeOK, EditBridges \/ EditPath \/ InstallHelpers
  PROVE  BridgesTypeOK'
BY DEF BridgesTypeOK, EditBridges, EditPath, InstallHelpers, Helpers

LEMMA VortexStepHolds == VortexIInv /\ [VortexNext]_vortexVars => VortexIInv'
<1> SUFFICES ASSUME VortexIInv, [VortexNext]_vortexVars PROVE VortexIInv'
  OBVIOUS
<1>0. Tor \in Protocols /\ Clear \in Protocols /\ Configs \subseteq Protocols /\ Bridged \subseteq Protocols
  BY DEF Protocols, TorModes
<1>1. CASE Start
  BY <1>1, StartHolds
<1>2. CASE \E p \in {Tor, Clear} \union Configs : UpdatesConfig(p)
  BY <1>0, <1>2, UpdatesConfigHolds
<1>3. CASE \E p \in Bridged : AskForBridge(p)
  BY <1>0, <1>3, UpdatesConfigHolds DEF AskForBridge
<1>4. CASE \E name \in Names : SwitchProfile(name)
  BY <1>4, MeantIsProtocol, UpdatesConfigHolds DEF SwitchProfile
<1>5. CASE \E name \in Names : AddProfile(name)
  BY <1>5, AddProfileHolds
<1>6. CASE AutoSwitch
  BY <1>0, <1>6, UpdatesConfigHolds DEF AutoSwitch
<1>7. CASE AddCustom
  BY <1>7, AddCustomHolds
<1>8. CASE InstallPt \/ Edit
  BY <1>8, EditsTyped, BridgesStepHolds DEF InstallPt, Edit, VortexIInv, VortexTypeOK
<1>9. CASE Crash \/ CrashWhileSaving
  BY <1>9, DiesHolds DEF Crash, CrashWhileSaving
<1>10. CASE UNCHANGED vortexVars
  <2>1. BridgesTypeOK' /\ UNCHANGED <<running, chosen, fileVars, refused, servedVars>>
    BY <1>10 DEF vortexVars, linkVars, bridgeVars, VortexIInv, VortexTypeOK, BridgesTypeOK
  <2> QED BY <2>1, BridgesStepHolds
<1> QED BY <1>1, <1>2, <1>3, <1>4, <1>5, <1>6, <1>7, <1>8, <1>9, <1>10 DEF VortexNext

-----------------------------------------------------------------------------
\* Every state of VortexSpec satisfies the inductive invariant: what is published
\* is ours, a process that is down serves nothing, and the file holds what the
\* process has, or had before the saves that failed.
THEOREM VortexInductive == VortexSpec => []VortexIInv
BY VortexInitHolds, VortexStepHolds, PTL DEF VortexSpec

\* The network layer keeps its types.
THEOREM VortexTyped == VortexSpec => []VortexTypeOK
BY VortexInductive, PTL DEF VortexIInv

\* A published port has our server and a Tor client behind it, or a V2Ray process
\* was started for it, over any sequence of modes, failed bootstraps, failed saves
\* and crashes.
THEOREM PublishedPortIsOurs == VortexSpec => []PublishedPortInv
BY VortexInductive, PTL DEF VortexIInv

\* A mode that was taken without an error has its own resolver, and a resolver over
\* Tor has a client.
THEOREM ResolverSuitsTheMode == VortexSpec => []ResolverInv
BY VortexInductive, PTL DEF VortexIInv

\* The next start has the settings of the last save that went through: all that the
\* process died with, or all but what was added or chosen since a save failed.
THEOREM SettingsLast == VortexSpec => SettingsAreDurable
<1> DEFINE Durable == /\ \E n \in 0 .. Len(profiles) : profiles' = SubSeq(profiles, 1, n)
                      /\ custom' <= custom
                      /\ ~unsaved => chosen' = chosen
<1>1. VortexIInv /\ [VortexNext]_vortexVars => [Start => Durable]_vortexVars
  <2> SUFFICES ASSUME VortexIInv, Start PROVE Durable
    OBVIOUS
  <2>1. /\ disk # Torn
        /\ protocol' = Loaded.protocol /\ profiles' = Loaded.profiles /\ custom' = Loaded.custom
    BY DEF Start
  <2>2. /\ Loaded \in Settings /\ Loaded.custom <= custom
        /\ Len(Loaded.profiles) <= Len(profiles)
        /\ \A k \in 1 .. Len(Loaded.profiles) : Loaded.profiles[k] = profiles[k]
        /\ ~unsaved => Loaded = Now
    BY <2>1, LoadedIsSaved
  <2>3. profiles \in Seq(Profile) /\ profiles' \in Seq(Profile)
    BY <2>1, <2>2 DEF Settings, VortexIInv, VortexTypeOK
  <2>4. Len(profiles') \in 0 .. Len(profiles)
    BY <2>1, <2>2, <2>3
  <2>5. \A k \in 1 .. Len(profiles') : profiles'[k] = profiles[k]
    BY <2>1, <2>2
  <2>6. profiles' = SubSeq(profiles, 1, Len(profiles'))
    <3>1. SubSeq(profiles, 1, Len(profiles')) = [k \in 1 .. Len(profiles') |-> profiles[k]]
      BY <2>3, <2>4
    <3>2. profiles' = [k \in 1 .. Len(profiles') |-> profiles'[k]]
      BY <2>3
    <3> QED BY <2>5, <3>1, <3>2
  <2>7. ~unsaved => chosen' = chosen
    BY <2>1, <2>2 DEF chosen, Now
  <2> QED BY <2>1, <2>2, <2>4, <2>6, <2>7
<1> QED BY <1>1, VortexInductive, PTL DEF VortexSpec, SettingsAreDurable

\* A client that is bootstrapped for a mode with a bridge goes over bridges, once
\* the mode's line is in the file and no helper is missing, whatever else the file
\* holds.
THEOREM BridgesAreTaken == VortexSpec => BridgedModeIsBridged
<1> DEFINE Usable == /\ LineOf[protocol'] \in bridges' \intersect Parses
                     /\ \A l \in bridges' : Available(l)
<1>1. VortexIInv /\ [VortexNext]_vortexVars =>
        [Bootstrapped /\ protocol' \in Bridged /\ Usable => route' = "bridges"]_vortexVars
  <2> SUFFICES ASSUME VortexIInv, Bootstrapped, protocol' \in Bridged, Usable
               PROVE  route' = "bridges"
    OBVIOUS
  <2>1. (Initialized(protocol') \/ InitializeFails(protocol')) /\ dns' = "Tor"
    BY DEF Bootstrapped, Start, UpdateConfig
  <2>2. protocol' \notin Configs \union {Unsupported} /\ protocol' \in TorModes
    BY VortexAssumption DEF TorModes
  <2>3. PICK b \in BOOLEAN : Bootstraps(protocol', b) /\ dns' = Resolver(protocol', b)
    BY <2>1, <2>2 DEF Initialized, InitializeTor, InitializeV2Ray, InitializeFails
  <2>4. b
    BY <2>1, <2>2, <2>3 DEF Resolver
  <2> QED BY <2>3, <2>4 DEF Bootstraps, Config, Available
<1> QED BY <1>1, VortexInductive, PTL DEF VortexSpec, BridgedModeIsBridged

\* Profiles that are a part of the former ones, from the front, give a name the
\* meaning it had or none.
LEMMA PrefixKeepsMeaning ==
  ASSUME profiles \in Seq(Profile), profiles' \in Seq(Profile), Len(profiles') <= Len(profiles),
         \A k \in 1 .. Len(profiles') : profiles'[k] = profiles[k],
         NEW name, Meant(name)' # {}
  PROVE  Meant(name)' = Meant(name)
<1> DEFINE First1(k) == profiles[k].name = name /\ \A j \in 1 .. k - 1 : profiles[j].name # name
           First2(k) == profiles'[k].name = name /\ \A j \in 1 .. k - 1 : profiles'[j].name # name
<1>1. /\ DOMAIN profiles = 1 .. Len(profiles) /\ Len(profiles) \in Nat
      /\ DOMAIN profiles' = 1 .. Len(profiles') /\ Len(profiles') \in Nat
  OBVIOUS
<1>2. Meant(name) = {profiles[k].protocol : k \in {k \in 1 .. Len(profiles) : First1(k)}}
  BY <1>1 DEF Meant
<1>3. Meant(name)' = {profiles'[k].protocol : k \in {k \in 1 .. Len(profiles') : First2(k)}}
  BY <1>1 DEF Meant
<1>4. PICK i \in 1 .. Len(profiles') : First2(i)
  BY <1>3
<1>5. \A k \in 1 .. Len(profiles') : First2(k) <=> First1(k)
  <2> SUFFICES ASSUME NEW k \in 1 .. Len(profiles') PROVE First2(k) <=> First1(k)
    OBVIOUS
  <2>1. \A j \in 1 .. k - 1 : profiles'[j] = profiles[j]
    BY <1>1
  <2> QED BY <2>1
<1>6. \A k \in 1 .. Len(profiles) : First1(k) => k \in 1 .. Len(profiles')
  <2> SUFFICES ASSUME NEW k \in 1 .. Len(profiles), First1(k), k > Len(profiles') PROVE FALSE
    BY <1>1
  <2>1. i \in 1 .. k - 1 /\ profiles[i].name = name
    BY <1>1, <1>4, <1>5
  <2> QED BY <2>1
<1>7. {k \in 1 .. Len(profiles') : First2(k)} = {k \in 1 .. Len(profiles) : First1(k)}
  <2> HIDE DEF First1, First2
  <2>1. 1 .. Len(profiles') \subseteq 1 .. Len(profiles)
    BY <1>1
  <2> QED BY <2>1, <1>5, <1>6
<1> HIDE DEF First1, First2
<1> QED BY <1>2, <1>3, <1>6, <1>7

\* A name that stands for a protocol stands for it for good, over saves under
\* the same name, mode switches, crashes and restarts, and after a failing save a
\* restart may at most forget it.
THEOREM NamesLast == VortexSpec => ProfilesKeepTheirMeaning
<1> DEFINE Kept == \A name \in Names : Meant(name) # {} =>
                     \/ Meant(name)' = Meant(name)
                     \/ Start /\ unsaved /\ Meant(name)' = {}
<1>1. VortexIInv /\ [VortexNext]_vortexVars => [Kept]_vortexVars
  <2> SUFFICES ASSUME VortexIInv, VortexNext PROVE Kept
    OBVIOUS
  <2>1. CASE profiles' = profiles
    BY <2>1 DEF Meant
  <2>2. CASE \E name \in Names : AddProfile(name)
    <3>1. PICK n \in Names : AddProfile(n)
      BY <2>2
    <3>2. [name |-> n, protocol |-> protocol] \in Profile
      BY DEF Profile, VortexIInv, VortexTypeOK
    <3>3. profiles' = Append(profiles, [name |-> n, protocol |-> protocol])
      BY <3>1 DEF AddProfile
    <3> QED BY <3>2, <3>3, AppendKeepsMeaning DEF VortexIInv, VortexTypeOK
  <2>3. CASE Start
    <3>1. disk # Torn /\ profiles' = Loaded.profiles
      BY <2>3 DEF Start
    <3>2. /\ Loaded \in Settings /\ Len(profiles') <= Len(profiles)
          /\ \A k \in 1 .. Len(profiles') : profiles'[k] = profiles[k]
          /\ ~unsaved => profiles' = profiles
      BY <3>1, LoadedIsSaved DEF Now
    <3>3. profiles \in Seq(Profile) /\ profiles' \in Seq(Profile)
      BY <3>1, <3>2 DEF Settings, VortexIInv, VortexTypeOK
    <3>4. CASE ~unsaved
      BY <3>2, <3>4, <2>1
    <3>5. CASE unsaved
      BY <2>3, <3>2, <3>3, <3>5, PrefixKeepsMeaning
    <3> QED BY <3>4, <3>5
  <2>4. CASE ~Start /\ ~(\E name \in Names : AddProfile(name))
    <3>1. profiles' = profiles
      BY <2>4 DEF VortexNext, UpdatesConfig, UpdateConfig, UpdateConfigFails, SetMode, AskForBridge,
                  SwitchProfile, AutoSwitch, AddCustom, InstallPt, Edit, Crash, CrashWhileSaving,
                  Dies, chosen
    <3> QED BY <3>1, <2>1
  <2> QED BY <2>2, <2>3, <2>4
<1> QED BY <1>1, VortexInductive, PTL DEF VortexSpec, ProfilesKeepTheirMeaning
=============================================================================
