-------------------------------- MODULE Bridges --------------------------------
(***************************************************************************)
(* network/src/pt.rs and pt_fetch.rs: bridges.txt, the helper programs     *)
(* that bridges run over, and the configuration that a bootstrap of Tor's  *)
(* gets from them.  A line is what it needs and whether arti reads it; the *)
(* order of lines and their repetitions decide nothing.                    *)
(***************************************************************************)
CONSTANTS
  Bridged,   \* Protocol::Tor with a bridge; the pages only offer Snowflake
  Lines,     \* what bridges.txt may hold
  LineOf,    \* the line that initialize() writes for a protocol in Bridged
  Needs,     \* the helper a line runs over, or None
  Parses,    \* the lines that arti reads (external)
  Bundled,   \* the helpers inside the Tor Expert Bundle
  None

Helpers == Bundled \union ({Needs[l] : l \in Lines} \ {None})

ASSUME BridgesAssumption ==
  /\ LineOf \in [Bridged -> Lines]
  /\ DOMAIN Needs = Lines
  /\ Parses \subseteq Lines

VARIABLES
  bridges,   \* the lines of bridges.txt
  helpers,   \* the helpers which_bin() finds
  route      \* how the Tor client in use was bootstrapped: "direct", "bridges" or None

bridgeVars == <<bridges, helpers, route>>

BridgesTypeOK ==
  /\ bridges \subseteq Lines
  /\ helpers \subseteq Helpers
  /\ route \in {"direct", "bridges", None}

Available(l) == Needs[l] \in helpers \union {None}

\* build_tor_client_config: one line without its helper, or no line that can
\* be read, and the default configuration is taken.
Config(file) ==
  IF (\E l \in file : ~Available(l)) \/ file \intersect Parses = {}
    THEN "direct" ELSE "bridges"

\* A faulty order: the configuration is built before the line is written.
BootstrapsUnwritten(p, bootstrapped) ==
  /\ bridges' = bridges \union {LineOf[b] : b \in Bridged \intersect {p}}
  /\ route' = IF bootstrapped THEN Config(bridges) ELSE route
  /\ UNCHANGED helpers

\* The line of the protocol's bridge is appended, every time anew; that this
\* failed is not looked at.  A bootstrap that fails or times out after 60 s leaves
\* Tor to an earlier client, whatever that one was bootstrapped over.
Bootstraps(p, bootstrapped) ==
  /\ bridges' \in {bridges, bridges \union {LineOf[b] : b \in Bridged \intersect {p}}}
  /\ route' = IF bootstrapped THEN Config(bridges') ELSE route
  /\ UNCHANGED helpers

\* The user edits bridges.txt, or adds a helper to the PATH or takes one away.
EditBridges ==
  /\ \E l \in Lines : bridges' \in {bridges \union {l}, bridges \ {l}}
  /\ UNCHANGED <<helpers, route>>

EditPath ==
  /\ \E h \in Helpers : helpers' \in {helpers \union {h}, helpers \ {h}}
  /\ UNCHANGED <<bridges, route>>

\* sentinel://install_pt: a download that fails, a bundle without one of them
\* or an archive that breaks off leaves the helpers unpacked before.
InstallHelpers ==
  /\ helpers' \in {helpers \union got : got \in SUBSET Bundled}
  /\ UNCHANGED <<bridges, route>>
=============================================================================
