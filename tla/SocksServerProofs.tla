-------------------------- MODULE SocksServerProofs --------------------------
(***************************************************************************)
(* The mutex on the Tor client for any number of connections and clients:  *)
(* who dials or copies holds it, and so dials and copies through the       *)
(* client that is behind it.                                               *)
(***************************************************************************)
EXTENDS SocksServer, TLAPS

Dialling == {"dialing", "tunnel"}

FunctionsOK == phase \in [Conns -> Phase] /\ via \in [Conns -> Nat] /\ client \in Nat

\* Whoever is past the lock has it, the core's test of a connection included.
HoldersHold ==
  /\ \A c \in Conns : phase[c] \in Dialling => holder = c
  /\ core = "dial" => holder = Core

\* The inductive invariant.
SocksIInv == FunctionsOK /\ HoldersHold /\ TunnelUsesCurrentClientInv

LEMMA SocksInitHolds == SocksInit => SocksIInv
BY HolderAssumption
   DEF SocksInit, SocksIInv, FunctionsOK, HoldersHold, TunnelUsesCurrentClientInv, Dialling, Phase

\* A step in which a connection only moves among the phases before the lock.
LEMMA BeforeTheLock ==
  ASSUME SocksIInv, NEW c \in Conns, NEW p \in Phase \ Dialling,
         Goes(c, p), UNCHANGED <<client, holder, via, core>>,
         phase[c] \notin Dialling
  PROVE  SocksIInv'
BY DEF SocksIInv, FunctionsOK, HoldersHold, TunnelUsesCurrentClientInv, Dialling, Phase, Goes

\* A connection that ends releases what it alone can hold.
LEMMA Released ==
  ASSUME SocksIInv, NEW c \in Conns,
         Goes(c, "closed"), holder' = Free, UNCHANGED <<client, via, core>>,
         phase[c] \in Dialling
  PROVE  SocksIInv'
<1>1. holder = c /\ core # "dial"
  BY CoreAssumption DEF SocksIInv, HoldersHold
<1>2. \A d \in Conns : phase'[d] \notin Dialling
  BY <1>1 DEF SocksIInv, HoldersHold, FunctionsOK, Goes, Dialling
<1>3. FunctionsOK'
  BY DEF SocksIInv, FunctionsOK, Goes, Phase
<1> QED BY <1>1, <1>2, <1>3 DEF SocksIInv, HoldersHold, TunnelUsesCurrentClientInv, Dialling

LEMMA LockedHolds ==
  ASSUME SocksIInv, NEW c \in Conns, Locked(c)
  PROVE  SocksIInv'
<1>1. core # "dial" /\ \A d \in Conns : phase[d] \notin Dialling
  BY HolderAssumption DEF Locked, SocksIInv, HoldersHold
<1>2. CASE client = 0
  BY <1>1, <1>2, BeforeTheLock DEF Locked, Phase, Dialling
<1>3. CASE client # 0
  <2>1. /\ phase' = [phase EXCEPT ![c] = "dialing"] /\ via' = [via EXCEPT ![c] = client]
        /\ holder' = c /\ UNCHANGED <<client, core>>
    BY <1>3 DEF Locked, Goes
  <2> QED BY <1>1, <2>1
          DEF SocksIInv, FunctionsOK, HoldersHold, TunnelUsesCurrentClientInv, Dialling, Phase
<1> QED BY <1>2, <1>3

LEMMA DialedHolds ==
  ASSUME SocksIInv, NEW c \in Conns, Dialed(c)
  PROVE  SocksIInv'
BY DEF Dialed, Goes, SocksIInv, FunctionsOK, HoldersHold, TunnelUsesCurrentClientInv, Dialling, Phase

LEMMA CopyEndsHolds ==
  ASSUME SocksIInv, NEW c \in Conns, NEW way \in Ways, CopyEnds(c, way)
  PROVE  SocksIInv'
<1>1. CASE copying[c] # {way}
  BY <1>1 DEF CopyEnds, SocksIInv, FunctionsOK, HoldersHold, TunnelUsesCurrentClientInv
<1>2. CASE copying[c] = {way}
  BY <1>2, Released DEF CopyEnds, Dialling
<1> QED BY <1>1, <1>2

\* The client is replaced only while the mutex is free, when nothing is dialled
\* or copied.
LEMMA CoreServedHolds ==
  ASSUME SocksIInv, CoreServed
  PROVE  SocksIInv'
<1>1. \A c \in Conns : phase[c] \notin Dialling
  BY HolderAssumption DEF CoreServed, SocksIInv, HoldersHold
<1>2. /\ UNCHANGED <<phase, via>> /\ client' \in {client, client + 1}
      /\ core' = "dial" => holder' = Core
  BY DEF CoreServed
<1>3. FunctionsOK'
  BY <1>2 DEF SocksIInv, FunctionsOK
<1> QED BY <1>1, <1>2, <1>3 DEF SocksIInv, HoldersHold, TunnelUsesCurrentClientInv, Dialling

LEMMA TestedHolds ==
  ASSUME SocksIInv, Tested
  PROVE  SocksIInv'
BY CoreAssumption DEF Tested, SocksIInv, FunctionsOK, HoldersHold, TunnelUsesCurrentClientInv

LEMMA AwaitsHolds ==
  ASSUME SocksIInv, NEW what \in {"store", "check", "status", "test"}, Awaits(what)
  PROVE  SocksIInv'
BY DEF Awaits, SocksIInv, FunctionsOK, HoldersHold, TunnelUsesCurrentClientInv

LEMMA ConnectionHolds ==
  ASSUME SocksIInv, NEW c \in Conns, Connection(c)
  PROVE  SocksIInv'
<1>1. CASE Accept(c) \/ BadRequest(c) \/ Request(c)
  BY <1>1, BeforeTheLock DEF Accept, BadRequest, Request, Phase, Dialling
<1>2. CASE Locked(c)
  BY <1>2, LockedHolds
<1>3. CASE DialFails(c)
  BY <1>3, Released DEF DialFails, Dialling
<1>4. CASE Dialed(c)
  BY <1>4, DialedHolds
<1>5. CASE \E way \in Ways : CopyEnds(c, way)
  BY <1>5, CopyEndsHolds
<1> QED BY <1>1, <1>2, <1>3, <1>4, <1>5 DEF Connection

LEMMA SocksStepHolds == SocksIInv /\ [SocksNext]_socksVars => SocksIInv'
<1> SUFFICES ASSUME SocksIInv, [SocksNext]_socksVars PROVE SocksIInv'
  OBVIOUS
<1>1. CASE \E c \in Conns : Connection(c)
  BY <1>1, ConnectionHolds
<1>2. CASE Initialize
  BY <1>2, AwaitsHolds DEF Initialize
<1>3. CASE LookAtClient
  BY <1>3, AwaitsHolds DEF LookAtClient
<1>4. CASE TestConnection
  BY <1>4, AwaitsHolds DEF TestConnection
<1>5. CASE CoreServed
  BY <1>5, CoreServedHolds
<1>6. CASE Tested
  BY <1>6, TestedHolds
<1>7. CASE UNCHANGED socksVars
  BY <1>7 DEF socksVars, SocksIInv, FunctionsOK, HoldersHold, TunnelUsesCurrentClientInv
<1> QED BY <1>1, <1>2, <1>3, <1>4, <1>5, <1>6, <1>7 DEF SocksNext

-----------------------------------------------------------------------------
\* A mode switch never replaces the Tor client under a connection: what is being
\* dialled or copied goes through the client behind the mutex (socks.rs keeps the
\* guard for the length of the tunnel).
THEOREM TunnelUsesCurrentClient == SocksSpec => []TunnelUsesCurrentClientInv
<1>1. SocksSpec => []SocksIInv
  BY SocksInitHolds, SocksStepHolds, PTL DEF SocksSpec
<1> QED BY <1>1, PTL DEF SocksIInv
=============================================================================
