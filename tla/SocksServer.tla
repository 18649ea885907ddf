----------------------------- MODULE SocksServer ----------------------------
(* The local SOCKS5 server and the one lock it shares with the core: a      *)
(* connection holds the TorClient's mutex from its request until both       *)
(* directions of its tunnel have ended, and initialize and the status page  *)
(* need the same mutex.  Mirrors network/src/socks.rs and the uses of       *)
(* tor_client in network/src/lib.rs.  tokio's Mutex is fair: first come,    *)
(* first served.                                                            *)
EXTENDS Integers, Sequences

CONSTANTS Conns,      \* connection slots of the WebViews
          Core,       \* the task of the core's loop
          MaxClients  \* bound on the TorClients ever bootstrapped

ASSUME CoreAssumption == Core \notin Conns
ASSUME MaxClientsAssumption == MaxClients \in Nat

Free == 0

ASSUME HolderAssumption == Free \notin Conns \union {Core}

Ways == {"c2r", "r2c"}

VARIABLES client,  \* the TorClient behind the mutex: 0 is None, n the nth bootstrapped
          queue,   \* who waits for the mutex, in order of arrival
          holder,  \* the connection, or Core, holding the mutex, or Free
          phase,   \* where each handle_socks_client is
          via,     \* the client a connection dialled through
          copying, \* the directions of its tunnel still being copied
          core     \* what the core's task awaits the mutex for, "idle" if nothing

socksVars == <<client, queue, holder, phase, via, copying, core>>

Phase == {"closed", "reading", "queued", "dialing", "tunnel"}
Await == {"idle", "store", "check", "status", "test", "dial"}

SocksInit ==
    /\ client = 0 /\ queue = <<>> /\ holder = Free
    /\ phase = [c \in Conns |-> "closed"]
    /\ via = [c \in Conns |-> 0]
    /\ copying = [c \in Conns |-> {}]
    /\ core = "idle"

Goes(c, p) == phase' = [phase EXCEPT ![c] = p]

---------------------------------------------------------------------------
(* A connection *)

Accept(c) == /\ phase[c] = "closed"
             /\ Goes(c, "reading")
             /\ UNCHANGED <<client, queue, holder, via, copying, core>>

(* Not SOCKS5, not CONNECT, an unreadable address, or the peer went away.   *)
BadRequest(c) == /\ phase[c] = "reading"
                 /\ Goes(c, "closed")
                 /\ UNCHANGED <<client, queue, holder, via, copying, core>>

(* mutant: the latest request is served first *)
QueueFirst(c) == queue' = <<c>> \o queue

QueueUp(c) == queue' = Append(queue, c)

Request(c) == /\ phase[c] = "reading"
              /\ Goes(c, "queued") /\ QueueUp(c)
              /\ UNCHANGED <<client, holder, via, copying, core>>

(* The mutex is free and c is next: without a client the request is refused *)
(* and the mutex released at once.                                          *)
Locked(c) ==
    /\ holder = Free /\ queue # <<>> /\ c = Head(queue)
    /\ queue' = Tail(queue)
    /\ \/ /\ client = 0
          /\ Goes(c, "closed") /\ UNCHANGED <<holder, via>>
       \/ /\ client # 0
          /\ Goes(c, "dialing") /\ holder' = c
          /\ via' = [via EXCEPT ![c] = client]
    /\ UNCHANGED <<client, copying, core>>

(* connect, and the reply the peer may no longer be there to read: an error *)
(* ends the handler.                                                        *)
DialFails(c) == /\ phase[c] = "dialing"
                /\ Goes(c, "closed") /\ holder' = Free
                /\ UNCHANGED <<client, queue, via, copying, core>>

(* mutant: the guard is dropped once connected *)
DialedUnlocked(c) == /\ phase[c] = "dialing"
                     /\ Goes(c, "tunnel") /\ holder' = Free
                     /\ copying' = [copying EXCEPT ![c] = Ways]
                     /\ UNCHANGED <<client, queue, via, core>>

Dialed(c) == /\ phase[c] = "dialing"
             /\ Goes(c, "tunnel")
             /\ copying' = [copying EXCEPT ![c] = Ways]
             /\ UNCHANGED <<client, queue, holder, via, core>>

(* One copy task ends; try_join waits for both, then the guard is dropped.  *)
CopyEnds(c, way) ==
    /\ phase[c] = "tunnel" /\ way \in copying[c]
    /\ copying' = [copying EXCEPT ![c] = @ \ {way}]
    /\ \/ /\ copying[c] # {way}
          /\ UNCHANGED <<phase, holder>>
       \/ /\ copying[c] = {way}
          /\ Goes(c, "closed") /\ holder' = Free
    /\ UNCHANGED <<client, queue, via, core>>

---------------------------------------------------------------------------
(* The core's task *)

Awaits(what) == /\ core = "idle"
                /\ core' = what /\ queue' = Append(queue, Core)
                /\ UNCHANGED <<client, holder, phase, via, copying>>

(* initialize: a bootstrapped client is stored, then the mutex is taken     *)
(* again to see whether there is one; after a failed bootstrap only that.   *)
Initialize == \/ client < MaxClients /\ Awaits("store")
              \/ Awaits("check")

(* status_snapshot and get_tor_client look into the mutex.                  *)
LookAtClient == Awaits("status")

(* sentinel://connect_test dials through the client with the mutex held.    *)
TestConnection == Awaits("test")

CoreServed ==
    /\ holder = Free /\ queue # <<>> /\ Head(queue) = Core
    /\ \/ /\ core = "store"
          /\ client' = client + 1 /\ core' = "check"
          /\ queue' = Append(Tail(queue), Core) /\ UNCHANGED holder
       \/ /\ core \in {"check", "status"} \/ (core = "test" /\ client = 0)
          /\ core' = "idle" /\ queue' = Tail(queue) /\ UNCHANGED <<client, holder>>
       \/ /\ core = "test" /\ client # 0
          /\ core' = "dial" /\ queue' = Tail(queue) /\ holder' = Core
          /\ UNCHANGED client
    /\ UNCHANGED <<phase, via, copying>>

(* connect returned, with a stream that is dropped or with an error.        *)
Tested == /\ core = "dial"
          /\ core' = "idle" /\ holder' = Free
          /\ UNCHANGED <<client, queue, phase, via, copying>>

---------------------------------------------------------------------------

Connection(c) == \/ Accept(c) \/ BadRequest(c) \/ Request(c) \/ Locked(c)
                 \/ DialFails(c) \/ Dialed(c) \/ \E way \in Ways : CopyEnds(c, way)

SocksNext == \/ \E c \in Conns : Connection(c)
             \/ Initialize \/ LookAtClient \/ TestConnection
             \/ CoreServed \/ Tested

(* The tasks run and connect returns, with a stream or with an error.       *)
(* Nothing makes a tunnel end: tokio::io::copy has no timeout.              *)
SocksFairness ==
    /\ WF_socksVars(CoreServed)
    /\ WF_socksVars(Tested)
    /\ \A c \in Conns : /\ WF_socksVars(Locked(c))
                        /\ WF_socksVars(DialFails(c) \/ Dialed(c))

SocksSpec == SocksInit /\ [][SocksNext]_socksVars /\ SocksFairness

---------------------------------------------------------------------------

(* A mode switch never replaces the TorClient under a connection: whatever  *)
(* is being dialled or copied goes through the client behind the mutex.     *)
TunnelUsesCurrentClientInv ==
    \A c \in Conns : phase[c] \in {"dialing", "tunnel"} => via[c] = client

(* A tunnel that the peers leave open, for ever.                            *)
OpenForEver(c) == <>[](phase[c] = "tunnel")

(* Only a tunnel that is never closed keeps anyone waiting for the mutex:   *)
(* without one a page's request is answered, and the core's task, on which  *)
(* every tab, page and mode switch depends, goes on, whatever mix of        *)
(* refused, failed and finished connections is ahead of it.  With one,      *)
(* everyone waits as long as it is open (lines 105-139).                    *)
EveryWaiterIsServed ==
    \/ \E c \in Conns : OpenForEver(c)
    \/ /\ \A c \in Conns : phase[c] = "queued" ~> phase[c] # "queued"
       /\ \A what \in Await \ {"idle"} : core = what ~> core # what
=============================================================================
