-------------------------------- MODULE Pool --------------------------------
(***************************************************************************)
(* One upstream connection pool of the gatekeeper's data plane             *)
(* (apps/gatekeeper/pkg/proxy/upstream.go).                                *)
(*                                                                         *)
(* A pool holds every TLS handshake to the leaf certificate it is pinned   *)
(* to.  The lock `pool.mu` is held only for short sections: a dial reads   *)
(* the pin, performs the handshake with the lock released and takes it     *)
(* again to register the connection; a re-pin and a sweep take the tracked *)
(* connections out under the lock and close them after releasing it.  Each *)
(* of those sections is one action here, so that they interleave freely.   *)
(*                                                                         *)
(* A member of Conns names one dial attempt and the connection it becomes; *)
(* a name is free again once its connection is closed.                     *)
(***************************************************************************)
CONSTANTS
    Conns,      \* names of dial attempts and of the connections they become
    Leaves,     \* leaf certificates an upstream can present
    NoPin       \* the empty pin: accept whatever certificate is presented

ASSUME NoPinAssumption == NoPin \notin Leaves

VARIABLES
    pin,        \* pool.pin
    dial,       \* dial[c]: progress of c, the pin it read, the leaf it saw
    conns       \* pool.conns: the connections the pool can reach to close

poolVars == <<pin, dial, conns>>

Pins == Leaves \cup {NoPin}

\* "none": free.  "dialing": pin read, handshake running.  "shaken": the
\* handshake passed the pin that was read.  "open": registered with the pool.
DialStates == {"none", "dialing", "shaken", "open"}

NoDial == [st |-> "none", pin |-> NoPin, leaf |-> NoPin]

PoolTypeOK ==
    /\ pin \in Pins
    /\ dial \in [Conns -> [st : DialStates, pin : Pins, leaf : Pins]]
    /\ conns \subseteq Conns

PoolInit ==
    /\ pin = NoPin
    /\ dial = [c \in Conns |-> NoDial]
    /\ conns = {}

OpenConns == {c \in Conns : dial[c].st = "open"}

\* Taken out of the map, or removed from it by Close, but not yet closed.
Closing == OpenConns \ conns

-----------------------------------------------------------------------------
(* dialTLS, in the three sections its lock divides it into. *)

\* The pin in force is read under the lock, before anything is dialled.
DialStart(c) ==
    /\ dial[c].st = "none"
    /\ dial' = [dial EXCEPT ![c] = [st |-> "dialing", pin |-> pin, leaf |-> NoPin]]
    /\ UNCHANGED <<pin, conns>>

\* TCP or TLS failure, or a peer with no certificate.
DialFails(c) ==
    /\ dial[c].st = "dialing"
    /\ dial' = [dial EXCEPT ![c] = NoDial]
    /\ UNCHANGED <<pin, conns>>

\* The handshake showed leaf l, which the pin read at the start accepts.
Handshake(c, l) ==
    /\ dial[c].st = "dialing"
    /\ dial[c].pin \in {NoPin, l}
    /\ dial' = [dial EXCEPT ![c].st = "shaken", ![c].leaf = l]
    /\ UNCHANGED <<pin, conns>>

\* The handshake showed leaf l, and the pin read at the start is another one.
HandshakeMismatch(c, l) ==
    /\ dial[c].st = "dialing"
    /\ dial[c].pin \notin {NoPin, l}
    /\ dial' = [dial EXCEPT ![c] = NoDial]
    /\ UNCHANGED <<pin, conns>>

\* The pin in force now decides: one that changed during the handshake and
\* is not this leaf invalidates the connection.
PinStillCoversMutant(c) == TRUE
PinStillCovers(c) == pin = dial[c].pin \/ pin = dial[c].leaf

Register(c) ==
    /\ dial[c].st = "shaken"
    /\ PinStillCovers(c)
    /\ dial' = [dial EXCEPT ![c].st = "open"]
    /\ conns' = conns \cup {c}
    /\ UNCHANGED pin

RegisterMismatch(c) ==
    /\ dial[c].st = "shaken"
    /\ ~PinStillCovers(c)
    /\ dial' = [dial EXCEPT ![c] = NoDial]
    /\ UNCHANGED <<pin, conns>>

-----------------------------------------------------------------------------
(* Re-pinning, sweeping and closing. *)

\* setPin: the flip and the sweep are one critical section; the swept
\* connections are closed after it, by Closed.
SetPinMutant(p) == pin' = p /\ UNCHANGED <<dial, conns>>
SetPin(p) ==
    /\ pin' = p
    /\ conns' = IF pin # p THEN {} ELSE conns
    /\ UNCHANGED dial

\* closeAll (take under the lock, close after it).
CloseAll ==
    /\ conns' = {}
    /\ UNCHANGED <<pin, dial>>

\* trackedConn.Close, first half: the pool forgets the connection.  Called
\* by the transport (idle timeout, a failed exchange, CloseIdleConnections).
Forget(c) ==
    /\ c \in conns
    /\ conns' = conns \ {c}
    /\ UNCHANGED <<pin, dial>>

\* CloseIdleConnections, which a replay calls: the idle connections go together.
ForgetIdle(idle) ==
    /\ conns' = conns \ idle
    /\ UNCHANGED <<pin, dial>>

\* trackedConn.Close, second half: the socket is closed.
ClosedMutant(c) == c \in Closing /\ UNCHANGED poolVars
Closed(c) ==
    /\ c \in Closing
    /\ dial' = [dial EXCEPT ![c] = NoDial]
    /\ UNCHANGED <<pin, conns>>

ConnStep(c) ==
    \/ DialStart(c)
    \/ DialFails(c)
    \/ \E l \in Leaves : Handshake(c, l) \/ HandshakeMismatch(c, l)
    \/ Register(c)
    \/ RegisterMismatch(c)
    \/ Forget(c)
    \/ Closed(c)

PoolNext ==
    \/ \E c \in Conns : ConnStep(c)
    \/ \E p \in Pins : SetPin(p)
    \/ \E idle \in SUBSET conns : ForgetIdle(idle)
    \/ CloseAll

PoolSpec == PoolInit /\ [][PoolNext]_poolVars

\* Closing a connection is a straight line of code after the lock is
\* released, so it is always completed.
PoolFairSpec == PoolSpec /\ \A c \in Conns : WF_poolVars(Closed(c))

-----------------------------------------------------------------------------
(* Properties *)

\* While the pool is pinned, every connection it tracks was opened to the
\* pinned leaf, however dials, handshakes and re-pins interleave (dialTLS and
\* setPin, upstream.go).
PinnedConns == pin # NoPin => \A c \in conns : dial[c].leaf = pin

\* When the pin is lifted, no connection that was opened under a pin stays
\* tracked: a denial takes them all down (setPin(""), dialTLS's second check).
LiftedPinKeepsNothing == pin = NoPin => \A c \in conns : dial[c].pin = NoPin

\* A tracked connection is an established one: the map never names a dial
\* that was refused or a connection that is closed (registration and forget).
TrackedAreOpen == conns \subseteq OpenConns

\* A connection that a re-pin no longer covers is closed in the end, unless
\* the pool is re-pinned once more (setPin closes what it swept).
StaleConnsClose ==
    \A c \in Conns : \A l \in Leaves :
        (pin = l /\ c \in OpenConns /\ dial[c].leaf # l)
            ~> (c \notin OpenConns \/ pin # l)
=============================================================================
