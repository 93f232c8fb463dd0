----------------------------- MODULE PoolProofs -----------------------------
(***************************************************************************)
(* Proofs about Pool: a pinned pool tracks connections to the pinned leaf  *)
(* only, for every set of connections and leaves.                          *)
(***************************************************************************)
EXTENDS Pool, TLAPS

\* What a dial has seen: a handshake that passed showed a leaf that the pin
\* read at its start accepts, and the dial still remembers both.
DialsSawTheirPin ==
    \A c \in Conns : dial[c].st \in {"shaken", "open"} =>
        /\ dial[c].leaf \in Leaves
        /\ dial[c].pin \in {NoPin, dial[c].leaf}

\* The inductive invariant.
PoolInv ==
    /\ PoolTypeOK
    /\ DialsSawTheirPin
    /\ TrackedAreOpen
    /\ PinnedConns
    /\ LiftedPinKeepsNothing

\* The pool starts in the inductive invariant (newPool).
LEMMA PoolInitInv == PoolInit => PoolInv
BY DEF PoolInit, PoolInv, PoolTypeOK, DialsSawTheirPin, TrackedAreOpen,
       PinnedConns, LiftedPinKeepsNothing, NoDial, Pins, DialStates, OpenConns

\* Every section of upstream.go that holds the lock keeps the invariant.
LEMMA PoolStepInv == PoolInv /\ [PoolNext]_poolVars => PoolInv'
<1> SUFFICES ASSUME PoolInv, [PoolNext]_poolVars PROVE PoolInv'
  OBVIOUS
<1> USE NoPinAssumption DEF PoolInv, PoolTypeOK, DialsSawTheirPin, TrackedAreOpen,
       PinnedConns, LiftedPinKeepsNothing, NoDial, Pins, DialStates, OpenConns
<1>1. ASSUME NEW c \in Conns, DialStart(c) PROVE PoolInv'
  BY <1>1 DEF DialStart
<1>2. ASSUME NEW c \in Conns, DialFails(c) PROVE PoolInv'
  BY <1>2 DEF DialFails
<1>3. ASSUME NEW c \in Conns, NEW l \in Leaves, Handshake(c, l) PROVE PoolInv'
  BY <1>3 DEF Handshake
<1>4. ASSUME NEW c \in Conns, NEW l \in Leaves, HandshakeMismatch(c, l) PROVE PoolInv'
  BY <1>4 DEF HandshakeMismatch
<1>5. ASSUME NEW c \in Conns, Register(c) PROVE PoolInv'
  BY <1>5 DEF Register, PinStillCovers
<1>6. ASSUME NEW c \in Conns, RegisterMismatch(c) PROVE PoolInv'
  BY <1>6 DEF RegisterMismatch
<1>7. ASSUME NEW c \in Conns, Forget(c) PROVE PoolInv'
  BY <1>7 DEF Forget
<1>8. ASSUME NEW c \in Conns, Closed(c) PROVE PoolInv'
  BY <1>8 DEF Closed, Closing
<1>9. ASSUME NEW p \in Pins, SetPin(p) PROVE PoolInv'
  BY <1>9 DEF SetPin
<1>10. ASSUME NEW idle \in SUBSET conns, ForgetIdle(idle) PROVE PoolInv'
  BY <1>10 DEF ForgetIdle
<1>11. CASE CloseAll
  BY <1>11 DEF CloseAll
<1>12. CASE UNCHANGED poolVars
  BY <1>12 DEF poolVars
<1> QED
  BY <1>1, <1>2, <1>3, <1>4, <1>5, <1>6, <1>7, <1>8, <1>9, <1>10, <1>11, <1>12
     DEF PoolNext, ConnStep

\* The inductive invariant holds throughout (upstream.go).
THEOREM PoolInvariant == PoolSpec => []PoolInv
<1>1. PoolInit => PoolInv  BY PoolInitInv
<1>2. PoolInv /\ [PoolNext]_poolVars => PoolInv'  BY PoolStepInv
<1> QED  BY <1>1, <1>2, PTL DEF PoolSpec

\* Type correctness of the pool.
THEOREM PoolTypeCorrect == PoolSpec => []PoolTypeOK
<1>1. PoolInv => PoolTypeOK  BY DEF PoolInv
<1> QED  BY <1>1, PoolInvariant, PTL

\* However dials and re-pins interleave, a pinned pool only tracks connections
\* to the pinned leaf (dialTLS and setPin).
THEOREM PoolPinned == PoolSpec => []PinnedConns
<1>1. PoolInv => PinnedConns  BY DEF PoolInv
<1> QED  BY <1>1, PoolInvariant, PTL

\* Lifting the pin leaves nothing behind that was opened under it.
THEOREM PoolLifted == PoolSpec => []LiftedPinKeepsNothing
<1>1. PoolInv => LiftedPinKeepsNothing  BY DEF PoolInv
<1> QED  BY <1>1, PoolInvariant, PTL

\* The map of tracked connections names established ones only.
THEOREM PoolTracked == PoolSpec => []TrackedAreOpen
<1>1. PoolInv => TrackedAreOpen  BY DEF PoolInv
<1> QED  BY <1>1, PoolInvariant, PTL
=============================================================================
