----------------------------- MODULE ClockProofs ------------------------------
(***************************************************************************)
(* Theorems about Clock, for any number of clients and any bound on the    *)
(* time.                                                                   *)
(***************************************************************************)
EXTENDS Clock, TLAPS

ClockInv == TypeOK /\ TimeInv /\ EventsInv

LEMMA ClockInitInv == Init => ClockInv
BY TimeAssumption DEF Init, ClockInv, TypeOK, TimeInv, EventsInv, Waiting

(***************************************************************************)
(* The types.                                                              *)
(***************************************************************************)
LEMMA TickerTyped ==
    ASSUME TypeOK, TickerStep PROVE TypeOK'
<1>1. ASSUME NEW n \in 1 .. MaxTime, Tick(n) PROVE TypeOK'
    <2>1. tick' \in [pc : {"wait", "lock", "write"}, data : 0 .. MaxTime, todo : SUBSET Conns]
        <3>1. n \in 0 .. MaxTime
            BY TimeAssumption
        <3> QED
            BY <1>1, <3>1 DEF TypeOK, Tick
    <2>2. now' \in 1 .. MaxTime
        BY <1>1 DEF Tick, Time
    <2> QED
        BY <1>1, <2>1, <2>2 DEF TypeOK, Tick
<1>2. ASSUME RLock PROVE TypeOK'
    BY <1>2, TimeAssumption DEF TypeOK, RLock
<1>3. ASSUME RUnlock PROVE TypeOK'
    BY <1>3, TimeAssumption DEF TypeOK, RUnlock
<1>4. ASSUME NEW c \in Conns, WriteTick(c) PROVE TypeOK'
    BY <1>4, TimeAssumption DEF TypeOK, WriteTick, WriteClock
<1> QED
    BY <1>1, <1>2, <1>3, <1>4 DEF TickerStep

LEMMA HandlerTyped ==
    ASSUME TypeOK, NEW c \in Conns, HandlerStep(c) PROVE TypeOK'
<1>1. ASSUME NEW n \in 1 .. MaxTime, Greet(c, n) PROVE TypeOK'
    BY <1>1, TimeAssumption DEF TypeOK, Greet, Goes, Time
<1>2. ASSUME WriteInitial(c) PROVE TypeOK'
    BY <1>2, TimeAssumption DEF TypeOK, WriteInitial, WriteClock
<1>3. ASSUME Accept(c) \/ UpgradeFails(c) \/ Upgrade(c) \/ Register(c) PROVE TypeOK'
    BY <1>3, TimeAssumption DEF TypeOK, Accept, UpgradeFails, Upgrade, Register, Goes
<1>4. ASSUME Drop(c) \/ Close(c) \/ Unsubscribed(c) PROVE TypeOK'
    BY <1>4, TimeAssumption DEF TypeOK, Drop, Close, Unsubscribed, Goes
<1> QED
    BY <1>1, <1>2, <1>3, <1>4 DEF HandlerStep

(***************************************************************************)
(* What each client was told, and how often it went back.                  *)
(***************************************************************************)
LEMMA TickerInOrder ==
    ASSUME TypeOK, TimeInv, TickerStep PROVE TimeInv'
<1>1. ASSUME NEW n \in 1 .. MaxTime, Tick(n) PROVE TimeInv'
    BY <1>1, TimeAssumption DEF TypeOK, TimeInv, Tick, Time
<1>2. ASSUME RLock \/ RUnlock PROVE TimeInv'
    BY <1>2, TimeAssumption DEF TypeOK, TimeInv, RLock, RUnlock
<1>3. ASSUME NEW c \in Conns, WriteTick(c) PROVE TimeInv'
    BY <1>3, TimeAssumption DEF TypeOK, TimeInv, WriteTick, WriteClock
<1> QED
    BY <1>1, <1>2, <1>3 DEF TickerStep

LEMMA HandlerInOrder ==
    ASSUME TypeOK, TimeInv, NEW c \in Conns, HandlerStep(c) PROVE TimeInv'
<1>1. ASSUME NEW n \in 1 .. MaxTime, Greet(c, n) PROVE TimeInv'
    BY <1>1, TimeAssumption DEF TypeOK, TimeInv, Greet, Goes, Time
<1>2. ASSUME WriteInitial(c) PROVE TimeInv'
    BY <1>2, TimeAssumption DEF TypeOK, TimeInv, WriteInitial, WriteClock
<1>3. ASSUME Accept(c) \/ UpgradeFails(c) \/ Upgrade(c) \/ Register(c) PROVE TimeInv'
    BY <1>3, TimeAssumption DEF TypeOK, TimeInv, Accept, UpgradeFails, Upgrade, Register, Goes
<1>4. ASSUME Drop(c) \/ Close(c) \/ Unsubscribed(c) PROVE TimeInv'
    BY <1>4, TimeAssumption DEF TypeOK, TimeInv, Drop, Close, Unsubscribed, Goes
<1> QED
    BY <1>1, <1>2, <1>3, <1>4 DEF HandlerStep

(***************************************************************************)
(* The pool and the events.                                                *)
(***************************************************************************)
LEMMA HandlerPaired ==
    ASSUME TypeOK, EventsInv, NEW c \in Conns, HandlerStep(c) PROVE EventsInv'
<1>1. ASSUME NEW n \in 1 .. MaxTime, Greet(c, n) PROVE EventsInv'
    BY <1>1, TimeAssumption DEF TypeOK, EventsInv, Greet, Goes
<1>2. ASSUME WriteInitial(c) \/ Drop(c) PROVE EventsInv'
    BY <1>2, TimeAssumption DEF TypeOK, EventsInv, WriteInitial, Drop
<1>3. ASSUME Accept(c) \/ UpgradeFails(c) \/ Upgrade(c) \/ Register(c) PROVE EventsInv'
    BY <1>3, TimeAssumption DEF TypeOK, EventsInv, Accept, UpgradeFails, Upgrade, Register, Goes
<1>4. ASSUME Close(c) \/ Unsubscribed(c) PROVE EventsInv'
    BY <1>4, TimeAssumption DEF TypeOK, EventsInv, Close, Unsubscribed, Goes
<1> QED
    BY <1>1, <1>2, <1>3, <1>4 DEF HandlerStep

LEMMA TickerPaired ==
    ASSUME EventsInv, TickerStep PROVE EventsInv'
BY DEF EventsInv, TickerStep, Tick, RLock, RUnlock, WriteTick

LEMMA ClockInvariant == Spec => []ClockInv
<1>1. ClockInv /\ [Next]_vars => ClockInv'
    <2> SUFFICES ASSUME ClockInv, [Next]_vars PROVE ClockInv'
        OBVIOUS
    <2>1. CASE TickerStep
        BY <2>1, TickerTyped, TickerInOrder, TickerPaired DEF ClockInv
    <2>2. ASSUME NEW c \in Conns, HandlerStep(c) PROVE ClockInv'
        BY <2>2, HandlerTyped, HandlerInOrder, HandlerPaired DEF ClockInv
    <2>3. CASE UNCHANGED vars
        BY <2>3 DEF vars, ClockInv, TypeOK, TimeInv, EventsInv
    <2> QED
        BY <2>1, <2>2, <2>3 DEF Next
<1> QED
    BY <1>1, ClockInitInv, PTL DEF Spec

\* The ticker, the pool and the handlers keep their types (clock.go).
THEOREM ClockTyped == Spec => []TypeOK
<1>1. ClockInv => TypeOK
    BY DEF ClockInv
<1> QED
    BY <1>1, ClockInvariant, PTL

\* No client is told a time before the last one it was told more than once,
\* whenever its first message is written (clock.go:18, 47).
THEOREM TimeGoesBackOnce == Spec => []TimeGoesOn
<1>1. ASSUME ClockInv, NEW c \in Conns PROVE backs[c] <= 1
    BY <1>1 DEF ClockInv, TimeInv
<1>2. ClockInv => TimeGoesOn
    BY <1>1 DEF TimeGoesOn
<1> QED
    BY <1>2, ClockInvariant, PTL

\* Between events, who is in the pool is who subscribed and did not leave, but
\* for the upgrades that failed (stream.go:101-111, 163).
THEOREM EventsTellThePool == Spec => []EventsPaired
<1>1. ClockInv => EventsPaired
    BY DEF ClockInv, TypeOK, EventsInv, EventsPaired, Settled
<1> QED
    BY <1>1, ClockInvariant, PTL

=============================================================================
