------------------------------- MODULE Clock --------------------------------
(***************************************************************************)
(* The clock subscription and the subscribe events: clock.go,              *)
(* stream/clock.go and, for the clock's pool, New, Close and Read of       *)
(* stream.go.                                                              *)
(*                                                                         *)
(* One goroutine ticks and writes the time to every connection of the      *)
(* clock's pool; each connection has a handler, which registers it and     *)
(* leaves the first message to a goroutine of its own.  The broadcasts of  *)
(* data take the same lock and are the subject of Stream; the life of the  *)
(* ticker, and that a restart may leave two, that of Lifecycle.            *)
(***************************************************************************)
EXTENDS Naturals

CONSTANTS
    Conns,
    MaxTime             \* bound on the time

ASSUME TimeAssumption == MaxTime \in Nat \ {0}

VARIABLES
    now,            \* the time of the last call of Time
    tick,           \* the broadcast the ticker is in: its time and whom it has yet to write to
    connections,    \* pools[0].connections
    handler,        \* where the handler of each connection is
    open,           \* the connections that have not ended
    owed,           \* the time that "go WriteClock" of a handler still has to write, or 0
    told,           \* the time each client was told last, 0 before
    backs,          \* history: how often each client's time went back
    believed        \* who has subscribed and not unsubscribed, going by the events

vars == <<now, tick, connections, handler, open, owed, told, backs, believed>>

Waiting == [pc |-> "wait", data |-> 0, todo |-> {}]

TypeOK ==
    /\ now \in 1 .. MaxTime
    /\ tick \in [pc : {"wait", "lock", "write"}, data : 0 .. MaxTime, todo : SUBSET Conns]
    /\ connections \subseteq Conns
    /\ handler \in [Conns -> {"idle", "accepted", "refused", "upgraded", "registered",
                              "reading", "closed", "gone"}]
    /\ open \subseteq Conns
    /\ owed \in [Conns -> 0 .. MaxTime]
    /\ told \in [Conns -> 0 .. MaxTime]
    /\ backs \in [Conns -> Nat]
    /\ believed \subseteq Conns

Init ==
    /\ now = 1
    /\ tick = Waiting
    /\ connections = {}
    /\ handler = [c \in Conns |-> "idle"]
    /\ open = {}
    /\ owed = [c \in Conns |-> 0]
    /\ told = [c \in Conns |-> 0]
    /\ backs = [c \in Conns |-> 0]
    /\ believed = {}

\* Time() gives n: not less than before, for the wall clock is not set back, and
\* the same again when the clock is coarse.
Time(n) == n \in now .. MaxTime /\ n <= now + 1 /\ now' = n

-----------------------------------------------------------------------------
(***************************************************************************)
(* The ticker.                                                             *)
(***************************************************************************)
Tick(n) ==
    /\ tick.pc = "wait"
    /\ Time(n)
    /\ tick' = [tick EXCEPT !.pc = "lock", !.data = n]
    /\ UNCHANGED <<connections, handler, open, owed, told, backs, believed>>

RLock ==
    /\ tick.pc = "lock"
    /\ tick' = [tick EXCEPT !.pc = "write", !.todo = connections]
    /\ UNCHANGED <<now, connections, handler, open, owed, told, backs, believed>>

\* WriteClock of the time n to the client of c, which gets it if it is there.
WriteClock(c, n) ==
    IF c \in open
    THEN /\ told' = [told EXCEPT ![c] = n]
         /\ backs' = [backs EXCEPT ![c] = IF n < told[c] THEN @ + 1 ELSE @]
    ELSE UNCHANGED <<told, backs>>

WriteTick(c) ==
    /\ tick.pc = "write" /\ c \in tick.todo
    /\ WriteClock(c, tick.data)
    /\ tick' = [tick EXCEPT !.todo = @ \ {c}]
    /\ UNCHANGED <<now, connections, handler, open, owed, believed>>

RUnlock ==
    /\ tick.pc = "write" /\ tick.todo = {}
    /\ tick' = [tick EXCEPT !.pc = "wait"]
    /\ UNCHANGED <<now, connections, handler, open, owed, told, backs, believed>>

RLocked == tick.pc = "write"

-----------------------------------------------------------------------------
(***************************************************************************)
(* Handlers.                                                               *)
(***************************************************************************)
Goes(c, from, to) ==
    /\ handler[c] = from
    /\ handler' = [handler EXCEPT ![c] = to]

\* OnSubscribe accepts; a request that it or Audit refuses leaves no trace.
Accept(c) ==
    /\ Goes(c, "idle", "accepted")
    /\ believed' = believed \cup {c}
    /\ UNCHANGED <<now, tick, connections, open, owed, told, backs>>

UpgradeFails(c) ==
    /\ Goes(c, "accepted", "refused")
    /\ UNCHANGED <<now, tick, connections, open, owed, told, backs, believed>>

Upgrade(c) ==
    /\ Goes(c, "accepted", "upgraded")
    /\ open' = open \cup {c}
    /\ UNCHANGED <<now, tick, connections, owed, told, backs, believed>>

\* Mutant of Register: the list of connections is replaced, not appended to.
RegisterAloneMutant(c) ==
    /\ ~RLocked
    /\ Goes(c, "upgraded", "registered")
    /\ connections' = {c}
    /\ UNCHANGED <<now, tick, open, owed, told, backs, believed>>

\* new: sm.mutex.Lock, and the connection joins the pool.
Register(c) ==
    /\ ~RLocked
    /\ Goes(c, "upgraded", "registered")
    /\ connections' = connections \cup {c}
    /\ UNCHANGED <<now, tick, open, owed, told, backs, believed>>

\* The handler takes the time for the first message, and reads.
Greet(c, n) ==
    /\ Goes(c, "registered", "reading")
    /\ Time(n)
    /\ owed' = [owed EXCEPT ![c] = n]
    /\ UNCHANGED <<tick, connections, open, told, backs, believed>>

\* Mutant of WriteInitial: the goroutine writes its message again and again.
WriteInitialAgainMutant(c) ==
    /\ owed[c] # 0 /\ backs[c] < MaxTime
    /\ WriteClock(c, owed[c])
    /\ UNCHANGED <<now, tick, connections, handler, open, owed, believed>>

WriteInitial(c) ==
    /\ owed[c] # 0
    /\ WriteClock(c, owed[c])
    /\ owed' = [owed EXCEPT ![c] = 0]
    /\ UNCHANGED <<now, tick, connections, handler, open, believed>>

\* The peer leaves, or a write to it fails or takes longer than its deadline.
Drop(c) ==
    /\ c \in open
    /\ open' = open \ {c}
    /\ UNCHANGED <<now, tick, connections, handler, owed, told, backs, believed>>

\* Mutant of Close: the application is not told.
CloseUnnoticedMutant(c) ==
    /\ c \notin open /\ ~RLocked
    /\ Goes(c, "reading", "gone")
    /\ connections' = connections \ {c}
    /\ UNCHANGED <<now, tick, open, owed, told, backs, believed>>

\* Read gets an error: Close takes the connection out of the pool.
Close(c) ==
    /\ c \notin open /\ ~RLocked
    /\ Goes(c, "reading", "closed")
    /\ connections' = connections \ {c}
    /\ UNCHANGED <<now, tick, open, owed, told, backs, believed>>

\* "go sm.OnUnsubscribe"
Unsubscribed(c) ==
    /\ Goes(c, "closed", "gone")
    /\ believed' = believed \ {c}
    /\ UNCHANGED <<now, tick, connections, open, owed, told, backs>>

-----------------------------------------------------------------------------
TickerStep ==
    \/ \E n \in 1 .. MaxTime : Tick(n)
    \/ RLock \/ RUnlock
    \/ \E c \in Conns : WriteTick(c)

HandlerStep(c) ==
    \/ Accept(c) \/ UpgradeFails(c) \/ Upgrade(c) \/ Register(c)
    \/ \E n \in 1 .. MaxTime : Greet(c, n)
    \/ WriteInitial(c) \/ Drop(c) \/ Close(c) \/ Unsubscribed(c)

Next == TickerStep \/ \E c \in Conns : HandlerStep(c)

Spec == Init /\ [][Next]_vars

\* The ticker ticks, and each of its writes ends by its deadline.
FairSpec == Spec /\ WF_vars(TickerStep)

-----------------------------------------------------------------------------
\* A client's time goes on, but for once: the first message of its handler is
\* written by a goroutine of its own, which a tick may overtake, and a tick that
\* took its time earlier may come after it (clock.go:18, 47).  For that a ticker
\* waits for its broadcast before it takes the next time.
TimeGoesOn == \A c \in Conns : backs[c] <= 1

\* Between events the application believes in the connections of the pool, and
\* in those whose upgrade failed after OnSubscribe had accepted them, of which
\* nobody tells it (stream.go:101-111, 163).
Settled == \A c \in Conns : handler[c] \in {"idle", "refused", "registered", "reading", "gone"}

EventsPaired ==
    Settled => believed = connections \cup {c \in Conns : handler[c] = "refused"}

\* What makes these two hold after any number of steps.  Ticks alone are in
\* order; a client that was told more than the tick under way has yet to go back.
TimeInv ==
    /\ tick.data <= now
    /\ \A c \in Conns :
          /\ told[c] <= now /\ owed[c] <= now
          /\ owed[c] # 0 => handler[c] \in {"reading", "closed", "gone"}
          /\ owed[c] # 0 \/ handler[c] \notin {"reading", "closed", "gone"}
                => backs[c] = 0 /\ told[c] <= tick.data
          /\ backs[c] = 0 \/ (backs[c] = 1 /\ told[c] <= tick.data)

EventsInv ==
    /\ believed = {c \in Conns : handler[c] \notin {"idle", "gone"}}
    /\ connections = {c \in Conns : handler[c] \in {"registered", "reading"}}

\* A connection of the pool is told the time, as late as it is, unless it ends:
\* whoever comes and goes meanwhile, the ticker misses none (stream/clock.go).
HearsTicks ==
    \A c \in Conns, n \in 1 .. MaxTime :
       c \in connections /\ now = n ~> told[c] >= n \/ c \notin open
=============================================================================
