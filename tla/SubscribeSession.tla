-------------------------- MODULE SubscribeSession --------------------------
(***************************************************************************)
(* The Go client's Subscribe on a server: what the callback is told of a   *)
(* path over all the connections of the loop (ClientSubscribe), when each  *)
(* of them is served by a handler (ws.go) of the path's pool (stream.go).  *)
(*                                                                         *)
(* The server is as BroadcastBus, which Stream implements, allows: one     *)
(* worker at a time holds the pool's mutex, reads the data of the path and *)
(* sends the difference from the pool's cache to its connections.  A       *)
(* handler joins the pool, reads the data, asks for the version and hands  *)
(* the initial snapshot to a goroutine.  Data are numbered by the          *)
(* operations that made them.  The client keeps one cache for all its      *)
(* connections (subscribe.go:38) and gives no version.                     *)
(*                                                                         *)
(* The data of the path is one datum, read in one step.  That is so of a   *)
(* key; of a list (memory.go:120-132 loads key after key) the module says  *)
(* of each of its keys what it says of the datum.                          *)
(***************************************************************************)
EXTENDS ClientSubscribe, Sequences

CONSTANTS
    MaxWrites,          \* bound on the operations on the path
    Foreign,            \* data that is not of the callback's type
    Nothing,            \* no data
    Garbage             \* data that nobody stored

ASSUME SessionAssumption ==
    /\ MaxWrites \in Nat
    /\ Foreign \subseteq Nat
    /\ Nothing \notin Nat /\ Garbage \notin Nat /\ Nothing # Garbage

VARIABLES
    store,              \* the data of the path
    events,             \* its operations whose broadcast has not begun
    locked, seen,       \* a worker holds the pool's mutex and has read this data
    pool,               \* the pool's cache
    hand, got,          \* the handler of each connection, the data it has read
    wire,               \* messages of wsClient sent and not read, FIFO
    cache,              \* the client's cache
    told,               \* history: what the callback was told last
    clean               \* history: wsClient has hit no window of Stream

serverVars == <<store, events, locked, seen, pool, hand, got>>
ownVars == <<wire, cache, told>>
sessionVars == <<vars, serverVars, ownVars, clean>>

Conns == 1 .. MaxDials
Datum == 0 .. MaxWrites
Message == [snapshot : BOOLEAN, base : Datum \cup {Nothing}, data : Datum]

SessionTyped ==
    /\ TypeOK
    /\ store \in Datum /\ events \in Datum
    /\ locked \in BOOLEAN /\ seen \in Datum
    /\ pool \in Datum \cup {Nothing}
    /\ hand \in [Conns -> {"none", "join", "get", "version", "set", "init", "done"}]
    /\ got \in [Conns -> Datum]
    /\ wire \in Seq(Message) /\ buffered <= Len(wire)
    /\ cache \in Datum \cup {Nothing, Garbage} /\ told \in Datum \cup {Nothing, Garbage}
    /\ clean \in BOOLEAN

SessionInit ==
    /\ Init
    /\ store = 0 /\ events = 0
    /\ locked = FALSE /\ seen = 0
    /\ pool = Nothing
    /\ hand = [n \in Conns |-> "none"] /\ got = [n \in Conns |-> 0]
    /\ wire = <<>>
    /\ cache = Nothing /\ told = Nothing
    /\ clean = FALSE

-----------------------------------------------------------------------------
(***************************************************************************)
(* The server.                                                             *)
(***************************************************************************)
\* The client reads what is sent to connection n now.
Reads(n) == loop = "read" /\ n = wsClient /\ n \in open \cap up

\* Connection n is in the pool.
Joined(n) == n # Nil /\ hand[n] \notin {"none", "join"}

\* Stream.Write to connection n.
Send(n, message) == wire' = IF Reads(n) THEN Append(wire, message) ELSE wire

\* Mutant of Write: nothing is sent for a pool that has no cache yet.
WriteSilentMutant ==
    /\ store < MaxWrites
    /\ store' = store + 1
    /\ events' = IF pool = Nothing THEN events ELSE events + 1
    /\ UNCHANGED <<vars, locked, seen, pool, hand, got, ownVars, clean>>

\* An operation that changes the data of the path.
Write ==
    /\ store < MaxWrites
    /\ store' = store + 1
    /\ events' = events + 1
    /\ UNCHANGED <<vars, locked, seen, pool, hand, got, ownVars, clean>>

\* A worker has received the path, takes the pool's mutex and reads the data: a
\* write between the two and the load of the datum is one that came before them.
Collect ==
    /\ events > 0 /\ ~locked
    /\ events' = events - 1
    /\ locked' = TRUE
    /\ seen' = store
    /\ UNCHANGED <<vars, store, pool, hand, got, ownVars, clean>>

\* Patch and broadcast: a snapshot, or the difference from the cache.
Tell(snapshot) ==
    /\ locked
    /\ snapshot \/ pool # Nothing
    /\ locked' = FALSE
    /\ pool' = seen
    /\ wire' = IF Joined(wsClient) /\ Reads(wsClient)
               THEN Append(wire, [snapshot |-> snapshot, base |-> pool, data |-> seen])
               ELSE wire
    /\ seen' = 0
    /\ clean' = (clean /\ (Joined(wsClient) => hand[wsClient] = "done"))
    /\ UNCHANGED <<vars, store, events, hand, got, cache, told>>

\* Stream.new, with sm.mutex locked: no broadcast is under way.
Join(n) ==
    /\ hand[n] = "join" /\ ~locked
    /\ hand' = [hand EXCEPT ![n] = "get"]
    /\ UNCHANGED <<vars, store, events, locked, seen, pool, got, ownVars, clean>>

\* Refresh: the data is read.
Fetch(n) ==
    /\ hand[n] = "get"
    /\ got' = [got EXCEPT ![n] = store]
    /\ hand' = [hand EXCEPT ![n] = "version"]
    /\ UNCHANGED <<vars, store, events, locked, seen, pool, ownVars, clean>>

\* Refresh: GetCacheVersion, under the pool's mutex.
Version(n) ==
    /\ hand[n] = "version" /\ ~locked
    /\ hand' = [hand EXCEPT ![n] = IF pool = Nothing THEN "set" ELSE "init"]
    /\ clean' = (clean /\ (n = wsClient => pool \in {Nothing, got[n]}))
    /\ UNCHANGED <<vars, store, events, locked, seen, pool, got, ownVars>>

\* Refresh: setCache, with sm.mutex locked.
SetCache(n) ==
    /\ hand[n] = "set" /\ ~locked
    /\ pool' = got[n]
    /\ hand' = [hand EXCEPT ![n] = "init"]
    /\ clean' = (clean /\ (Joined(wsClient) /\ n # wsClient => pool \in {Nothing, got[n]}))
    /\ UNCHANGED <<vars, store, events, locked, seen, got, ownVars>>

\* Mutant of Initial: the client is taken to have the version of the cache.
InitialSkippedMutant(n) ==
    /\ hand[n] = "init"
    /\ IF n > 1 /\ got[n] = pool
       THEN UNCHANGED wire
       ELSE Send(n, [snapshot |-> TRUE, base |-> Nothing, data |-> got[n]])
    /\ hand' = [hand EXCEPT ![n] = "done"]
    /\ got' = [got EXCEPT ![n] = 0]
    /\ UNCHANGED <<vars, store, events, locked, seen, pool, cache, told, clean>>

\* The goroutine of the initial message, always a snapshot.
Initial(n) ==
    /\ hand[n] = "init"
    /\ Send(n, [snapshot |-> TRUE, base |-> Nothing, data |-> got[n]])
    /\ hand' = [hand EXCEPT ![n] = "done"]
    /\ got' = [got EXCEPT ![n] = 0]
    /\ UNCHANGED <<vars, store, events, locked, seen, pool, cache, told, clean>>

WorkerStep == Collect \/ Tell(TRUE) \/ Tell(FALSE)

HandlerStep(n) == Join(n) \/ Fetch(n) \/ Version(n) \/ SetCache(n) \/ Initial(n)

-----------------------------------------------------------------------------
(***************************************************************************)
(* The client.                                                             *)
(***************************************************************************)
\* PatchCache: a snapshot replaces the cache, the empty patch leaves it, and a
\* patch is right on the data that it was made from.
Misfit(m) == ~m.snapshot /\ m.base # m.data /\ m.base # cache

Patched(m) ==
    IF m.snapshot \/ m.base = cache THEN m.data
    ELSE IF Misfit(m) THEN Garbage ELSE cache

\* Mutant of Callback: the cache that PatchList returns is dropped.
CallbackDropsMutant ==
    LET m == Head(wire)
        data == Patched(m)
    IN  /\ ReadMessage
        /\ data \notin Foreign \cup {Nothing}
        /\ Misfit(m) => cache # Nothing
        /\ cache' = IF m.snapshot THEN data ELSE cache
        /\ told' = data
        /\ wire' = Tail(wire)
        /\ UNCHANGED <<serverVars, clean>>

\* The message is patched in, decoded and told.
Callback ==
    LET m == Head(wire)
        data == Patched(m)
    IN  /\ ReadMessage
        /\ data \notin Foreign \cup {Nothing}
        /\ Misfit(m) => cache # Nothing
        /\ cache' = data
        /\ told' = data
        /\ wire' = Tail(wire)
        /\ UNCHANGED <<serverVars, clean>>

\* The patch cannot be applied, or what it gives cannot be decoded; then the
\* cache keeps what it gave.
Reject ==
    LET m == Head(wire)
        data == Patched(m)
    IN  /\ ParseFails
        /\ \/ Misfit(m) /\ cache' = cache
           \/ Misfit(m) /\ cache # Nothing /\ cache' = data
           \/ data \in Foreign \cup {Nothing, Garbage} /\ ~Misfit(m) /\ cache' = data
        /\ wire' = <<>>
        /\ UNCHANGED <<serverVars, told, clean>>

\* A connection is made, and its handler begins.
Connect ==
    /\ Dial
    /\ hand' = [hand EXCEPT ![dials + 1] = "join"]
    /\ clean' = TRUE
    /\ UNCHANGED <<store, events, locked, seen, pool, got, ownVars>>

Disconnect ==
    /\ ReadFails
    /\ wire' = <<>>
    /\ UNCHANGED <<serverVars, cache, told, clean>>

\* The rest of the loop.
Retry ==
    /\ Lock \/ DialFails \/ Bye \/ Wake
    /\ UNCHANGED <<serverVars, ownVars, clean>>

\* A message that was sent reaches the client's buffer.
Deliver ==
    /\ Arrive /\ buffered < Len(wire)
    /\ UNCHANGED <<serverVars, ownVars, clean>>

\* What is under way on a connection that ends is lost.
Lose(n) ==
    /\ Break(n)
    /\ wire' = IF Reads(n) THEN SubSeq(wire, 1, buffered) ELSE wire
    /\ UNCHANGED <<serverVars, cache, told, clean>>

Ask == Cancel /\ UNCHANGED <<serverVars, ownVars, clean>>

Closing == CloserStep /\ UNCHANGED <<serverVars, ownVars, clean>>

Loop == Callback \/ Reject \/ Connect \/ Disconnect \/ Retry

Stop == End /\ UNCHANGED sessionVars

Server == WorkerStep \/ Deliver \/ \E n \in Conns : HandlerStep(n)

SessionNext ==
    \/ Write
    \/ Server
    \/ Loop
    \/ Ask \/ Closing
    \/ \E n \in 1 .. dials : Lose(n)
    \/ Stop

SessionSpec == SessionInit /\ [][SessionNext]_sessionVars

(***************************************************************************)
(* The server's goroutines run, and a connection delivers as long as it is *)
(* up: together, for none of them goes on for ever by itself.  The client  *)
(* is as in ClientSubscribe.                                               *)
(***************************************************************************)
SessionFairSpec ==
    /\ SessionSpec
    /\ WF_sessionVars(Server)
    /\ WF_sessionVars(Loop) /\ SF_sessionVars(Closing)

-----------------------------------------------------------------------------
(***************************************************************************)
(* Properties.                                                             *)
(***************************************************************************)
\* The client is connected, by a connection that has hit none of the windows
\* of Stream.
Clean == Reads(wsClient) /\ clean

\* What the client holds once it has read i of the messages that wait.
Held(i) == IF i = 0 THEN cache ELSE wire[i].data

\* On a clean connection that has got its initial message, every patch that is
\* still to be read was made from what the client holds by then, whatever its
\* cache held before the connection, and the last message leaves it with the
\* base of the next patch (subscribe.go:38, messages.go PatchCache).
PatchesFit ==
    Clean /\ hand[wsClient] = "done" =>
       /\ \A i \in 1 .. Len(wire) : wire[i].snapshot \/ wire[i].base = Held(i - 1)
       /\ Held(Len(wire)) = pool

\* The callback is never told older data than before, within a connection that
\* is clean and over reconnections, and never data that nobody stored.
NeverGoesBack ==
    [][told' # told /\ Clean => told' \in Nat /\ (told \in Nat => told' >= told)]_sessionVars

\* A client whose connection stays up and clean is told what the path holds.
CatchesUp == Clean /\ told # store ~> ~Clean \/ told = store

\* When no write is waiting for its broadcast, and a client whose connection is
\* clean has read all that it was sent, the callback has been told what the path
\* holds: nothing between the write and the callback has swallowed the last one
\* (katamari.go watch, stream.go broadcast, ws.go, subscribe.go:95-134).
CaughtUp ==
    Clean /\ hand[wsClient] = "done" /\ events = 0 /\ ~locked /\ wire = <<>>
       => told = store

\* What the three rest on.  Nobody holds data that the path has not had, and a
\* worker has read no older data than the cache has; messages wait only for a
\* client that reads.
Known ==
    /\ events <= store /\ seen <= store
    /\ \A d \in {pool, cache, told} : d \in Nat => d <= store
    /\ \A n \in Conns : got[n] <= store
    /\ \A i \in 1 .. Len(wire) : wire[i].data <= store
    /\ locked /\ pool \in Nat => pool <= seen
    /\ loop # "read" => wire = <<>>

\* Until a clean connection has got its initial message it gets nothing, and
\* that message is the cache.
Opening ==
    Clean /\ hand[wsClient] # "done" =>
       /\ wire = <<>>
       /\ hand[wsClient] = "init" => pool = got[wsClient]
       /\ hand[wsClient] \in {"version", "set", "init"} /\ told \in Nat => told <= got[wsClient]

\* From then on what it gets is in the order of the writes.
Ordered ==
    Clean /\ hand[wsClient] = "done" =>
       /\ pool \in Nat /\ (told \in Nat => told <= pool)
       /\ \A i \in 1 .. Len(wire) :
             /\ wire[i].data <= pool /\ (told \in Nat => told <= wire[i].data)
             /\ \A j \in i .. Len(wire) : wire[i].data <= wire[j].data

\* What the handler of a clean connection has read, and from its version on what
\* the pool's cache is, is what the path holds, unless a broadcast is to come; and
\* a client that has read everything has told its callback of it.
Fed ==
    /\ locked => seen = store \/ events > 0
    /\ Clean /\ ~locked /\ events = 0 =>
          /\ hand[wsClient] \in {"version", "set"} => got[wsClient] = store
          /\ hand[wsClient] \in {"init", "done"} => pool = store
    /\ Clean /\ hand[wsClient] = "done" /\ wire = <<>> => told = cache

SessionInv == SessionTyped /\ Known /\ Opening /\ PatchesFit /\ Ordered

=============================================================================
