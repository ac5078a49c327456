----------------------------- MODULE Lifecycle -----------------------------
(***************************************************************************)
(* Starting, closing and starting again a server (katamari.go Start,       *)
(* waitListen, waitStart and Close, memory.go Start, Close and Active) and *)
(* what that does to the goroutines that live meanwhile:                   *)
(*                                                                         *)
(*   listener  waitListen, one of each Start: opens the storage, serves;   *)
(*   workers   watch, Workers of each Start, on the channel the storage    *)
(*             had when they were made;                                    *)
(*   ticker    tick, one of each Start;                                    *)
(*   writers   requests in Set, Pivot or Del, which look at the storage    *)
(*             before they send on its channel, and not again;             *)
(*   closers   the goroutines that may call Close: the program's own and   *)
(*             the one of WaitClose that waits for a signal.               *)
(*                                                                         *)
(* The atomics active and closing, the storage under its mutex and the     *)
(* unguarded field db.watcher are accessed in steps of their own.  The     *)
(* data the writers store and the broadcasts are the subject of Stream.    *)
(*                                                                         *)
(* The program is taken to start the server only while no Close is under   *)
(* way and to close it only when it has been started; a Start of an active *)
(* server returns at once and is left out.                                 *)
(***************************************************************************)
EXTENDS Naturals, FiniteSets

CONSTANTS
    Workers,            \* Server.Workers
    Writers, Closers,
    MaxStarts           \* bound on the number of Starts

ASSUME ConstantsAssumption ==
    Workers \in Nat \ {0} /\ MaxStarts \in Nat \ {0}

Runs == 1 .. MaxStarts      \* a run of the server: from one Start to the next
Nil  == 0                   \* the nil channel; the storage makes one in a run

VARIABLES
    active, closing,    \* the atomics of Server
    db,                 \* MemoryStorage: storage.Active and watcher
    closed,             \* the channels that have been closed
    run,                \* the run the server is in, 0 before the first Start
    main,               \* where the program is in Start
    listener,           \* waitListen of each run
    shut,               \* the http servers that have been shut down
    work,               \* the workers of each run
    ticker,             \* tick of each run
    req,                \* the operation each writer is in
    closer,             \* where each closer is in Close
    crashed             \* the end of the process: log.Fatal or a panic

vars == <<active, closing, db, closed, run, main, listener, shut, work, ticker,
          req, closer, crashed>>

serverVars == <<active, closing, run, main, listener, shut, ticker>>

IdleReq == [pc |-> "idle", chan |-> Nil, seen |-> Nil]

TypeOK ==
    /\ active \in 0 .. 1 /\ closing \in 0 .. 1
    /\ db \in [active : BOOLEAN, watcher : {Nil} \cup Runs]
    /\ closed \subseteq Runs
    /\ run \in 0 .. MaxStarts
    /\ main \in {"idle", "wait", "check"}
    /\ listener \in [Runs -> {"none", "open", "bind", "serve", "ended"}]
    /\ shut \subseteq Runs
    /\ work \in [Runs \X (1 .. Workers) ->
                    [pc : {"none", "recv", "check", "gone"}, chan : {Nil} \cup Runs]]
    /\ ticker \in [Runs -> {"none", "on", "gone"}]
    /\ req \in [Writers -> [pc : {"idle", "active", "send", "panicked"},
                            chan : {Nil} \cup Runs, seen : {Nil} \cup Runs]]
    /\ closer \in [Closers -> {"idle", "store", "storage", "shutdown"}]
    /\ crashed \in {"no", "fatal", "panic"}
    /\ \A s \in DOMAIN work : work[s].pc # "none" => work[s].chan # Nil

Init ==
    /\ active = 0 /\ closing = 0
    /\ db = [active |-> FALSE, watcher |-> Nil]
    /\ closed = {}
    /\ run = 0
    /\ main = "idle"
    /\ listener = [n \in Runs |-> "none"]
    /\ shut = {}
    /\ work = [s \in Runs \X (1 .. Workers) |-> [pc |-> "none", chan |-> Nil]]
    /\ ticker = [n \in Runs |-> "none"]
    /\ req = [w \in Writers |-> IdleReq]
    /\ closer = [c \in Closers |-> "idle"]
    /\ crashed = "no"

\* The process runs; nothing happens after its end.
Up == crashed = "no"

\* Server.Active
Active == active = 1 /\ closing = 0

-----------------------------------------------------------------------------
(***************************************************************************)
(* Start.                                                                  *)
(***************************************************************************)
Start ==
    /\ Up
    /\ main = "idle" /\ \A c \in Closers : closer[c] = "idle"
    /\ run < MaxStarts
    /\ active # 1
    /\ run' = run + 1
    /\ closing' = 0
    /\ listener' = [listener EXCEPT ![run + 1] = "open"]
    /\ main' = "wait"
    /\ UNCHANGED <<active, db, closed, shut, work, ticker, req, closer, crashed>>

\* Mutant of StorageStart: only a new storage gets a channel.
StorageStartNoChannelMutant(n) ==
    /\ Up
    /\ listener[n] = "open"
    /\ db' = [active |-> TRUE, watcher |-> IF n = 1 THEN n ELSE db.watcher]
    /\ listener' = [listener EXCEPT ![n] = "bind"]
    /\ UNCHANGED <<active, closing, closed, run, main, shut, work, ticker, req,
                   closer, crashed>>

\* waitListen: Storage.Start, which makes a channel if there is none.
StorageStart(n) ==
    /\ Up
    /\ listener[n] = "open"
    /\ db' = [active |-> TRUE, watcher |-> IF db.watcher = Nil THEN n ELSE db.watcher]
    /\ listener' = [listener EXCEPT ![n] = "bind"]
    /\ UNCHANGED <<active, closing, closed, run, main, shut, work, ticker, req,
                   closer, crashed>>

\* waitListen: the address is free, so net.Listen succeeds; wg.Done lets Start
\* go on.
Listen(n) ==
    /\ Up
    /\ listener[n] = "bind"
    /\ active' = 1
    /\ listener' = [listener EXCEPT ![n] = "serve"]
    /\ main' = "check"
    /\ UNCHANGED <<closing, db, closed, run, shut, work, ticker, req, closer, crashed>>

\* waitStart and the end of Start: the workers get the storage's channel.
\* Nothing else moves what these steps read before Start has returned.
WaitStart ==
    /\ Up
    /\ main = "check"
    /\ main' = "idle"
    /\ IF active = 0 \/ ~db.active
       THEN crashed' = "fatal" /\ UNCHANGED <<work, ticker>>
       ELSE /\ work' = [s \in DOMAIN work |->
                  IF s[1] = run THEN [pc |-> "recv", chan |-> db.watcher] ELSE work[s]]
            /\ ticker' = [ticker EXCEPT ![run] = "on"]
            /\ UNCHANGED crashed
    /\ UNCHANGED <<active, closing, db, closed, run, listener, shut, req, closer>>

\* Serve returns once its server is shut down.
ServeEnds(n) ==
    /\ Up
    /\ listener[n] = "serve" /\ n \in shut
    /\ listener' = [listener EXCEPT ![n] = "ended"]
    /\ crashed' = IF closing = 1 THEN crashed ELSE "fatal"
    /\ UNCHANGED <<active, closing, db, closed, run, main, shut, work, ticker, req, closer>>

-----------------------------------------------------------------------------
(***************************************************************************)
(* Close.                                                                  *)
(***************************************************************************)
Close(c) ==
    /\ Up
    /\ closer[c] = "idle"
    /\ main = "idle" /\ run > 0
    /\ closing # 1
    /\ closer' = [closer EXCEPT ![c] = "store"]
    /\ UNCHANGED <<serverVars, db, closed, work, req, crashed>>

\* Mutant of CloseServer: active keeps its value.
CloseServerLateMutant(c) ==
    /\ Up
    /\ closer[c] = "store"
    /\ closer' = [closer EXCEPT ![c] = "storage"]
    /\ closing' = 1
    /\ UNCHANGED <<active, db, closed, run, main, listener, shut, work, ticker, req, crashed>>

CloseServer(c) ==
    /\ Up
    /\ closer[c] = "store"
    /\ closer' = [closer EXCEPT ![c] = "storage"]
    /\ closing' = 1
    /\ active' = 0
    /\ UNCHANGED <<db, closed, run, main, listener, shut, work, ticker, req, crashed>>

\* Mutant of StorageClose: the channel is dropped without being closed.
StorageCloseNoCloseMutant(c) ==
    /\ Up
    /\ closer[c] = "storage"
    /\ closer' = [closer EXCEPT ![c] = "shutdown"]
    /\ db' = [active |-> FALSE, watcher |-> Nil]
    /\ UNCHANGED <<serverVars, closed, work, req, crashed>>

\* MemoryStorage.Close; closing a nil channel panics.
StorageClose(c) ==
    /\ Up
    /\ closer[c] = "storage"
    /\ closer' = [closer EXCEPT ![c] = "shutdown"]
    /\ db' = [active |-> FALSE, watcher |-> Nil]
    /\ closed' = closed \cup ({db.watcher} \ {Nil})
    /\ crashed' = IF db.watcher = Nil THEN "panic" ELSE crashed
    /\ UNCHANGED <<serverVars, work, req>>

\* Shutdown stops the listener and waits for the requests, which the Deadline
\* of the TimeoutHandler ends even when their handlers go on.
Shutdown(c) ==
    /\ Up
    /\ closer[c] = "shutdown"
    /\ closer' = [closer EXCEPT ![c] = "idle"]
    /\ shut' = shut \cup {run}
    /\ UNCHANGED <<active, closing, db, closed, run, main, listener, work, ticker, req, crashed>>

-----------------------------------------------------------------------------
(***************************************************************************)
(* Writers.                                                                *)
(***************************************************************************)
\* Mutant of CheckActive: the storage is not asked.
CheckActiveAlwaysMutant(w) ==
    /\ Up
    /\ req[w].pc = "idle"
    /\ req' = [req EXCEPT ![w] = [pc |-> "active", chan |-> Nil, seen |-> db.watcher]]
    /\ UNCHANGED <<serverVars, db, closed, work, closer, crashed>>

\* The value is stored and db.Active() is true; else the operation returns.
\* The channel of that moment is remembered for the properties.
CheckActive(w) ==
    /\ Up
    /\ req[w].pc = "idle"
    /\ db.active
    /\ req' = [req EXCEPT ![w] = [pc |-> "active", chan |-> Nil, seen |-> db.watcher]]
    /\ UNCHANGED <<serverVars, db, closed, work, closer, crashed>>

\* "db.watcher <- ev" evaluates db.watcher, without the mutex ...
LoadWatcher(w) ==
    /\ Up
    /\ req[w].pc = "active"
    /\ req' = [req EXCEPT ![w].pc = "send", ![w].chan = db.watcher]
    /\ UNCHANGED <<serverVars, db, closed, work, closer, crashed>>

\* ... and panics when that channel is closed, before or while it waits; the
\* http server recovers.  A send on the nil channel waits for ever.
SendPanics(w) ==
    /\ Up
    /\ req[w].pc = "send" /\ req[w].chan \in closed
    /\ req' = [req EXCEPT ![w].pc = "panicked"]
    /\ UNCHANGED <<serverVars, db, closed, work, closer, crashed>>

-----------------------------------------------------------------------------
(***************************************************************************)
(* Workers and tickers.                                                    *)
(***************************************************************************)
\* The rendezvous on the channel; the worker broadcasts before it goes on.
Deliver(w, s) ==
    /\ Up
    /\ req[w].pc = "send" /\ work[s].pc = "recv"
    /\ req[w].chan = work[s].chan /\ req[w].chan \notin closed \cup {Nil}
    /\ req' = [req EXCEPT ![w] = IdleReq]
    /\ work' = [work EXCEPT ![s].pc = "check"]
    /\ UNCHANGED <<serverVars, db, closed, closer, crashed>>

\* A closed channel gives the empty event, again and again.
RecvClosed(s) ==
    /\ Up
    /\ work[s].pc = "recv" /\ work[s].chan \in closed
    /\ work' = [work EXCEPT ![s].pc = "check"]
    /\ UNCHANGED <<serverVars, db, closed, req, closer, crashed>>

\* Mutant of Check: the worker returns after one event.
CheckOnceMutant(s) ==
    /\ Up
    /\ work[s].pc = "check"
    /\ work' = [work EXCEPT ![s].pc = "gone"]
    /\ UNCHANGED <<serverVars, db, closed, req, closer, crashed>>

\* "if !app.Storage.Active() { break }"
Check(s) ==
    /\ Up
    /\ work[s].pc = "check"
    /\ work' = [work EXCEPT ![s].pc = IF db.active THEN "recv" ELSE "gone"]
    /\ UNCHANGED <<serverVars, db, closed, req, closer, crashed>>

\* A tick that finds the server not active is the ticker's last.
TickEnds(n) ==
    /\ Up
    /\ ticker[n] = "on" /\ ~Active
    /\ ticker' = [ticker EXCEPT ![n] = "gone"]
    /\ UNCHANGED <<active, closing, run, main, listener, shut, db, closed, work,
                   req, closer, crashed>>

-----------------------------------------------------------------------------
ListenerStep(n) == StorageStart(n) \/ Listen(n) \/ ServeEnds(n)

\* The steps of a Close that has begun.
CloserStep(c) == CloseServer(c) \/ StorageClose(c) \/ Shutdown(c)

WriterStep(w) ==
    \/ LoadWatcher(w)
    \/ SendPanics(w)
    \/ \E s \in DOMAIN work : Deliver(w, s)

WorkerStep(s) == RecvClosed(s) \/ Check(s)

\* The process has ended, or the last run that is considered has been closed.
End ==
    /\ ~Up \/ (run = MaxStarts /\ closing = 1)
    /\ UNCHANGED vars

Next ==
    \/ Start
    \/ WaitStart
    \/ \E n \in Runs : ListenerStep(n) \/ TickEnds(n)
    \/ \E c \in Closers : Close(c) \/ CloserStep(c)
    \/ \E w \in Writers : CheckActive(w) \/ WriterStep(w)
    \/ \E s \in DOMAIN work : WorkerStep(s)
    \/ End

Spec == Init /\ [][Next]_vars

(***************************************************************************)
(* A goroutine that can run does, and a sender is not overtaken for ever:  *)
(* senders wait in the FIFO queue of the channel.  The tickers tick.       *)
(* Starting, closing and writing are the program's choice.                 *)
(***************************************************************************)
FairSpec ==
    /\ Spec
    /\ WF_vars(WaitStart)
    /\ \A n \in Runs : WF_vars(ListenerStep(n))
    /\ \A n \in Runs : WF_vars(TickEnds(n))
    /\ \A c \in Closers : WF_vars(CloserStep(c))
    /\ \A w \in Writers : SF_vars(WriterStep(w))
    /\ \A s \in Runs \X (1 .. Workers) : WF_vars(WorkerStep(s))

-----------------------------------------------------------------------------
(***************************************************************************)
(* Properties.                                                             *)
(***************************************************************************)
\* A server that says it is active is whole: the storage is active, its
\* channel is open and each worker of the run is on it, the listener serves
\* and the clock ticks, whatever is left of earlier runs (katamari.go Active,
\* waitStart and watch).
ActiveIsWhole ==
    Active /\ main = "idle" =>
       /\ db.active /\ db.watcher \notin closed \cup {Nil}
       /\ \A i \in 1 .. Workers :
             work[<<run, i>>].pc \in {"recv", "check"} /\ work[<<run, i>>].chan = db.watcher
       /\ listener[run] = "serve" /\ run \notin shut
       /\ ticker[run] = "on"

\* When the calls of Close have returned, by whichever closer and in whatever
\* order they ran, the storage, its channel and the listener of the run are closed
\* (katamari.go Close); of the websockets, which Shutdown does not know, it says
\* nothing.
CloseIsComplete ==
    closing = 1 /\ (\A c \in Closers : closer[c] = "idle") =>
       /\ active = 0
       /\ db = [active |-> FALSE, watcher |-> Nil]
       /\ closed = 1 .. run /\ run \in shut

\* A storage operation that panics on a closed channel, or waits for ever on
\* the nil one, is one that found the storage active before it was closed: an
\* operation that begins on a closed storage never sends (memory.go Set).
OnlyLateSendersFail ==
    \A w \in Writers :
       req[w].pc = "panicked" \/ (req[w].pc = "send" /\ req[w].chan = Nil)
          => req[w].seen \in closed

\* A worker leaves its channel only once that has been closed; so once Start has
\* returned, an operation that waits on an open channel has every worker of the
\* run to wait for, whatever the workers of earlier runs do (katamari.go watch).
SendersAreServed ==
    /\ \A s \in DOMAIN work : work[s].pc = "gone" => work[s].chan \in closed
    /\ main = "idle" =>
          \A w \in Writers : \A i \in 1 .. Workers :
             req[w].pc = "send" /\ req[w].chan \notin closed \cup {Nil} =>
                /\ work[<<run, i>>].pc \in {"recv", "check"}
                /\ work[<<run, i>>].chan = req[w].chan

\* Once the storage is closed, the goroutines of every run end, those included
\* that an earlier run left behind, unless the server is started again
\* (katamari.go watch and waitListen, clock.go tick).
ClosedIsLeft ==
    ~db.active ~> \/ db.active \/ ~Up
                  \/ /\ \A s \in DOMAIN work : work[s].pc \in {"none", "gone"}
                     /\ \A n \in Runs : /\ listener[n] \in {"none", "ended"}
                                         /\ ticker[n] \in {"none", "gone"}

\* An operation that sends on a channel is received or panics: no closing of
\* the storage leaves it waiting (memory.go Close and Set).
SenderIsAnswered ==
    \A w \in Writers :
       (req[w].pc = "send" /\ req[w].chan # Nil)
          ~> (req[w].pc # "send" \/ ~Up)

\* TestRestart (katamari_test.go) starts, closes and starts a server: that does
\* not end the process.
RestartSurvives == crashed # "fatal"

=============================================================================
