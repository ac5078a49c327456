-------------------------- MODULE LifecycleProofs --------------------------
(***************************************************************************)
(* Theorems about Lifecycle, for any number of workers, writers, closers   *)
(* and runs.                                                               *)
(***************************************************************************)
EXTENDS Lifecycle, TLAPS

\* Where a Start, the listeners and the shutdowns are with respect to run.
Phases ==
    /\ main = "wait" => run > 0 /\ listener[run] \in {"open", "bind"}
    /\ main = "check" => run > 0 /\ listener[run] = "serve" /\ active = 1
    /\ main = "idle" /\ run > 0 => listener[run] \in {"serve", "ended"}
    /\ main = "idle" /\ run > 0 /\ closing = 0 => active = 1
    /\ main # "idle" => closing = 0 /\ \A c \in Closers : closer[c] = "idle"
    /\ \A n \in Runs : n # run => listener[n] \in {"none", "serve", "ended"}
    /\ \A n \in Runs : listener[n] = "ended" => n \in shut
    /\ shut \subseteq 1 .. run
    /\ run \in shut => closing = 1
    /\ run = 0 => closing = 0 /\ active = 0 /\ \A c \in Closers : closer[c] = "idle"

\* What a Close has done when it is at a step, and when all have returned.
Closing ==
    /\ \A c \in Closers : closer[c] \in {"storage", "shutdown"} => closing = 1
    /\ \A c \in Closers : closer[c] = "shutdown" => ~db.active
    /\ closing = 1 =>
          /\ active = 0
          /\ ~db.active \/ \E c \in Closers : closer[c] = "storage"
          /\ run \in shut \/ \E c \in Closers : closer[c] \in {"storage", "shutdown"}

\* An active storage has the channel of the run; all earlier ones are closed.
Channels ==
    /\ db.active => run > 0 /\ db.watcher = run /\ listener[run] # "open"
    /\ ~db.active => db.watcher = Nil
    /\ active = 1 => db.active
    /\ run > 0 /\ listener[run] = "bind" => db.active
    /\ closed = IF db.active \/ (run > 0 /\ listener[run] = "open")
                THEN 1 .. run - 1 ELSE 1 .. run

\* The goroutines of an active server.
Served ==
    /\ main = "idle" /\ db.active =>
          \A i \in 1 .. Workers :
             work[<<run, i>>].pc \in {"recv", "check"} /\ work[<<run, i>>].chan = run
    /\ Active /\ main = "idle" => ticker[run] = "on"

\* What a writer saw is the channel of the run, or has been closed since.
Seen ==
    \A w \in Writers :
       /\ req[w].pc # "idle" => req[w].seen \in closed \/ (db.active /\ req[w].seen = run)
       /\ req[w].pc = "send" => req[w].seen \in closed \/ req[w].chan = req[w].seen
       /\ req[w].pc = "panicked" => req[w].seen \in closed

IndInv == TypeOK /\ Phases /\ Closing /\ Channels /\ Served /\ Seen

-----------------------------------------------------------------------------
\* Before the first Start nothing is open and no goroutine lives.
LEMMA InitEstablishes == Init => IndInv
<1> SUFFICES ASSUME Init PROVE IndInv
    OBVIOUS
<1> USE ConstantsAssumption
<1>1. TypeOK
    BY DEF Init, TypeOK, IdleReq, Runs, Nil
<1>2. Phases
    BY DEF Init, Phases, Runs
<1>3. Closing
    BY DEF Init, Closing
<1>4. Channels
    BY DEF Init, Channels
<1>5. Served
    BY DEF Init, Served, Active
<1>6. Seen
    BY DEF Init, Seen, IdleReq
<1> QED
    BY <1>1, <1>2, <1>3, <1>4, <1>5, <1>6 DEF IndInv

\* A worker that moves keeps its channel; a writer has a well formed operation.
LEMMA WorkTyped ==
    ASSUME work \in [Runs \X (1 .. Workers) ->
                       [pc : {"none", "recv", "check", "gone"}, chan : {Nil} \cup Runs]],
           NEW s \in DOMAIN work, NEW pc \in {"recv", "check", "gone"},
           work[s].pc # "none",
           \A t \in DOMAIN work : work[t].pc # "none" => work[t].chan # Nil,
           work' = [work EXCEPT ![s].pc = pc]
    PROVE  /\ work' \in [Runs \X (1 .. Workers) ->
                       [pc : {"none", "recv", "check", "gone"}, chan : {Nil} \cup Runs]]
           /\ \A t \in DOMAIN work' : work'[t].pc # "none" => work'[t].chan # Nil
<1>1. \A t \in DOMAIN work :
         work'[t] = IF t = s THEN [pc |-> pc, chan |-> work[s].chan] ELSE work[t]
    OBVIOUS
<1> QED
    BY <1>1

LEMMA ReqTyped ==
    ASSUME req \in [Writers -> [pc : {"idle", "active", "send", "panicked"},
                                chan : {Nil} \cup Runs, seen : {Nil} \cup Runs]],
           db \in [active : BOOLEAN, watcher : {Nil} \cup Runs],
           NEW w \in Writers,
           CheckActive(w) \/ WriterStep(w)
    PROVE  req' \in [Writers -> [pc : {"idle", "active", "send", "panicked"},
                                 chan : {Nil} \cup Runs, seen : {Nil} \cup Runs]]
<1>1. CASE CheckActive(w)
    BY <1>1 DEF CheckActive
<1>2. CASE LoadWatcher(w)
    BY <1>2 DEF LoadWatcher
<1>3. CASE SendPanics(w)
    BY <1>3 DEF SendPanics
<1>4. ASSUME NEW s \in DOMAIN work, Deliver(w, s)
      PROVE  req' = [req EXCEPT ![w] = IdleReq]
    BY <1>4 DEF Deliver
<1> QED
    BY <1>1, <1>2, <1>3, <1>4 DEF WriterStep, IdleReq

\* Every step keeps the invariant.  A part that an action does not write
\* follows from its own old value; the others need where the Start and the
\* closers are (Phases, Closing) to know the channel of the storage.
LEMMA NextPreserves == IndInv /\ [Next]_vars => IndInv'
<1> SUFFICES ASSUME IndInv, [Next]_vars PROVE IndInv'
    OBVIOUS
<1> USE ConstantsAssumption
<1>0. TypeOK /\ Phases /\ Closing /\ Channels /\ Served /\ Seen
    BY DEF IndInv
<1>1. CASE Start
    <2>1. TypeOK'
        BY <1>0, <1>1 DEF Start, TypeOK, Runs, Nil
    <2>2. Phases'
        BY <1>0, <1>1 DEF Start, TypeOK, Phases, Runs, Nil
    <2>3. Closing'
        BY <1>0, <1>1 DEF Start, Closing
    <2>4. Channels'
        BY <1>0, <1>1 DEF Start, TypeOK, Phases, Closing, Channels, Runs, Nil, serverVars, Up
    <2>5. Served'
        BY <1>0, <1>1 DEF Start, Served, Active
    <2>6. Seen'
        BY <1>0, <1>1
           DEF Start, TypeOK, Phases, Closing, Channels, Seen, Runs, Nil, IdleReq,
               serverVars, Up
    <2> QED
        BY <2>1, <2>2, <2>3, <2>4, <2>5, <2>6 DEF IndInv
<1>2. CASE WaitStart
    <2>a. run \in Runs /\ active = 1 /\ db.active /\ db.watcher = run
        BY <1>0, <1>2 DEF WaitStart, TypeOK, Phases, Channels, Runs
    <2>b. /\ crashed' = crashed /\ ticker' = [ticker EXCEPT ![run] = "on"]
          /\ work' = [s \in DOMAIN work |->
                IF s[1] = run THEN [pc |-> "recv", chan |-> db.watcher] ELSE work[s]]
        BY <1>0, <1>2, <2>a DEF WaitStart
    <2>c. \A s \in DOMAIN work :
             work'[s] = IF s[1] = run THEN [pc |-> "recv", chan |-> run] ELSE work[s]
        BY <2>a, <2>b
    <2>d. work' \in [Runs \X (1 .. Workers) ->
                       [pc : {"none", "recv", "check", "gone"}, chan : {Nil} \cup Runs]]
        BY <1>0, <2>a, <2>b DEF TypeOK
    <2>0. \A s \in DOMAIN work' : work'[s].pc # "none" => work'[s].chan # Nil
        BY <1>0, <2>a, <2>b, <2>c, <2>d DEF TypeOK, Runs, Nil
    <2>1. TypeOK'
        BY <1>0, <1>2, <2>0, <2>a, <2>b, <2>d DEF WaitStart, TypeOK
    <2>2. Phases'
        BY <1>0, <1>2 DEF WaitStart, Phases
    <2>3. Closing'
        BY <1>0, <1>2 DEF WaitStart, Closing
    <2>4. Channels'
        BY <1>0, <1>2 DEF WaitStart, Channels
    <2>5. Served'
        BY <1>0, <1>2
           DEF WaitStart, TypeOK, Phases, Closing, Channels, Served, Active, Runs, Nil,
               serverVars, Up
    <2>6. Seen'
        BY <1>0, <1>2 DEF WaitStart, Seen
    <2> QED
        BY <2>1, <2>2, <2>3, <2>4, <2>5, <2>6 DEF IndInv
<1>3. ASSUME NEW n \in Runs, StorageStart(n) PROVE IndInv'
    <2>a. n = run /\ run > 0
        BY <1>0, <1>3 DEF StorageStart, Phases, Runs
    <2>0. main = "wait" /\ n = run
        BY <1>0, <1>3, <2>a DEF StorageStart, TypeOK, Phases
    <2>1. TypeOK'
        BY <1>0, <1>3 DEF StorageStart, TypeOK
    <2>2. Phases'
        BY <1>0, <1>3 DEF StorageStart, Phases
    <2>3. Closing'
        BY <1>0, <1>3
           DEF StorageStart, TypeOK, Phases, Closing, Channels, Runs, Nil, serverVars, Up
    <2>4. Channels'
        BY <1>0, <1>3
           DEF StorageStart, TypeOK, Phases, Closing, Channels, Runs, Nil, serverVars, Up
    <2>5. Served'
        BY <1>0, <1>3, <2>0 DEF StorageStart, Served, Active
    <2>6. Seen'
        BY <1>0, <1>3 DEF StorageStart, Seen
    <2> QED
        BY <2>1, <2>2, <2>3, <2>4, <2>5, <2>6 DEF IndInv
<1>4. ASSUME NEW n \in Runs, Listen(n) PROVE IndInv'
    <2>1. TypeOK'
        BY <1>0, <1>4 DEF Listen, TypeOK
    <2>2. Phases'
        BY <1>0, <1>4 DEF Listen, TypeOK, Phases, Runs, Nil
    <2>3. Closing'
        BY <1>0, <1>4 DEF Listen, TypeOK, Phases, Closing, Channels, Runs, Nil, serverVars, Up
    <2>4. Channels'
        BY <1>0, <1>4 DEF Listen, TypeOK, Phases, Closing, Channels, Runs, Nil, serverVars, Up
    <2>5. Served'
        BY <1>0, <1>4 DEF Listen, Served, Active
    <2>6. Seen'
        BY <1>0, <1>4 DEF Listen, Seen
    <2> QED
        BY <2>1, <2>2, <2>3, <2>4, <2>5, <2>6 DEF IndInv
<1>5. ASSUME NEW n \in Runs, ServeEnds(n) PROVE IndInv'
    <2>1. TypeOK'
        BY <1>0, <1>5 DEF ServeEnds, TypeOK
    <2>2. Phases'
        BY <1>0, <1>5 DEF ServeEnds, Phases
    <2>3. Closing'
        BY <1>0, <1>5 DEF ServeEnds, Closing
    <2>4. Channels'
        BY <1>0, <1>5 DEF ServeEnds, Channels
    <2>5. Served'
        BY <1>0, <1>5 DEF ServeEnds, Served, Active
    <2>6. Seen'
        BY <1>0, <1>5 DEF ServeEnds, Seen
    <2> QED
        BY <2>1, <2>2, <2>3, <2>4, <2>5, <2>6 DEF IndInv
<1>6. ASSUME NEW n \in Runs, TickEnds(n) PROVE IndInv'
    <2>1. TypeOK'
        BY <1>0, <1>6 DEF TickEnds, TypeOK
    <2>2. Phases'
        BY <1>0, <1>6 DEF TickEnds, Phases
    <2>3. Closing'
        BY <1>0, <1>6 DEF TickEnds, Closing
    <2>4. Channels'
        BY <1>0, <1>6 DEF TickEnds, Channels
    <2>5. Served'
        BY <1>0, <1>6 DEF TickEnds, Served, Active
    <2>6. Seen'
        BY <1>0, <1>6 DEF TickEnds, Seen
    <2> QED
        BY <2>1, <2>2, <2>3, <2>4, <2>5, <2>6 DEF IndInv
<1>7. ASSUME NEW c \in Closers, Close(c) PROVE IndInv'
    <2>1. TypeOK'
        BY <1>0, <1>7 DEF Close, serverVars, TypeOK
    <2>2. Phases'
        BY <1>0, <1>7 DEF Close, serverVars, Phases
    <2>3. Closing'
        BY <1>0, <1>7 DEF Close, serverVars, Closing
    <2>4. Channels'
        BY <1>0, <1>7 DEF Close, serverVars, Channels
    <2>5. Served'
        BY <1>0, <1>7 DEF Close, serverVars, Served, Active
    <2>6. Seen'
        BY <1>0, <1>7 DEF Close, serverVars, Seen
    <2> QED
        BY <2>1, <2>2, <2>3, <2>4, <2>5, <2>6 DEF IndInv
<1>8. ASSUME NEW c \in Closers, CloseServer(c) PROVE IndInv'
    <2>1. TypeOK'
        BY <1>0, <1>8 DEF CloseServer, TypeOK
    <2>2. Phases'
        BY <1>0, <1>8 DEF CloseServer, Phases
    <2>3. Closing'
        BY <1>0, <1>8 DEF CloseServer, TypeOK, Closing
    <2>4. Channels'
        BY <1>0, <1>8 DEF CloseServer, Channels
    <2>5. Served'
        BY <1>0, <1>8 DEF CloseServer, Served, Active
    <2>6. Seen'
        BY <1>0, <1>8 DEF CloseServer, Seen
    <2> QED
        BY <2>1, <2>2, <2>3, <2>4, <2>5, <2>6 DEF IndInv
<1>9. ASSUME NEW c \in Closers, StorageClose(c) PROVE IndInv'
    <2>1. TypeOK'
        BY <1>0, <1>9 DEF StorageClose, serverVars, TypeOK
    <2>2. Phases'
        BY <1>0, <1>9 DEF StorageClose, serverVars, Phases
    <2>3. Closing'
        BY <1>0, <1>9 DEF StorageClose, serverVars, Closing
    <2>4. Channels'
        BY <1>0, <1>9
           DEF StorageClose, TypeOK, Phases, Closing, Channels, Runs, Nil, serverVars, Up
    <2>5. Served'
        BY <1>0, <1>9 DEF StorageClose, serverVars, Served, Active
    <2>6. Seen'
        BY <1>0, <1>9
           DEF StorageClose, TypeOK, Phases, Closing, Channels, Seen, Runs, Nil, IdleReq,
               serverVars, Up
    <2> QED
        BY <2>1, <2>2, <2>3, <2>4, <2>5, <2>6 DEF IndInv
<1>10. ASSUME NEW c \in Closers, Shutdown(c) PROVE IndInv'
    <2>0. run > 0 /\ run \in Runs /\ closing = 1
        BY <1>0, <1>10 DEF Shutdown, TypeOK, Phases, Closing, Runs
    <2>1. TypeOK'
        BY <1>0, <1>10, <2>0 DEF Shutdown, TypeOK
    <2>2. Phases'
        BY <1>0, <1>10, <2>0 DEF Shutdown, TypeOK, Phases
    <2>3. Closing'
        BY <1>0, <1>10 DEF Shutdown, Closing
    <2>4. Channels'
        BY <1>0, <1>10 DEF Shutdown, Channels
    <2>5. Served'
        BY <1>0, <1>10 DEF Shutdown, Served, Active
    <2>6. Seen'
        BY <1>0, <1>10 DEF Shutdown, Seen
    <2> QED
        BY <2>1, <2>2, <2>3, <2>4, <2>5, <2>6 DEF IndInv
<1>11. ASSUME NEW w \in Writers, CheckActive(w) PROVE IndInv'
    <2>1. TypeOK'
        <3>1. req' \in [Writers -> [pc : {"idle", "active", "send", "panicked"},
                                   chan : {Nil} \cup Runs, seen : {Nil} \cup Runs]]
            BY <1>0, <1>11, ReqTyped DEF TypeOK, WriterStep
        <3> QED
            BY <1>0, <1>11, <3>1 DEF CheckActive, serverVars, TypeOK
    <2>2. Phases'
        BY <1>0, <1>11 DEF CheckActive, serverVars, Phases
    <2>3. Closing'
        BY <1>0, <1>11 DEF CheckActive, serverVars, Closing
    <2>4. Channels'
        BY <1>0, <1>11 DEF CheckActive, serverVars, Channels
    <2>5. Served'
        BY <1>0, <1>11 DEF CheckActive, serverVars, Served, Active
    <2>6. Seen'
        BY <1>0, <1>11
           DEF CheckActive, TypeOK, Phases, Closing, Channels, Seen, Runs, Nil, IdleReq,
               serverVars, Up
    <2> QED
        BY <2>1, <2>2, <2>3, <2>4, <2>5, <2>6 DEF IndInv
<1>12. ASSUME NEW w \in Writers, LoadWatcher(w) PROVE IndInv'
    <2>1. TypeOK'
        <3>1. req' \in [Writers -> [pc : {"idle", "active", "send", "panicked"},
                                   chan : {Nil} \cup Runs, seen : {Nil} \cup Runs]]
            BY <1>0, <1>12, ReqTyped DEF TypeOK, WriterStep
        <3> QED
            BY <1>0, <1>12, <3>1 DEF LoadWatcher, serverVars, TypeOK
    <2>2. Phases'
        BY <1>0, <1>12 DEF LoadWatcher, serverVars, Phases
    <2>3. Closing'
        BY <1>0, <1>12 DEF LoadWatcher, serverVars, Closing
    <2>4. Channels'
        BY <1>0, <1>12 DEF LoadWatcher, serverVars, Channels
    <2>5. Served'
        BY <1>0, <1>12 DEF LoadWatcher, serverVars, Served, Active
    <2>6. Seen'
        BY <1>0, <1>12
           DEF LoadWatcher, TypeOK, Phases, Closing, Channels, Seen, Runs, Nil, IdleReq,
               serverVars, Up
    <2> QED
        BY <2>1, <2>2, <2>3, <2>4, <2>5, <2>6 DEF IndInv
<1>13. ASSUME NEW w \in Writers, SendPanics(w) PROVE IndInv'
    <2>1. TypeOK'
        <3>1. req' \in [Writers -> [pc : {"idle", "active", "send", "panicked"},
                                   chan : {Nil} \cup Runs, seen : {Nil} \cup Runs]]
            BY <1>0, <1>13, ReqTyped DEF TypeOK, WriterStep
        <3> QED
            BY <1>0, <1>13, <3>1 DEF SendPanics, serverVars, TypeOK
    <2>2. Phases'
        BY <1>0, <1>13 DEF SendPanics, serverVars, Phases
    <2>3. Closing'
        BY <1>0, <1>13 DEF SendPanics, serverVars, Closing
    <2>4. Channels'
        BY <1>0, <1>13 DEF SendPanics, serverVars, Channels
    <2>5. Served'
        BY <1>0, <1>13 DEF SendPanics, serverVars, Served, Active
    <2>6. Seen'
        BY <1>0, <1>13 DEF SendPanics, serverVars, Seen
    <2> QED
        BY <2>1, <2>2, <2>3, <2>4, <2>5, <2>6 DEF IndInv
<1>14. ASSUME NEW w \in Writers, NEW s \in DOMAIN work, Deliver(w, s) PROVE IndInv'
    <2>0. req' \in [Writers -> [pc : {"idle", "active", "send", "panicked"},
                                chan : {Nil} \cup Runs, seen : {Nil} \cup Runs]]
        BY <1>0, <1>14, ReqTyped DEF TypeOK, WriterStep
    <2>w. /\ work' \in [Runs \X (1 .. Workers) ->
                         [pc : {"none", "recv", "check", "gone"}, chan : {Nil} \cup Runs]]
          /\ \A t \in DOMAIN work' : work'[t].pc # "none" => work'[t].chan # Nil
        <3>1. work' = [work EXCEPT ![s].pc = "check"] /\ work[s].pc # "none"
            BY <1>14 DEF Deliver
        <3> QED
            BY <1>0, <3>1, WorkTyped DEF TypeOK
    <2>1. TypeOK'
        BY <1>0, <1>14, <2>0, <2>w DEF Deliver, serverVars, TypeOK
    <2>2. Phases'
        BY <1>0, <1>14 DEF Deliver, serverVars, Phases
    <2>3. Closing'
        BY <1>0, <1>14 DEF Deliver, serverVars, Closing
    <2>4. Channels'
        BY <1>0, <1>14 DEF Deliver, serverVars, Channels
    <2>5. Served'
        BY <1>0, <1>14 DEF Deliver, serverVars, Served, Active
    <2>6. Seen'
        BY <1>0, <1>14
           DEF Deliver, TypeOK, Phases, Closing, Channels, Seen, Runs, Nil, IdleReq,
               serverVars, Up
    <2> QED
        BY <2>1, <2>2, <2>3, <2>4, <2>5, <2>6 DEF IndInv
<1>15. ASSUME NEW s \in DOMAIN work, RecvClosed(s) PROVE IndInv'
    <2>1. TypeOK'
        <3>1. work' = [work EXCEPT ![s].pc = "check"] /\ work[s].pc # "none"
            BY <1>15 DEF RecvClosed
        <3>2. /\ work' \in [Runs \X (1 .. Workers) ->
                 [pc : {"none", "recv", "check", "gone"}, chan : {Nil} \cup Runs]]
              /\ \A t \in DOMAIN work' : work'[t].pc # "none" => work'[t].chan # Nil
            BY <1>0, <3>1, WorkTyped DEF TypeOK
        <3> QED
            BY <1>0, <1>15, <3>2 DEF RecvClosed, serverVars, TypeOK
    <2>2. Phases'
        BY <1>0, <1>15 DEF RecvClosed, serverVars, Phases
    <2>3. Closing'
        BY <1>0, <1>15 DEF RecvClosed, serverVars, Closing
    <2>4. Channels'
        BY <1>0, <1>15 DEF RecvClosed, serverVars, Channels
    <2>5. Served'
        BY <1>0, <1>15 DEF RecvClosed, serverVars, Served, Active
    <2>6. Seen'
        BY <1>0, <1>15 DEF RecvClosed, serverVars, Seen
    <2> QED
        BY <2>1, <2>2, <2>3, <2>4, <2>5, <2>6 DEF IndInv
<1>16. ASSUME NEW s \in DOMAIN work, Check(s) PROVE IndInv'
    <2>1. TypeOK'
        <3>1. work' = [work EXCEPT ![s].pc = IF db.active THEN "recv" ELSE "gone"] /\ work[s].pc # "none"
            BY <1>16 DEF Check
        <3>2. /\ work' \in [Runs \X (1 .. Workers) ->
                 [pc : {"none", "recv", "check", "gone"}, chan : {Nil} \cup Runs]]
              /\ \A t \in DOMAIN work' : work'[t].pc # "none" => work'[t].chan # Nil
            BY <1>0, <3>1, WorkTyped DEF TypeOK
        <3> QED
            BY <1>0, <1>16, <3>2 DEF Check, serverVars, TypeOK
    <2>2. Phases'
        BY <1>0, <1>16 DEF Check, serverVars, Phases
    <2>3. Closing'
        BY <1>0, <1>16 DEF Check, serverVars, Closing
    <2>4. Channels'
        BY <1>0, <1>16 DEF Check, serverVars, Channels
    <2>5. Served'
        BY <1>0, <1>16 DEF Check, serverVars, Served, Active
    <2>6. Seen'
        BY <1>0, <1>16 DEF Check, serverVars, Seen
    <2> QED
        BY <2>1, <2>2, <2>3, <2>4, <2>5, <2>6 DEF IndInv
<1>17. CASE End \/ UNCHANGED vars
    <2>1. TypeOK'
        BY <1>0, <1>17 DEF End, vars, TypeOK
    <2>2. Phases'
        BY <1>0, <1>17 DEF End, vars, Phases
    <2>3. Closing'
        BY <1>0, <1>17 DEF End, vars, Closing
    <2>4. Channels'
        BY <1>0, <1>17 DEF End, vars, Channels
    <2>5. Served'
        BY <1>0, <1>17 DEF End, vars, Served, Active
    <2>6. Seen'
        BY <1>0, <1>17 DEF End, vars, Seen
    <2> QED
        BY <2>1, <2>2, <2>3, <2>4, <2>5, <2>6 DEF IndInv
<1> QED
    BY <1>1, <1>2, <1>3, <1>4, <1>5, <1>6, <1>7, <1>8, <1>9, <1>10, <1>11,
       <1>12, <1>13, <1>14, <1>15, <1>16, <1>17
       DEF Next, ListenerStep, CloserStep, WriterStep, WorkerStep

-----------------------------------------------------------------------------
\* The invariant holds in every state of every behaviour.
LEMMA Inductive == Spec => []IndInv
<1>1. Init => IndInv
    BY InitEstablishes
<1>2. IndInv /\ [Next]_vars => IndInv'
    BY NextPreserves
<1> QED
    BY <1>1, <1>2, PTL DEF Spec

\* The server, the storage and their goroutines keep their types; a worker
\* that was started holds a channel, never nil (katamari.go, memory.go).
THEOREM LifecycleTyped == Spec => []TypeOK
<1>1. IndInv => TypeOK
    BY DEF IndInv
<1> QED
    BY <1>1, Inductive, PTL

\* However many runs and closers came before, a server that says it is active
\* has an active storage, an open channel with each of its workers on it, a
\* listener and a ticker (katamari.go Active, Start).
THEOREM ActiveServerIsWhole == Spec => []ActiveIsWhole
<1>1. IndInv => ActiveIsWhole
    <2> SUFFICES ASSUME IndInv, Active, main = "idle"
                 PROVE  /\ db.active /\ db.watcher \notin closed \cup {Nil}
                        /\ \A i \in 1 .. Workers :
                              /\ work[<<run, i>>].pc \in {"recv", "check"}
                              /\ work[<<run, i>>].chan = db.watcher
                        /\ listener[run] = "serve" /\ run \notin shut
                        /\ ticker[run] = "on"
        BY DEF ActiveIsWhole
    <2> USE ConstantsAssumption
    <2>1. TypeOK /\ Phases /\ Closing /\ Channels /\ Served
        BY DEF IndInv
    <2>2. active = 1 /\ closing = 0
        BY DEF Active
    <2>3. db.active /\ run > 0 /\ db.watcher = run /\ run \in Nat /\ run \in Runs
        BY <2>1, <2>2 DEF Channels, TypeOK, Runs
    <2>4. closed = 1 .. run - 1
        BY <2>1, <2>3 DEF Channels
    <2>5. db.watcher \notin closed \cup {Nil}
        BY <2>3, <2>4 DEF Nil
    <2>6. run \notin shut
        BY <2>1, <2>2 DEF Phases
    <2>7. listener[run] = "serve"
        BY <2>1, <2>3, <2>6 DEF Phases
    <2>8. ticker[run] = "on"
        BY <2>1, <2>3 DEF Served
    <2> QED
        BY <2>1, <2>3, <2>5, <2>6, <2>7, <2>8 DEF Served
<1> QED
    BY <1>1, Inductive, PTL

\* When all the calls of Close have returned, whatever their number and their
\* order, the storage, its channel and the listener are closed (katamari.go Close).
THEOREM CloseCompletes == Spec => []CloseIsComplete
<1>1. IndInv => CloseIsComplete
    <2> SUFFICES ASSUME IndInv, closing = 1, \A c \in Closers : closer[c] = "idle"
                 PROVE  /\ active = 0
                        /\ db = [active |-> FALSE, watcher |-> Nil]
                        /\ closed = 1 .. run /\ run \in shut
        BY DEF CloseIsComplete
    <2>1. TypeOK /\ Phases /\ Closing /\ Channels
        BY DEF IndInv
    <2>2. active = 0 /\ ~db.active /\ run \in shut
        BY <2>1 DEF Closing
    <2>3. db = [active |-> FALSE, watcher |-> Nil]
        BY <2>1, <2>2 DEF Channels, TypeOK
    <2>4. ~(run > 0 /\ listener[run] = "open")
        BY <2>1 DEF Phases
    <2>5. closed = 1 .. run
        BY <2>1, <2>2, <2>4 DEF Channels
    <2> QED
        BY <2>2, <2>3, <2>5
<1> QED
    BY <1>1, Inductive, PTL

\* Only an operation that found the storage active before it was closed can
\* panic on a closed channel or be left on the nil one (memory.go Set, Close).
THEOREM OnlyLateFail == Spec => []OnlyLateSendersFail
<1>1. IndInv => OnlyLateSendersFail
    <2> SUFFICES ASSUME IndInv, NEW w \in Writers,
                        req[w].pc = "panicked" \/ (req[w].pc = "send" /\ req[w].chan = Nil)
                 PROVE  req[w].seen \in closed
        BY DEF OnlyLateSendersFail
    <2>1. TypeOK /\ Channels /\ Seen
        BY DEF IndInv
    <2>2. CASE req[w].pc = "panicked"
        BY <2>1, <2>2 DEF Seen
    <2>3. CASE req[w].pc = "send" /\ req[w].chan = Nil
        <3>1. SUFFICES ASSUME req[w].chan = req[w].seen, req[w].seen \notin closed
                       PROVE  FALSE
            BY <2>1, <2>3 DEF Seen
        <3>2. db.active /\ req[w].seen = run
            BY <2>1, <2>3, <3>1 DEF Seen
        <3> QED
            BY <2>1, <2>3, <3>1, <3>2 DEF Channels, TypeOK, Nil
    <2> QED
        BY <2>2, <2>3
<1> QED
    BY <1>1, Inductive, PTL

-----------------------------------------------------------------------------
(***************************************************************************)
(* Who waits on a channel that is open has somebody to wait for.           *)
(***************************************************************************)
\* A worker has the channel of the storage, and has not left it, or one that has
\* been closed ...
Manned ==
    \A s \in DOMAIN work :
       work[s].pc # "none" =>
          \/ work[s].chan \in closed
          \/ db.active /\ work[s].chan = run /\ work[s].pc # "gone"

\* ... and what a writer sends on is one of the two, or nil.
Sent ==
    \A w \in Writers :
       req[w].pc = "send" =>
          req[w].chan \in closed \cup {Nil} \/ (db.active /\ req[w].chan = run)

\* One step per action that changes a worker, the storage or the run.
LEMMA MannedStep == IndInv /\ Manned /\ Sent /\ [Next]_vars => Manned' /\ Sent'
<1> SUFFICES ASSUME IndInv, Manned, Sent, [Next]_vars PROVE Manned' /\ Sent'
    OBVIOUS
<1> USE ConstantsAssumption
<1>0. TypeOK /\ Phases /\ Closing /\ Channels
    BY DEF IndInv
<1>1. CASE Start
    <2>1. run > 0 => closing = 1
        BY <1>0, <1>1 DEF Start, Phases, TypeOK
    <2>2. ~db.active
        BY <1>0, <1>1, <2>1 DEF Start, Closing, Channels
    <2> QED
        BY <1>1, <2>2 DEF Start, Manned, Sent
<1>2. ASSUME NEW n \in Runs, StorageStart(n) PROVE Manned' /\ Sent'
    <2>1. n = run
        BY <1>0, <1>2 DEF StorageStart, Phases
    <2>2. ~db.active
        BY <1>0, <1>2, <2>1 DEF StorageStart, Channels
    <2> QED
        BY <1>2, <2>2 DEF StorageStart, Manned, Sent
<1>3. CASE WaitStart
    <2>1. CASE active = 0 \/ ~db.active
        BY <1>3, <2>1 DEF WaitStart, Manned, Sent
    <2>2. CASE ~(active = 0 \/ ~db.active)
        <3>1. db.active /\ db.watcher = run
            BY <1>0, <2>2 DEF Channels
        <3>2. /\ UNCHANGED <<db, closed, run>>
              /\ work' = [s \in DOMAIN work |->
                     IF s[1] = run THEN [pc |-> "recv", chan |-> run] ELSE work[s]]
              /\ UNCHANGED req
            BY <1>3, <2>2, <3>1 DEF WaitStart
        <3> QED
            BY <3>1, <3>2 DEF Manned, Sent
    <2> QED
        BY <2>1, <2>2
<1>4. ASSUME NEW c \in Closers, StorageClose(c) PROVE Manned' /\ Sent'
    <2>1. closed' = closed \cup ({db.watcher} \ {Nil}) /\ UNCHANGED <<run, work, req>>
        BY <1>4 DEF StorageClose, serverVars
    <2>2. db.active => run \in closed'
        BY <1>0, <2>1 DEF Channels, TypeOK, Nil
    <2> QED
        BY <2>1, <2>2 DEF Manned, Sent
<1>5. ASSUME NEW w \in Writers, NEW s \in DOMAIN work, Deliver(w, s) PROVE Manned' /\ Sent'
    <2>1. /\ work[s].pc = "recv" /\ work' = [work EXCEPT ![s].pc = "check"]
          /\ req' = [req EXCEPT ![w] = IdleReq]
          /\ UNCHANGED <<db, closed, run>>
        BY <1>5 DEF Deliver, serverVars
    <2>2. Manned'
        BY <1>0, <2>1 DEF Manned, TypeOK
    <2>3. Sent'
        BY <1>0, <2>1 DEF Sent, TypeOK, IdleReq
    <2> QED
        BY <2>2, <2>3
<1>6. ASSUME NEW s \in DOMAIN work, WorkerStep(s) PROVE Manned' /\ Sent'
    <2>1. UNCHANGED <<db, closed, run, req>> /\ work[s].pc # "none"
        BY <1>6 DEF WorkerStep, RecvClosed, Check, serverVars
    <2>2. \/ work' = [work EXCEPT ![s].pc = "check"]
          \/ db.active /\ work' = [work EXCEPT ![s].pc = "recv"]
          \/ ~db.active /\ work' = [work EXCEPT ![s].pc = "gone"]
        BY <1>6 DEF WorkerStep, RecvClosed, Check
    <2> QED
        BY <1>0, <2>1, <2>2 DEF Manned, Sent, TypeOK
<1>7. ASSUME NEW w \in Writers, CheckActive(w) \/ LoadWatcher(w) \/ SendPanics(w)
      PROVE  Manned' /\ Sent'
    <2>1. UNCHANGED <<db, closed, run, work>>
        BY <1>7 DEF CheckActive, LoadWatcher, SendPanics, serverVars
    <2>2. \A v \in Writers : req'[v].pc = "send" =>
             \/ req[v].pc = "send" /\ req'[v].chan = req[v].chan
             \/ req'[v].chan = db.watcher
        BY <1>0, <1>7 DEF CheckActive, LoadWatcher, SendPanics, TypeOK
    <2>3. db.watcher = Nil \/ (db.active /\ db.watcher = run)
        BY <1>0 DEF Channels, TypeOK
    <2>4. Sent'
        BY <2>1, <2>2, <2>3 DEF Sent
    <2> QED
        BY <2>1, <2>4 DEF Manned
<1>8. CASE UNCHANGED <<db, closed, run, work, req>>
    BY <1>8 DEF Manned, Sent
<1>9. ASSUME NEW n \in Runs, Listen(n) \/ ServeEnds(n) \/ TickEnds(n)
      PROVE  UNCHANGED <<db, closed, run, work, req>>
    BY <1>9 DEF Listen, ServeEnds, TickEnds
<1>10. ASSUME NEW c \in Closers, Close(c) \/ CloseServer(c) \/ Shutdown(c)
       PROVE  UNCHANGED <<db, closed, run, work, req>>
    BY <1>10 DEF Close, CloseServer, Shutdown, serverVars
<1>11. End \/ UNCHANGED vars => UNCHANGED <<db, closed, run, work, req>>
    BY DEF End, vars
<1> QED
    BY <1>1, <1>2, <1>3, <1>4, <1>5, <1>6, <1>7, <1>8, <1>9, <1>10, <1>11
       DEF Next, ListenerStep, CloserStep, WriterStep

\* An operation waits on a channel for nothing only while Start is under way:
\* no worker has left a channel that is open, after any number of runs and
\* whatever the workers of the earlier ones do.  It is what SenderIsAnswered
\* needs beside fairness (katamari.go watch, memory.go Set).
THEOREM NobodySendsToNone == Spec => []SendersAreServed
<1>1. Init => Manned /\ Sent
    BY DEF Init, Manned, Sent, IdleReq
<1>2. IndInv /\ Manned /\ Sent => SendersAreServed
    <2> SUFFICES ASSUME IndInv, Manned, Sent PROVE SendersAreServed
        OBVIOUS
    <2> USE ConstantsAssumption
    <2>1. Served
        BY DEF IndInv
    <2>2. ASSUME main = "idle", NEW w \in Writers, NEW i \in 1 .. Workers,
                 req[w].pc = "send", req[w].chan \notin closed \cup {Nil}
          PROVE  /\ work[<<run, i>>].pc \in {"recv", "check"}
                 /\ work[<<run, i>>].chan = req[w].chan
        <3>1. db.active /\ req[w].chan = run
            BY <2>2 DEF Sent
        <3> QED
            BY <2>1, <2>2, <3>1 DEF Served
    <2> QED
        BY <2>2 DEF SendersAreServed, Manned
<1> QED
    BY <1>1, <1>2, MannedStep, Inductive, PTL DEF Spec

=============================================================================
