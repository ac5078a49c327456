-------------------------- MODULE ClientSubscribe --------------------------
(***************************************************************************)
(* The Go client's Subscribe (client/subscribe.go): a loop that dials,     *)
(* reads until something fails and dials again, and the goroutine that     *)
(* closes its connection when the context is cancelled.  They share        *)
(* closingTime and, under muWsClient, wsClient.                            *)
(*                                                                         *)
(* The network may refuse a dial and end a connection at any time.  What a *)
(* message says matters only in that it may fail to parse; how long the    *)
(* loop sleeps (retryCount) is left out.                                   *)
(***************************************************************************)
EXTENDS Naturals, FiniteSets

CONSTANTS
    MaxDials,           \* bound on the connections made
    MaxMessages         \* bound on the messages received and not read

ASSUME BoundsAssumption == MaxDials \in Nat \ {0} /\ MaxMessages \in Nat

Nil == 0                \* no connection

VARIABLES
    cancelled,          \* the context is done
    closingTime,
    wsClient,
    mutex,              \* muWsClient: held only by the loop, while it dials
    loop,               \* where the loop is
    closer,             \* where the goroutine of ctx.Done is
    dials,              \* connections made so far
    open,               \* the connections the client has not closed
    up,                 \* the connections that still reach the server
    buffered,           \* messages of wsClient received and not read
    abandoned,          \* history: connections left at a message that fails
    late                \* history: the last dial began after closer was done

vars == <<cancelled, closingTime, wsClient, mutex, loop, closer, dials, open, up,
          buffered, abandoned, late>>

netVars == <<dials, open, up, buffered>>

TypeOK ==
    /\ cancelled \in BOOLEAN /\ closingTime \in BOOLEAN
    /\ wsClient \in 0 .. dials
    /\ mutex \in BOOLEAN
    /\ loop \in {"lock", "dial", "read", "bye", "sleep", "ended"}
    /\ closer \in {"wait", "lock", "done"}
    /\ dials \in 0 .. MaxDials
    /\ open \subseteq 1 .. dials /\ up \subseteq 1 .. dials
    /\ buffered \in 0 .. MaxMessages
    /\ abandoned \subseteq 1 .. dials
    /\ late \in BOOLEAN
    /\ IF loop = "dial" THEN mutex = TRUE ELSE mutex = FALSE
    /\ loop \in {"read", "bye"} => wsClient = dials /\ dials > 0

Init ==
    /\ cancelled = FALSE /\ closingTime = FALSE
    /\ wsClient = Nil
    /\ mutex = FALSE
    /\ loop = "lock" /\ closer = "wait"
    /\ dials = 0
    /\ open = {} /\ up = {}
    /\ buffered = 0
    /\ abandoned = {} /\ late = FALSE

-----------------------------------------------------------------------------
(***************************************************************************)
(* The network and the owner of the context.                               *)
(***************************************************************************)
Cancel ==
    /\ ~cancelled
    /\ cancelled' = TRUE
    /\ UNCHANGED <<closingTime, wsClient, mutex, loop, closer, netVars, abandoned, late>>

\* A message reaches the buffer of the connection that is read.
Arrive ==
    /\ loop = "read" /\ wsClient \in open \cap up
    /\ buffered < MaxMessages
    /\ buffered' = buffered + 1
    /\ UNCHANGED <<cancelled, closingTime, wsClient, mutex, loop, closer, dials, open, up,
                   abandoned, late>>

\* The server closes the connection, or it is lost.
Break(n) ==
    /\ n \in up
    /\ up' = up \ {n}
    /\ UNCHANGED <<cancelled, closingTime, wsClient, mutex, loop, closer, dials,
                   open, buffered, abandoned, late>>

-----------------------------------------------------------------------------
(***************************************************************************)
(* The goroutine of the context.                                           *)
(***************************************************************************)
\* Mutant of Notice: closingTime is not set.
NoticeNoFlagMutant ==
    /\ closer = "wait" /\ cancelled
    /\ closer' = "lock"
    /\ UNCHANGED <<cancelled, closingTime, wsClient, mutex, loop, netVars, abandoned, late>>

\* <-ctx.Done() and ct.Swap(true)
Notice ==
    /\ closer = "wait" /\ cancelled
    /\ closingTime' = TRUE
    /\ closer' = "lock"
    /\ UNCHANGED <<cancelled, wsClient, mutex, loop, netVars, abandoned, late>>

\* Mutant of CloseConnection: the mutex is not taken.
CloseConnectionUnlockedMutant ==
    /\ closer = "lock"
    /\ open' = open \ {wsClient}
    /\ closer' = "done"
    /\ UNCHANGED <<cancelled, closingTime, wsClient, mutex, loop, dials, up, buffered,
                   abandoned, late>>

\* Under the mutex: whatever connection there is, is closed.
CloseConnection ==
    /\ closer = "lock" /\ ~mutex
    /\ open' = open \ {wsClient}
    /\ closer' = "done"
    /\ UNCHANGED <<cancelled, closingTime, wsClient, mutex, loop, dials, up, buffered,
                   abandoned, late>>

-----------------------------------------------------------------------------
(***************************************************************************)
(* The loop.                                                               *)
(***************************************************************************)
Lock ==
    /\ loop = "lock" /\ ~mutex
    /\ mutex' = TRUE
    /\ loop' = "dial"
    /\ late' = (closer = "done")
    /\ UNCHANGED <<cancelled, closingTime, wsClient, closer, netVars, abandoned>>

Dial ==
    /\ loop = "dial" /\ dials < MaxDials
    /\ dials' = dials + 1
    /\ wsClient' = dials + 1
    /\ open' = open \cup {dials + 1}
    /\ up' = up \cup {dials + 1}
    /\ buffered' = 0
    /\ mutex' = FALSE
    /\ loop' = "read"
    /\ UNCHANGED <<cancelled, closingTime, closer, abandoned, late>>

\* Mutant of DialFails: the next dial is tried under the same lock.
DialFailsRetriesMutant ==
    /\ loop = "dial"
    /\ wsClient' = Nil
    /\ UNCHANGED <<cancelled, closingTime, mutex, loop, closer, netVars, abandoned, late>>

\* wsClient is nil; the loop sleeps and dials again, cancelled or not.
DialFails ==
    /\ loop = "dial"
    /\ wsClient' = Nil
    /\ mutex' = FALSE
    /\ loop' = "sleep"
    /\ UNCHANGED <<cancelled, closingTime, closer, netVars, abandoned, late>>

\* A message that parses goes to the callback.  What was buffered when the
\* connection was closed is still read.
ReadMessage ==
    /\ loop = "read" /\ buffered > 0
    /\ buffered' = buffered - 1
    /\ UNCHANGED <<cancelled, closingTime, wsClient, mutex, loop, closer, dials,
                   open, up, abandoned, late>>

\* A message, or its data, does not parse: the loop is left, the connection
\* stays open.
ParseFails ==
    /\ loop = "read" /\ buffered > 0
    /\ buffered' = 0
    /\ abandoned' = abandoned \cup {wsClient}
    /\ loop' = "bye"
    /\ UNCHANGED <<cancelled, closingTime, wsClient, mutex, closer, dials, open, up,
                   late>>

\* Mutant of ReadFails: the connection is not closed.
ReadFailsOpenMutant ==
    /\ loop = "read" /\ wsClient \notin open \cap up
    /\ buffered' = 0
    /\ loop' = "bye"
    /\ UNCHANGED <<cancelled, closingTime, wsClient, mutex, closer, dials, open, up,
                   abandoned, late>>

ReadFails ==
    /\ loop = "read" /\ wsClient \notin open \cap up
    /\ buffered' = 0
    /\ open' = open \ {wsClient}
    /\ loop' = "bye"
    /\ UNCHANGED <<cancelled, closingTime, wsClient, mutex, closer, dials, up,
                   abandoned, late>>

\* closingTime is looked at here and nowhere else.
Bye ==
    /\ loop = "bye"
    /\ loop' = IF closingTime THEN "ended" ELSE "sleep"
    /\ UNCHANGED <<cancelled, closingTime, wsClient, mutex, closer, netVars, abandoned, late>>

Wake ==
    /\ loop = "sleep"
    /\ loop' = "lock"
    /\ UNCHANGED <<cancelled, closingTime, wsClient, mutex, closer, netVars, abandoned, late>>

-----------------------------------------------------------------------------
LoopStep ==
    \/ Lock \/ Dial \/ DialFails
    \/ ReadMessage \/ ParseFails \/ ReadFails
    \/ Bye \/ Wake

CloserStep == Notice \/ CloseConnection

\* Subscribe has returned, and its goroutine with it.
End == loop = "ended" /\ closer = "done" /\ UNCHANGED vars

Next ==
    \/ Cancel
    \/ Arrive
    \/ \E n \in 1 .. dials : Break(n)
    \/ LoopStep
    \/ CloserStep
    \/ End

Spec == Init /\ [][Next]_vars

(***************************************************************************)
(* Both goroutines run, a dial ends within HandshakeTimeout, and the mutex *)
(* is starvation free: the loop cannot take it again and again before the  *)
(* closer.  Cancelling, messages and failures have no fairness.            *)
(***************************************************************************)
FairSpec == Spec /\ WF_vars(LoopStep) /\ SF_vars(CloserStep)

-----------------------------------------------------------------------------
(***************************************************************************)
(* Properties.                                                             *)
(***************************************************************************)
\* A connection that is open is the loop's current one or was left at a
\* message that did not parse: reconnecting leaks no other.
OpenIsCurrent == open \subseteq abandoned \cup {wsClient}

\* The closer misses no connection whose dial had begun before it came: what
\* the loop reads after the closer is done, it has begun to dial afterwards.
CloserMissesNone ==
    closer = "done" /\ loop = "read" /\ wsClient \in open => late

\* The inductive forms: outside the read loop only connections left at a
\* message are open, and a dial under way began after the closer was done, or
\* the closer is still to come.
LeftOpen == loop # "read" => open \subseteq abandoned
DialIsLate == loop = "dial" /\ closer = "done" => late

IndInv == TypeOK /\ OpenIsCurrent /\ CloserMissesNone /\ LeftOpen /\ DialIsLate

\* The closer always comes to the connection, whatever the loop dials.
CloserComes == cancelled ~> closer = "done"

\* The loop ends when the connection that it reads is closed by the closer, or
\* fails at any time after.
ClosedReaderEnds ==
    (closer = "done" /\ loop = "read" /\ wsClient \notin open \cap up) ~> loop = "ended"

\* "cancel while reconnecting in progress" (client/subscribe_test.go): a
\* cancelled subscription ends.
CancelEnds == cancelled ~> loop = "ended"

============================================================================
