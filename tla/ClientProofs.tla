---------------------------- MODULE ClientProofs ----------------------------
(***************************************************************************)
(* Theorems about ClientSubscribe, for any number of dials and messages,   *)
(* and about SubscribeSession, for any number of writes besides.           *)
(***************************************************************************)
EXTENDS SubscribeSession, TLAPS

LEMMA InitEstablishes == Init => IndInv
<1> SUFFICES ASSUME Init PROVE IndInv
    OBVIOUS
<1>1. /\ wsClient \in 0 .. dials /\ dials \in 0 .. MaxDials
      /\ buffered \in 0 .. MaxMessages
    BY BoundsAssumption DEF Init, Nil
<1>2. TypeOK
    BY <1>1 DEF Init, TypeOK
<1>3. OpenIsCurrent /\ CloserMissesNone /\ LeftOpen /\ DialIsLate
    BY DEF Init, OpenIsCurrent, CloserMissesNone, LeftOpen, DialIsLate
<1> QED
    BY <1>2, <1>3 DEF IndInv

\* One step per action of the loop, of the closer and of the network.
LEMMA NextPreserves == IndInv /\ [Next]_vars => IndInv'
<1> SUFFICES ASSUME IndInv, [Next]_vars PROVE IndInv'
    OBVIOUS
<1> USE BoundsAssumption
       DEF IndInv, TypeOK, OpenIsCurrent, CloserMissesNone, LeftOpen, DialIsLate, Nil, netVars
<1>1. CASE Cancel
    BY <1>1 DEF Cancel
<1>2. CASE Arrive
    <2>1. TypeOK'
        BY <1>2 DEF Arrive
    <2>2. OpenIsCurrent' /\ CloserMissesNone' /\ LeftOpen' /\ DialIsLate'
        BY <1>2 DEF Arrive
    <2> QED
        BY <2>1, <2>2
<1>3. ASSUME NEW n \in 1 .. dials, Break(n) PROVE IndInv'
    BY <1>3 DEF Break
<1>4. CASE Lock
    BY <1>4 DEF Lock
<1>5. CASE Dial
    <2>0. /\ dials' \in 0 .. MaxDials /\ dials' > 0 /\ wsClient' = dials'
          /\ wsClient' \in 0 .. dials' /\ buffered' \in 0 .. MaxMessages
        BY <1>5 DEF Dial
    <2>1. open' \subseteq 1 .. dials' /\ up' \subseteq 1 .. dials' /\ abandoned' \subseteq 1 .. dials'
        BY <1>5 DEF Dial
    <2>2. TypeOK'
        BY <1>5, <2>0, <2>1 DEF Dial
    <2>3. OpenIsCurrent' /\ CloserMissesNone' /\ LeftOpen' /\ DialIsLate'
        BY <1>5 DEF Dial
    <2> QED
        BY <2>2, <2>3
<1>6. CASE DialFails
    <2>0. wsClient' \in 0 .. dials'
        BY <1>6 DEF DialFails
    <2>1. TypeOK'
        BY <1>6, <2>0 DEF DialFails
    <2>2. OpenIsCurrent' /\ CloserMissesNone' /\ LeftOpen' /\ DialIsLate'
        BY <1>6 DEF DialFails
    <2> QED
        BY <2>1, <2>2
<1>7. CASE ReadMessage
    BY <1>7 DEF ReadMessage
<1>8. CASE ParseFails
    BY <1>8 DEF ParseFails
<1>9. CASE ReadFails
    BY <1>9 DEF ReadFails
<1>10. CASE Bye
    BY <1>10 DEF Bye
<1>11. CASE Wake
    BY <1>11 DEF Wake
<1>12. CASE Notice
    BY <1>12 DEF Notice
<1>13. CASE CloseConnection
    BY <1>13 DEF CloseConnection
<1>14. CASE End \/ UNCHANGED vars
    <2>1. TypeOK'
        BY <1>14 DEF End, vars
    <2>2. OpenIsCurrent' /\ CloserMissesNone' /\ LeftOpen' /\ DialIsLate'
        BY <1>14 DEF End, vars
    <2> QED
        BY <2>1, <2>2
<1> QED
    BY <1>1, <1>2, <1>3, <1>4, <1>5, <1>6, <1>7, <1>8, <1>9, <1>10, <1>11, <1>12, <1>13,
       <1>14 DEF Next, LoopStep, CloserStep

LEMMA Inductive == Spec => []IndInv
BY InitEstablishes, NextPreserves, PTL DEF Spec

\* Every variable of the subscription keeps its type, and the mutex is held
\* exactly while the loop dials.
THEOREM SubscribeTyped == Spec => []TypeOK
<1>1. IndInv => TypeOK
    BY DEF IndInv
<1> QED
    BY <1>1, Inductive, PTL

\* Reconnecting leaks no connection but those left at a message that does not
\* parse, however often the network fails.
THEOREM ReconnectLeaksNone == Spec => []OpenIsCurrent
<1>1. IndInv => OpenIsCurrent
    BY DEF IndInv
<1> QED
    BY <1>1, Inductive, PTL

\* No connection whose dial began before the closer came escapes it.
THEOREM NoDialEscapes == Spec => []CloserMissesNone
<1>1. IndInv => CloserMissesNone
    BY DEF IndInv
<1> QED
    BY <1>1, Inductive, PTL

-----------------------------------------------------------------------------
(***************************************************************************)
(* The session.                                                            *)
(***************************************************************************)
LEMMA SessionStepUses == [SessionNext]_sessionVars => [Next]_vars
<1>1. ASSUME NEW n \in Conns, HandlerStep(n) PROVE UNCHANGED vars
    BY <1>1 DEF HandlerStep, Join, Fetch, Version, SetCache, Initial
<1>2. Write \/ WorkerStep => UNCHANGED vars
    BY DEF Write, WorkerStep, Collect, Tell
<1>3. Deliver => Next
    BY DEF Deliver, Next
<1>4. Loop => Next
    BY DEF Loop, Callback, Reject, Connect, Disconnect, Retry, Next, LoopStep
<1>5. Ask \/ Closing \/ (\E n \in 1 .. dials : Lose(n)) \/ Stop => [Next]_vars
    BY DEF Ask, Closing, Lose, Stop, Next
<1>6. UNCHANGED sessionVars => UNCHANGED vars
    BY DEF sessionVars
<1> QED
    BY <1>1, <1>2, <1>3, <1>4, <1>5, <1>6 DEF SessionNext, Server

\* What the server sends, and what it says, adds nothing to what the loop and
\* the closer do: what is proved of ClientSubscribe holds of every session.
THEOREM SessionUsesSubscribe == SessionSpec => Spec
<1>1. SessionInit => Init
    BY DEF SessionInit
<1> QED
    BY <1>1, SessionStepUses, PTL DEF SessionSpec, Spec

-----------------------------------------------------------------------------
(***************************************************************************)
(* What a clean session is told.  The invariant SessionInv, one lemma per  *)
(* action.                                                                 *)
(***************************************************************************)
LEMMA SessionFields ==
    ASSUME SessionInv
    PROVE  /\ TypeOK /\ MaxWrites \in Nat /\ Datum \subseteq Nat
           /\ store \in Nat /\ store <= MaxWrites /\ events \in Nat /\ events <= store
           /\ seen \in Datum /\ seen <= store
           /\ pool \in Datum \cup {Nothing} /\ (pool \in Nat => pool <= store)
           /\ hand \in [Conns -> {"none", "join", "get", "version", "set", "init", "done"}]
           /\ got \in [Conns -> Datum] /\ \A n \in Conns : got[n] <= store
           /\ wire \in Seq(Message) /\ Len(wire) \in Nat /\ buffered \in Nat /\ buffered <= Len(wire)
           /\ \A i \in 1 .. Len(wire) : wire[i] \in Message /\ wire[i].data <= store
           /\ cache \in Datum \cup {Nothing, Garbage} /\ told \in Datum \cup {Nothing, Garbage}
           /\ Nothing \notin Nat /\ Garbage \notin Nat /\ Nothing # Garbage
           /\ Reads(wsClient) => wsClient \in Conns
BY SessionAssumption, BoundsAssumption
DEF SessionInv, SessionTyped, Known, Datum, TypeOK, Conns, Reads

LEMMA AddMessage ==
    ASSUME NEW s \in Seq(Message), NEW m \in Message
    PROVE  /\ Append(s, m) \in Seq(Message) /\ Len(Append(s, m)) = Len(s) + 1
           /\ \A i \in 1 .. Len(s) : Append(s, m)[i] = s[i]
           /\ Append(s, m)[Len(s) + 1] = m
OBVIOUS

LEMMA DropMessage ==
    ASSUME NEW s \in Seq(Message), Len(s) > 0
    PROVE  /\ Tail(s) \in Seq(Message) /\ Len(Tail(s)) = Len(s) - 1
           /\ \A i \in 1 .. Len(s) - 1 : Tail(s)[i] = s[i + 1]
           /\ Head(s) = s[1] /\ Head(s) \in Message
OBVIOUS

LEMMA CutMessages ==
    ASSUME NEW s \in Seq(Message), NEW k \in 0 .. Len(s)
    PROVE  /\ SubSeq(s, 1, k) \in Seq(Message) /\ Len(SubSeq(s, 1, k)) = k
           /\ \A i \in 1 .. k : SubSeq(s, 1, k)[i] = s[i]
OBVIOUS

\* What is said of a clean connection is not said of another.
LEMMA Unclean ==
    ASSUME SessionTyped', Known', ~Clean'
    PROVE  SessionInv'
BY DEF SessionInv, Opening, PatchesFit, Ordered

\* A step that leaves the server, the messages and the cache, and does not make
\* the connection readable.
LEMMA OwnFrame ==
    ASSUME SessionInv, TypeOK', UNCHANGED <<serverVars, ownVars, clean>>,
           buffered' <= Len(wire), loop' # "read" => wire = <<>>,
           Reads(wsClient)' => Reads(wsClient) /\ wsClient' = wsClient
    PROVE  SessionInv'
<1>1. SessionTyped'
    BY DEF SessionInv, SessionTyped, serverVars, ownVars
<1>2. Known'
    BY DEF SessionInv, Known, serverVars, ownVars
<1>3. CASE Clean'
    <2>1. Clean /\ wsClient' = wsClient
        BY <1>3 DEF Clean
    <2> QED
        BY <1>1, <1>2, <2>1 DEF SessionInv, Opening, PatchesFit, Ordered, Held, serverVars, ownVars
<1> QED
    BY <1>1, <1>2, <1>3, Unclean

LEMMA RetryKeeps ==
    ASSUME SessionInv, TypeOK', Retry \/ Deliver \/ Ask \/ Closing \/ Stop
    PROVE  SessionInv'
<1>0. wire \in Seq(Message) /\ buffered \in Nat /\ buffered <= Len(wire)
    BY SessionFields
<1>1. loop # "read" => wire = <<>>
    BY DEF SessionInv, Known
<1>2. CASE Retry
    <2>1. /\ loop # "read" /\ loop' # "read" /\ buffered' = buffered
          /\ UNCHANGED <<serverVars, ownVars, clean>>
        BY <1>2 DEF Retry, Lock, DialFails, Bye, Wake, netVars
    <2> QED
        BY <1>0, <1>1, <2>1, OwnFrame DEF Reads
<1>3. CASE Deliver
    <2>1. /\ buffered' <= Len(wire) /\ UNCHANGED <<serverVars, ownVars, clean>>
          /\ UNCHANGED <<loop, wsClient, open, up>>
        BY <1>0, <1>3 DEF Deliver, Arrive
    <2> QED
        BY <1>1, <2>1, OwnFrame DEF Reads
<1>4. CASE Ask \/ Closing
    <2>1. /\ buffered' = buffered /\ UNCHANGED <<serverVars, ownVars, clean>>
          /\ UNCHANGED <<loop, wsClient, up>> /\ open' \subseteq open
        BY <1>4 DEF Ask, Closing, Cancel, CloserStep, Notice, CloseConnection, netVars
    <2> QED
        BY <1>0, <1>1, <2>1, OwnFrame DEF Reads
<1>5. CASE Stop
    BY <1>0, <1>1, <1>5, OwnFrame DEF Stop, sessionVars, vars, Reads
<1> QED
    BY <1>2, <1>3, <1>4, <1>5

\* The connection ends.
LEMMA EndKeeps ==
    ASSUME SessionInv, TypeOK', Disconnect \/ \E n \in 1 .. dials : Lose(n)
    PROVE  SessionInv'
<1>0. /\ wire \in Seq(Message) /\ buffered \in 0 .. Len(wire) /\ <<>> \in Seq(Message)
      /\ Len(<<>>) = 0 /\ \A i \in 1 .. Len(wire) : wire[i].data <= store
    BY SessionFields
<1>1. CASE Disconnect
    <2>1. /\ wire' = <<>> /\ UNCHANGED <<serverVars, cache, told, clean>> /\ buffered' = 0
          /\ loop' # "read"
        BY <1>1 DEF Disconnect, ReadFails
    <2>2. SessionTyped'
        BY <1>0, <2>1 DEF SessionInv, SessionTyped, serverVars
    <2>3. Known'
        BY <1>0, <2>1 DEF SessionInv, Known, serverVars
    <2> QED
        BY <2>1, <2>2, <2>3, Unclean DEF Clean, Reads
<1>2. ASSUME NEW n \in 1 .. dials, Lose(n) PROVE SessionInv'
    <2>1. /\ UNCHANGED <<serverVars, cache, told, clean>> /\ up' = up \ {n}
          /\ UNCHANGED <<loop, wsClient, open, buffered>>
        BY <1>2 DEF Lose, Break
    <2>2. CASE Reads(n)
        <3>1. wire' = SubSeq(wire, 1, buffered) /\ loop = "read" /\ n = wsClient
            BY <1>2, <2>2 DEF Lose, Reads
        <3>2. /\ wire' \in Seq(Message) /\ Len(wire') = buffered
              /\ \A i \in 1 .. Len(wire') : wire'[i] = wire[i]
            BY <1>0, <3>1, CutMessages
        <3>3. SessionTyped'
            BY <1>0, <2>1, <3>2 DEF SessionInv, SessionTyped, serverVars
        <3>4. \A i \in 1 .. Len(wire') : wire'[i].data <= store
            BY <1>0, <3>2
        <3>5. Known'
            BY <2>1, <3>1, <3>4 DEF SessionInv, Known, serverVars
        <3> QED
            BY <2>1, <3>1, <3>3, <3>5, Unclean DEF Clean, Reads
    <2>3. CASE ~Reads(n)
        <3>1. wire' = wire
            BY <1>2, <2>3 DEF Lose
        <3>2. loop' # "read" => wire = <<>>
            BY <2>1 DEF SessionInv, Known
        <3> QED
            BY <1>0, <2>1, <3>1, <3>2, OwnFrame DEF Reads, ownVars
    <2> QED
        BY <2>2, <2>3
<1> QED
    BY <1>1, <1>2

\* What the cache is after a message that the path has had.
LEMMA PatchedKnown ==
    ASSUME SessionInv, NEW m \in Message, m.data <= store
    PROVE  /\ Patched(m) \in Datum \cup {Nothing, Garbage}
           /\ Patched(m) \in Nat => Patched(m) <= store
BY SessionFields DEF SessionInv, Known, Patched, Message

LEMMA RejectKeeps ==
    ASSUME SessionInv, TypeOK', Reject
    PROVE  SessionInv'
<1> DEFINE m == Head(wire)
<1>0. /\ wire \in Seq(Message) /\ Len(wire) \in Nat /\ buffered \in Nat /\ buffered <= Len(wire)
      /\ <<>> \in Seq(Message) /\ Len(<<>>) = 0
    BY SessionFields
<1>1. /\ loop' # "read" /\ buffered' = 0 /\ wire' = <<>> /\ buffered > 0
      /\ UNCHANGED <<serverVars, told, clean>> /\ cache' \in {cache, Patched(m)}
    BY DEF Reject, ParseFails
<1>2. m \in Message /\ m.data <= store
    BY <1>0, <1>1, DropMessage, SessionFields
<1>3. cache' \in Datum \cup {Nothing, Garbage} /\ (cache' \in Nat => cache' <= store)
    BY <1>1, <1>2, PatchedKnown DEF SessionInv, SessionTyped, Known
<1> HIDE DEF m
<1>4. SessionTyped'
    BY <1>0, <1>1, <1>3 DEF SessionInv, SessionTyped, serverVars
<1>5. Known'
    BY <1>0, <1>1, <1>3 DEF SessionInv, Known, serverVars
<1> QED
    BY <1>1, <1>4, <1>5, Unclean DEF Clean, Reads

LEMMA ConnectKeeps ==
    ASSUME SessionInv, TypeOK', Connect
    PROVE  SessionInv'
<1> DEFINE n == dials + 1
<1>1. /\ wsClient' = n /\ loop' = "read" /\ buffered' = 0 /\ loop = "dial" /\ dials < MaxDials
      /\ hand' = [hand EXCEPT ![n] = "join"]
      /\ UNCHANGED <<store, events, locked, seen, pool, got, ownVars>> /\ clean' = TRUE
    BY DEF Connect, Dial
<1>2. n \in Conns
    BY <1>1, BoundsAssumption DEF SessionInv, SessionTyped, TypeOK, Conns
<1> HIDE DEF n
<1>3. wire = <<>> /\ wire' = <<>> /\ Len(wire) = 0
    BY <1>1 DEF SessionInv, Known, ownVars
<1>4. /\ hand' \in [Conns -> {"none", "join", "get", "version", "set", "init", "done"}]
      /\ hand'[n] = "join"
    BY <1>1, <1>2, SessionFields
<1>5. SessionTyped'
    BY <1>1, <1>3, <1>4 DEF SessionInv, SessionTyped, ownVars
<1>6. Known'
    BY <1>1, <1>3 DEF SessionInv, Known, ownVars
<1> QED
    BY <1>1, <1>3, <1>4, <1>5, <1>6 DEF SessionInv, Opening, PatchesFit, Ordered

LEMMA WriteKeeps ==
    ASSUME SessionInv, TypeOK', Write
    PROVE  SessionInv'
<1>1. /\ store' = store + 1 /\ events' = events + 1 /\ store < MaxWrites
      /\ UNCHANGED <<vars, locked, seen, pool, hand, got, ownVars, clean>>
    BY DEF Write
<1>2. store' \in Datum /\ events' \in Datum /\ events' <= store' /\ store <= store'
      /\ store' \in Nat
    BY <1>1, SessionFields DEF Datum
<1>3. SessionTyped'
    BY <1>1, <1>2 DEF SessionInv, SessionTyped, ownVars, vars
<1>4. Known'
    <2>1. \A x \in Nat : x <= store => x <= store'
        BY <1>1, SessionFields
    <2>2. /\ seen \in Nat /\ seen <= store' /\ \A n \in Conns : got[n] \in Nat /\ got[n] <= store'
          /\ \A i \in 1 .. Len(wire) : wire[i].data \in Nat /\ wire[i].data <= store'
        BY <2>1, SessionFields DEF Message
    <2>3. \A d \in {pool, cache, told} : d \in Nat => d <= store'
        BY <2>1 DEF SessionInv, Known
    <2> QED
        BY <1>1, <1>2, <2>2, <2>3 DEF SessionInv, Known, ownVars, vars
<1> QED
    BY <1>1, <1>3, <1>4
    DEF SessionInv, Opening, PatchesFit, Ordered, Clean, Reads, Held, vars, ownVars

LEMMA CollectKeeps ==
    ASSUME SessionInv, TypeOK', Collect
    PROVE  SessionInv'
<1>1. /\ events' = events - 1 /\ events > 0 /\ locked' = TRUE /\ seen' = store
      /\ UNCHANGED <<vars, store, pool, hand, got, ownVars, clean>>
    BY DEF Collect
<1>2. events' \in Datum /\ seen' \in Datum /\ events' <= store
    BY <1>1, SessionFields DEF Datum
<1>3. SessionTyped'
    BY <1>1, <1>2 DEF SessionInv, SessionTyped, ownVars, vars
<1>4. Known'
    BY <1>1, <1>2, SessionFields DEF SessionInv, Known, ownVars, vars
<1> QED
    BY <1>1, <1>3, <1>4
    DEF SessionInv, Opening, PatchesFit, Ordered, Clean, Reads, Held, vars, ownVars

\* A message that is sent to a clean connection, as the last one: the data that
\* the pool's cache is from now on.
LEMMA SentFits ==
    ASSUME SessionInv, Clean, NEW m \in Message, wire' = Append(wire, m),
           wsClient' = wsClient, cache' = cache, told' = told, pool' = m.data,
           hand'[wsClient] = "done",
           told \in Nat => told <= m.data,
           IF hand[wsClient] = "done"
           THEN pool <= m.data /\ (m.snapshot \/ m.base = pool)
           ELSE m.snapshot
    PROVE  PatchesFit' /\ Ordered'
<1>0. wire \in Seq(Message) /\ Len(wire) \in Nat /\ Datum \subseteq Nat /\ m.data \in Nat
    BY SessionFields DEF Message
<1>1. /\ Len(wire') = Len(wire) + 1 /\ wire'[Len(wire) + 1] = m
      /\ \A i \in 1 .. Len(wire) : wire'[i] = wire[i] /\ wire[i].data \in Nat
    <2>1. \A i \in 1 .. Len(wire) : wire[i].data \in Nat
        BY <1>0, SessionFields DEF Message
    <2> QED
        BY <1>0, <2>1, AddMessage
<1>2. CASE hand[wsClient] = "done"
    <2>1. /\ \A i \in 1 .. Len(wire) : wire[i].snapshot \/ wire[i].base = Held(i - 1)
          /\ Held(Len(wire)) = pool /\ pool \in Nat
          /\ \A i \in 1 .. Len(wire) :
                /\ wire[i].data <= pool /\ (told \in Nat => told <= wire[i].data)
                /\ \A j \in i .. Len(wire) : wire[i].data <= wire[j].data
        BY <1>2 DEF SessionInv, PatchesFit, Ordered
    <2>2. \A i \in 0 .. Len(wire) : Held(i)' = Held(i)
        BY <1>0, <1>1 DEF Held
    <2>3. PatchesFit'
        <3>1. Held(Len(wire))' = m.data
            BY <1>0, <1>1 DEF Held
        <3>2. ASSUME NEW i \in 1 .. Len(wire')
              PROVE  wire'[i].snapshot \/ wire'[i].base = Held(i - 1)'
            <4>1. CASE i = Len(wire) + 1
                <5>1. i - 1 \in 0 .. Len(wire) /\ i - 1 = Len(wire) /\ wire'[i] = m
                    BY <1>0, <1>1, <4>1
                <5>2. Held(i - 1)' = pool
                    BY <2>1, <2>2, <5>1
                <5> QED
                    BY <1>2, <5>1, <5>2
            <4>2. CASE i \in 1 .. Len(wire)
                <5>1. i - 1 \in 0 .. Len(wire) /\ wire'[i] = wire[i]
                    BY <1>0, <1>1, <4>2
                <5> QED
                    BY <2>1, <2>2, <4>2, <5>1
            <4> QED
                BY <1>0, <1>1, <4>1, <4>2
        <3> QED
            BY <3>1, <3>2 DEF PatchesFit
    <2>4. Ordered'
        BY <1>0, <1>1, <1>2, <2>1 DEF Ordered
    <2> QED
        BY <2>3, <2>4
<1>3. CASE hand[wsClient] # "done"
    <2>1. Len(wire) = 0
        BY <1>3 DEF SessionInv, Opening
    <2>2. Len(wire') = 1 /\ wire'[1] = m
        BY <1>1, <2>1
    <2> QED
        BY <1>0, <1>3, <2>2 DEF PatchesFit, Ordered, Held
<1> QED
    BY <1>2, <1>3

LEMMA TellKeeps ==
    ASSUME SessionInv, TypeOK', NEW snapshot \in BOOLEAN, Tell(snapshot)
    PROVE  SessionInv'
<1> DEFINE m == [snapshot |-> snapshot, base |-> pool, data |-> seen]
<1>0. /\ wire \in Seq(Message) /\ Len(wire) \in Nat /\ Datum \subseteq Nat
      /\ seen \in Datum /\ seen <= store /\ 0 \in Datum /\ store \in Nat /\ 0 <= store
      /\ pool \in Datum \cup {Nothing} /\ buffered \in Nat /\ buffered <= Len(wire)
    BY SessionFields DEF Datum
<1>1. /\ locked /\ locked' = FALSE /\ pool' = seen /\ seen' = 0
      /\ wire' = IF Joined(wsClient) /\ Reads(wsClient) THEN Append(wire, m) ELSE wire
      /\ clean' = (clean /\ (Joined(wsClient) => hand[wsClient] = "done"))
      /\ UNCHANGED <<vars, store, events, hand, got, cache, told>>
    BY DEF Tell
<1>2. m \in Message /\ m.snapshot = snapshot /\ m.base = pool /\ m.data = seen
    BY <1>0 DEF Message
<1> HIDE DEF m
<1>3. /\ wire' \in Seq(Message) /\ buffered <= Len(wire')
      /\ \A i \in 1 .. Len(wire') : wire'[i].data <= store
    BY <1>0, <1>1, <1>2, AddMessage, SessionFields
<1>4. loop # "read" => wire' = <<>>
    BY <1>1 DEF SessionInv, Known, Reads
<1>5. SessionTyped'
    BY <1>0, <1>1, <1>3 DEF SessionInv, SessionTyped, vars
<1>6. Known'
    BY <1>0, <1>1, <1>3, <1>4 DEF SessionInv, Known, vars
<1>7. CASE Clean'
    <2>1. /\ Clean /\ Reads(wsClient) /\ wsClient' = wsClient /\ wsClient \in Conns
          /\ (Joined(wsClient) => hand[wsClient] = "done")
        BY <1>1, <1>7, SessionFields DEF Clean, Reads, vars
    <2>2. CASE Joined(wsClient)
        <3>1. pool \in Nat /\ (told \in Nat => told <= pool) /\ pool <= seen
            BY <1>1, <2>1, <2>2 DEF SessionInv, Ordered, Known
        <3>2. told \in Nat => told <= seen
            BY <1>0, <3>1
        <3>3. PatchesFit' /\ Ordered'
            BY <1>1, <1>2, <2>1, <2>2, <3>1, <3>2, SentFits
        <3> QED
            BY <1>1, <1>5, <1>6, <2>1, <2>2, <3>3 DEF SessionInv, Opening
    <2>3. CASE ~Joined(wsClient)
        <3>1. hand[wsClient] \in {"none", "join"} /\ wire' = wire /\ hand' = hand
            BY <1>1, <2>1, <2>3, BoundsAssumption DEF Joined, Conns, Nil
        <3> QED
            BY <1>1, <1>5, <1>6, <2>1, <3>1 DEF SessionInv, Opening, PatchesFit, Ordered
    <2> QED
        BY <2>2, <2>3
<1> QED
    BY <1>5, <1>6, <1>7, Unclean

\* A handler's step changes its own place, and the pool's cache while no worker
\* holds the mutex.
LEMMA HandlerParts ==
    ASSUME SessionInv, TypeOK', NEW n \in Conns, NEW pc \in {"get", "version", "set", "init", "done"},
           hand' = [hand EXCEPT ![n] = pc], UNCHANGED <<vars, store, events, locked, seen, cache, told>>,
           got' \in [Conns -> Datum], \A c \in Conns : got'[c] <= store,
           pool' \in Datum \cup {Nothing}, pool' \in Nat => pool' <= store,
           pool' = pool \/ ~locked,
           wire' = wire \/ (Reads(n) /\ \E m \in Message : m.data <= store /\ wire' = Append(wire, m)),
           clean' \in BOOLEAN, clean' => clean
    PROVE  /\ SessionTyped' /\ Known'
           /\ Clean' => /\ Clean /\ wsClient \in Conns /\ wsClient' = wsClient
                        /\ hand'[wsClient] = IF wsClient = n THEN pc ELSE hand[wsClient]
<1>0. /\ wire \in Seq(Message) /\ Len(wire) \in Nat /\ buffered \in Nat /\ buffered <= Len(wire)
      /\ hand \in [Conns -> {"none", "join", "get", "version", "set", "init", "done"}]
      /\ \A i \in 1 .. Len(wire) : wire[i].data <= store
    BY SessionFields
<1>1. /\ wire' \in Seq(Message) /\ buffered <= Len(wire')
      /\ \A i \in 1 .. Len(wire') : wire'[i].data <= store
      /\ loop # "read" => wire' = <<>>
    <2>1. CASE wire' = wire
        BY <1>0, <2>1 DEF SessionInv, Known
    <2>2. ASSUME Reads(n), NEW m \in Message, m.data <= store, wire' = Append(wire, m)
          PROVE  /\ wire' \in Seq(Message) /\ buffered <= Len(wire')
                 /\ \A i \in 1 .. Len(wire') : wire'[i].data <= store
                 /\ loop # "read" => wire' = <<>>
        BY <1>0, <2>2, AddMessage DEF Reads
    <2> QED
        BY <2>1, <2>2
<1>2. SessionTyped'
    BY <1>0, <1>1 DEF SessionInv, SessionTyped, vars
<1>3. Known'
    BY <1>1 DEF SessionInv, Known, vars
<1>4. ASSUME Clean' PROVE Clean /\ wsClient \in Conns /\ wsClient' = wsClient
    BY <1>4, SessionFields DEF Clean, Reads, vars
<1> QED
    BY <1>0, <1>2, <1>3, <1>4

LEMMA HandlerStepKeeps ==
    ASSUME SessionInv, TypeOK', NEW n \in Conns, HandlerStep(n)
    PROVE  SessionInv'
<1>0. /\ wire \in Seq(Message) /\ Len(wire) \in Nat /\ Datum \subseteq Nat /\ 0 \in Datum
      /\ store \in Datum /\ store \in Nat /\ 0 <= store /\ clean \in BOOLEAN
      /\ got \in [Conns -> Datum] /\ \A c \in Conns : got[c] \in Datum /\ got[c] <= store
      /\ pool \in Datum \cup {Nothing} /\ (pool \in Nat => pool <= store)
      /\ Nothing \notin Nat /\ (told \in Nat => told <= store)
    BY SessionFields DEF Datum, SessionInv, SessionTyped, Known
<1>1. CASE Join(n)
    <2>1. /\ hand' = [hand EXCEPT ![n] = "get"] /\ hand[n] = "join"
          /\ UNCHANGED <<vars, store, events, locked, seen, cache, told, got, pool, wire, clean>>
        BY <1>1 DEF Join, ownVars
    <2>2. /\ SessionTyped' /\ Known'
          /\ Clean' => /\ Clean /\ wsClient \in Conns /\ wsClient' = wsClient
                       /\ hand'[wsClient] = IF wsClient = n THEN "get" ELSE hand[wsClient]
        BY <1>0, <2>1, HandlerParts
    <2> QED
        BY <2>1, <2>2, Unclean DEF SessionInv, Opening, PatchesFit, Ordered, Held
<1>2. CASE Fetch(n)
    <2>1. /\ hand' = [hand EXCEPT ![n] = "version"] /\ hand[n] = "get"
          /\ got' = [got EXCEPT ![n] = store]
          /\ UNCHANGED <<vars, store, events, locked, seen, cache, told, pool, wire, clean>>
        BY <1>2 DEF Fetch, ownVars
    <2>2. /\ got' \in [Conns -> Datum]
          /\ \A c \in Conns : got'[c] = (IF c = n THEN store ELSE got[c]) /\ got'[c] <= store
        BY <1>0, <2>1
    <2>3. /\ SessionTyped' /\ Known'
          /\ Clean' => /\ Clean /\ wsClient \in Conns /\ wsClient' = wsClient
                       /\ hand'[wsClient] = IF wsClient = n THEN "version" ELSE hand[wsClient]
        BY <1>0, <2>1, <2>2, HandlerParts
    <2> QED
        BY <1>0, <2>1, <2>2, <2>3, Unclean DEF SessionInv, Opening, PatchesFit, Ordered, Held
<1>3. CASE Version(n)
    <2> DEFINE pc == IF pool = Nothing THEN "set" ELSE "init"
    <2>1. /\ hand' = [hand EXCEPT ![n] = pc] /\ hand[n] = "version" /\ pc \in {"set", "init"}
          /\ clean' = (clean /\ (n = wsClient => pool \in {Nothing, got[n]}))
          /\ UNCHANGED <<vars, store, events, locked, seen, cache, told, got, pool, wire>>
        BY <1>3 DEF Version, ownVars
    <2>2. /\ SessionTyped' /\ Known'
          /\ Clean' => /\ Clean /\ wsClient \in Conns /\ wsClient' = wsClient
                       /\ hand'[wsClient] = IF wsClient = n THEN pc ELSE hand[wsClient]
        BY <1>0, <2>1, HandlerParts
    <2> HIDE DEF pc
    <2>3. CASE Clean' /\ wsClient = n
        <3>1. pool \in {Nothing, got[n]} /\ pc \in {"set", "init"} /\ (pc = "init" => pool # Nothing)
            BY <2>1, <2>3 DEF Clean, pc
        <3> QED
            BY <2>1, <2>2, <2>3, <3>1 DEF SessionInv, Opening, PatchesFit, Ordered
    <2>4. CASE Clean' /\ wsClient # n
        BY <2>1, <2>2, <2>4 DEF SessionInv, Opening, PatchesFit, Ordered, Held
    <2> QED
        BY <2>2, <2>3, <2>4, Unclean
<1>4. CASE SetCache(n)
    <2>1. /\ hand' = [hand EXCEPT ![n] = "init"] /\ hand[n] = "set" /\ ~locked
          /\ pool' = got[n]
          /\ clean' = (clean /\ (Joined(wsClient) /\ n # wsClient => pool \in {Nothing, got[n]}))
          /\ UNCHANGED <<vars, store, events, locked, seen, cache, told, got, wire>>
        BY <1>4 DEF SetCache, ownVars
    <2>2. /\ SessionTyped' /\ Known'
          /\ Clean' => /\ Clean /\ wsClient \in Conns /\ wsClient' = wsClient
                       /\ hand'[wsClient] = IF wsClient = n THEN "init" ELSE hand[wsClient]
        BY <1>0, <2>1, HandlerParts
    <2>3. CASE Clean' /\ wsClient = n
        BY <2>1, <2>2, <2>3 DEF SessionInv, Opening, PatchesFit, Ordered
    <2>4. CASE Clean' /\ wsClient # n
        <3>1. hand[wsClient] \in {"init", "done"} => pool' = pool
            <4>1. ASSUME hand[wsClient] \in {"init", "done"} PROVE pool' = pool
                <5>1. Joined(wsClient) /\ clean'
                    BY <2>2, <2>4, <4>1, BoundsAssumption DEF Joined, Conns, Nil, Clean
                <5>2. pool \in {Nothing, got[n]}
                    BY <2>1, <2>4, <5>1
                <5>3. pool # Nothing
                    BY <1>0, <2>2, <2>4, <4>1 DEF SessionInv, Opening, Ordered
                <5> QED
                    BY <2>1, <5>2, <5>3
            <4> QED
                BY <4>1
        <3> QED
            BY <2>1, <2>2, <2>4, <3>1 DEF SessionInv, Opening, PatchesFit, Ordered, Held
    <2> QED
        BY <2>2, <2>3, <2>4, Unclean
<1>5. CASE Initial(n)
    <2> DEFINE m == [snapshot |-> TRUE, base |-> Nothing, data |-> got[n]]
    <2>1. /\ hand' = [hand EXCEPT ![n] = "done"] /\ hand[n] = "init"
          /\ got' = [got EXCEPT ![n] = 0]
          /\ wire' = IF Reads(n) THEN Append(wire, m) ELSE wire
          /\ UNCHANGED <<vars, store, events, locked, seen, cache, told, pool, clean>>
        BY <1>5 DEF Initial, Send
    <2>2. /\ got' \in [Conns -> Datum]
          /\ \A c \in Conns : got'[c] = (IF c = n THEN 0 ELSE got[c]) /\ got'[c] <= store
        BY <1>0, <2>1
    <2>3. m \in Message /\ m.snapshot /\ m.data = got[n] /\ m.data <= store
        BY <1>0 DEF Message
    <2> HIDE DEF m
    <2>4. /\ SessionTyped' /\ Known'
          /\ Clean' => /\ Clean /\ wsClient \in Conns /\ wsClient' = wsClient
                       /\ hand'[wsClient] = IF wsClient = n THEN "done" ELSE hand[wsClient]
        BY <1>0, <2>1, <2>2, <2>3, HandlerParts
    <2>5. CASE Clean' /\ wsClient = n
        <3>1. /\ wire' = Append(wire, m) /\ pool' = m.data
              /\ told \in Nat => told <= m.data
            BY <2>1, <2>3, <2>4, <2>5 DEF SessionInv, Opening, Clean
        <3>2. PatchesFit' /\ Ordered'
            BY <2>1, <2>3, <2>4, <2>5, <3>1, SentFits
        <3> QED
            BY <2>4, <2>5, <3>2 DEF SessionInv, Opening
    <2>6. CASE Clean' /\ wsClient # n
        <3>1. wire' = wire
            BY <2>1, <2>6 DEF Reads
        <3> QED
            BY <2>1, <2>2, <2>4, <2>6, <3>1 DEF SessionInv, Opening, PatchesFit, Ordered, Held
    <2> QED
        BY <2>4, <2>5, <2>6, Unclean
<1> QED
    BY <1>1, <1>2, <1>3, <1>4, <1>5 DEF HandlerStep

\* The first message that waits, read on a clean connection.
LEMMA FirstFits ==
    ASSUME SessionInv, Clean, Len(wire) > 0
    PROVE  /\ hand[wsClient] = "done" /\ Patched(wire[1]) = wire[1].data /\ wire[1].data \in Nat
           /\ told \in Nat => told <= wire[1].data
<1>1. Len(wire) \in Nat /\ 1 \in 1 .. Len(wire) /\ wire[1].data \in Nat
    BY SessionFields DEF Message
<1>2. hand[wsClient] = "done"
    BY <1>1 DEF SessionInv, Opening
<1>3. wire[1].snapshot \/ wire[1].base = cache
    BY <1>1, <1>2 DEF SessionInv, PatchesFit, Held
<1> QED
    BY <1>1, <1>2, <1>3 DEF SessionInv, Ordered, Patched

LEMMA CallbackKeeps ==
    ASSUME SessionInv, TypeOK', Callback
    PROVE  SessionInv'
<1> DEFINE m == Head(wire)
<1>0. /\ wire \in Seq(Message) /\ Len(wire) \in Nat /\ buffered \in Nat /\ buffered <= Len(wire)
      /\ \A i \in 1 .. Len(wire) : wire[i].data <= store
    BY SessionFields
<1>1. /\ buffered' = buffered - 1 /\ wire' = Tail(wire) /\ buffered > 0
      /\ UNCHANGED <<serverVars, clean, loop, wsClient, open, up>>
      /\ cache' = Patched(m) /\ told' = Patched(m) /\ loop = "read"
    BY DEF Callback, ReadMessage
<1>2. /\ m \in Message /\ m = wire[1] /\ m.data <= store /\ wire' \in Seq(Message)
      /\ Len(wire') = Len(wire) - 1 /\ \A i \in 1 .. Len(wire') : wire'[i] = wire[i + 1]
    BY <1>0, <1>1, DropMessage
<1>3. /\ Patched(m) \in Datum \cup {Nothing, Garbage}
      /\ Patched(m) \in Nat => Patched(m) <= store
    BY <1>2, PatchedKnown
<1> HIDE DEF m
<1>4. SessionTyped'
    BY <1>0, <1>1, <1>2, <1>3 DEF SessionInv, SessionTyped, serverVars
<1>5. Known'
    BY <1>0, <1>1, <1>2, <1>3 DEF SessionInv, Known, serverVars
<1>6. CASE Clean'
    <2>1. Clean
        BY <1>1, <1>6 DEF Clean, Reads
    <2>2. hand[wsClient] = "done" /\ Patched(m) = m.data
        BY <1>0, <1>1, <1>2, <2>1, FirstFits
    <2>3. \A i \in 0 .. Len(wire') : Held(i)' = Held(i + 1)
        BY <1>0, <1>1, <1>2, <2>2 DEF Held
    <2>4. PatchesFit'
        <3>1. Held(Len(wire))' = pool'
            BY <1>0, <1>1, <1>2, <2>1, <2>2, <2>3 DEF SessionInv, PatchesFit, serverVars
        <3>2. ASSUME NEW i \in 1 .. Len(wire')
              PROVE  wire'[i].snapshot \/ wire'[i].base = Held(i - 1)'
            <4>1. /\ i - 1 \in 0 .. Len(wire') /\ i + 1 \in 1 .. Len(wire) /\ (i - 1) + 1 = i
                  /\ (i + 1) - 1 = i /\ wire'[i] = wire[i + 1]
                BY <1>0, <1>2
            <4>2. wire[i + 1].snapshot \/ wire[i + 1].base = Held((i + 1) - 1)
                BY <2>1, <2>2, <4>1 DEF SessionInv, PatchesFit
            <4> QED
                BY <2>3, <4>1, <4>2
        <3> QED
            BY <3>1, <3>2 DEF PatchesFit
    <2>5. Ordered'
        <3>1. /\ pool \in Nat /\ \A i \in 1 .. Len(wire) :
                    wire[i].data <= pool /\ \A j \in i .. Len(wire) : wire[i].data <= wire[j].data
            BY <2>1, <2>2 DEF SessionInv, Ordered
        <3>2. \A i \in 1 .. Len(wire') :
                 /\ i + 1 \in 1 .. Len(wire) /\ i + 1 \in 1 .. Len(wire)
                 /\ \A j \in i .. Len(wire') : j + 1 \in (i + 1) .. Len(wire) /\ j \in 1 .. Len(wire')
            BY <1>0, <1>2
        <3>3. told' = wire[1].data /\ pool' = pool /\ 1 \in 1 .. Len(wire)
            BY <1>0, <1>1, <1>2, <2>2 DEF serverVars
        <3> QED
            BY <1>0, <1>2, <3>1, <3>2, <3>3 DEF Ordered
    <2> QED
        BY <1>1, <1>4, <1>5, <2>2, <2>4, <2>5 DEF SessionInv, Opening, serverVars
<1> QED
    BY <1>4, <1>5, <1>6, Unclean

-----------------------------------------------------------------------------
LEMMA SessionInitInv == SessionInit /\ TypeOK => SessionInv
<1> SUFFICES ASSUME SessionInit, TypeOK PROVE SessionInv
    OBVIOUS
<1>1. 0 \in Datum /\ <<>> \in Seq(Message) /\ Len(<<>>) = 0
    BY SessionAssumption DEF Datum
<1>2. loop = "lock" /\ buffered = 0
    BY DEF SessionInit, Init
<1>3. SessionTyped
    <2>1. /\ hand \in [Conns -> {"none", "join", "get", "version", "set", "init", "done"}]
          /\ got \in [Conns -> Datum]
        BY <1>1 DEF SessionInit
    <2>2. wire \in Seq(Message) /\ buffered <= Len(wire)
        BY <1>1, <1>2 DEF SessionInit
    <2>3. /\ store \in Datum /\ events \in Datum /\ seen \in Datum /\ pool = Nothing
          /\ locked \in BOOLEAN /\ clean \in BOOLEAN /\ cache = Nothing /\ told = Nothing
        BY <1>1 DEF SessionInit
    <2> QED
        BY <2>1, <2>2, <2>3 DEF SessionTyped
<1>4. Known
    BY <1>1, SessionAssumption DEF SessionInit, Known
<1> QED
    BY <1>2, <1>3, <1>4 DEF SessionInit, SessionInv, Opening, PatchesFit, Ordered, Clean, Reads

LEMMA SessionInductive == SessionSpec => []SessionInv
<1>1. SessionInv /\ TypeOK' /\ [SessionNext]_sessionVars => SessionInv'
    <2> SUFFICES ASSUME SessionInv, TypeOK', [SessionNext]_sessionVars PROVE SessionInv'
        OBVIOUS
    <2>1. CASE UNCHANGED sessionVars
        <3>1. UNCHANGED <<serverVars, ownVars, clean, loop, wsClient, open, up, buffered>>
            BY <2>1 DEF sessionVars, vars
        <3> QED
            BY <3>1, SessionFields, OwnFrame DEF SessionInv, Known, Reads
    <2>2. ASSUME NEW n \in Conns, HandlerStep(n) PROVE SessionInv'
        BY <2>2, HandlerStepKeeps
    <2>3. CASE WorkerStep
        BY <2>3, CollectKeeps, TellKeeps DEF WorkerStep
    <2>4. CASE Loop
        BY <2>4, CallbackKeeps, RejectKeeps, ConnectKeeps, EndKeeps, RetryKeeps DEF Loop
    <2>5. CASE Write \/ Deliver \/ Ask \/ Closing \/ Stop \/ \E n \in 1 .. dials : Lose(n)
        BY <2>5, WriteKeeps, EndKeeps, RetryKeeps
    <2> QED
        BY <2>1, <2>2, <2>3, <2>4, <2>5 DEF SessionNext, Server
<1>2. IndInv => TypeOK
    BY DEF IndInv
<1> QED
    BY <1>1, <1>2, SessionInitInv, SessionUsesSubscribe, Inductive, PTL DEF SessionSpec

\* The server, the messages on the way and what the client holds keep their
\* types; no more is received than was sent (client/subscribe.go, stream.go).
THEOREM SessionAlwaysTyped == SessionSpec => []SessionTyped
<1>1. SessionInv => SessionTyped
    BY DEF SessionInv
<1> QED
    BY <1>1, SessionInductive, PTL

\* Over any number of connections, writes, workers and other clients, the cache
\* that outlives a connection never meets a patch that was made from other data,
\* as long as the connection hits none of the windows (subscribe.go:38).
THEOREM PatchesAlwaysFit == SessionSpec => []PatchesFit
<1>1. SessionInv => PatchesFit
    BY DEF SessionInv
<1> QED
    BY <1>1, SessionInductive, PTL

\* What the callback is told on clean connections never gets older, within one
\* and from one to the next (subscribe.go:95-134).
THEOREM ToldNeverGoesBack == SessionSpec => NeverGoesBack
<1>1. SessionInv /\ [SessionNext]_sessionVars =>
         [told' # told /\ Clean => told' \in Nat /\ (told \in Nat => told' >= told)]_sessionVars
    <2> SUFFICES ASSUME SessionInv, SessionNext, told' # told, Clean
                 PROVE  told' \in Nat /\ (told \in Nat => told' >= told)
        OBVIOUS
    <2>1. Callback
        BY DEF SessionNext, Server, Loop, Write, WorkerStep, Collect, Tell, HandlerStep, Join, Fetch,
           Version, SetCache, Initial, Deliver, Reject, Connect, Disconnect, Retry, Ask, Closing,
           Lose, Stop, sessionVars, ownVars
    <2>2. /\ wire \in Seq(Message) /\ Len(wire) \in Nat /\ Len(wire) > 0
          /\ told' = Patched(Head(wire))
        BY <2>1, SessionFields DEF Callback, ReadMessage
    <2>3. Head(wire) = wire[1]
        BY <2>2, DropMessage
    <2> QED
        BY <2>2, <2>3, FirstFits
<1> QED
    BY <1>1, SessionInductive, PTL DEF SessionSpec, NeverGoesBack

-----------------------------------------------------------------------------
(***************************************************************************)
(* Nothing is swallowed on the way to the callback.                        *)
(***************************************************************************)
\* A step that leaves the server, and the messages unless the connection ends.
LEMMA FedFrame ==
    ASSUME SessionInv, Fed, UNCHANGED serverVars,
           Clean' => /\ Clean /\ wsClient' = wsClient
                     /\ UNCHANGED <<wire, cache, told>>
    PROVE  Fed'
<1>1. /\ store' = store /\ events' = events /\ locked' = locked /\ seen' = seen
      /\ pool' = pool /\ hand' = hand /\ got' = got
    BY DEF serverVars
<1> QED
    BY <1>1 DEF Fed

\* Of the loop only a callback and a new connection change more than that.
LEMMA FedClient ==
    ASSUME SessionInv, Fed,
           \/ Retry \/ Deliver \/ Ask \/ Closing \/ Stop \/ Disconnect \/ Reject
           \/ \E n \in 1 .. dials : Lose(n)
           \/ UNCHANGED sessionVars
    PROVE  Fed'
<1>1. CASE Retry
    <2>1. loop # "read" /\ loop' # "read" /\ UNCHANGED serverVars
        BY <1>1 DEF Retry, Lock, DialFails, Bye, Wake
    <2> QED
        BY <2>1, FedFrame DEF Clean, Reads
<1>2. CASE Disconnect \/ Reject
    <2>1. loop' # "read" /\ UNCHANGED serverVars
        BY <1>2 DEF Disconnect, ReadFails, Reject, ParseFails
    <2> QED
        BY <2>1, FedFrame DEF Clean, Reads
<1>3. CASE Deliver \/ Ask \/ Closing
    <2>1. /\ UNCHANGED <<serverVars, ownVars, clean, loop, wsClient, up>> /\ open' \subseteq open
        BY <1>3 DEF Deliver, Arrive, Ask, Closing, Cancel, CloserStep, Notice, CloseConnection, netVars
    <2> QED
        BY <2>1, FedFrame DEF Clean, Reads, ownVars
<1>4. ASSUME NEW n \in 1 .. dials, Lose(n) PROVE Fed'
    <2>1. /\ UNCHANGED <<serverVars, cache, told, clean, loop, wsClient, open>> /\ up' = up \ {n}
          /\ wire' = IF Reads(n) THEN SubSeq(wire, 1, buffered) ELSE wire
        BY <1>4 DEF Lose, Break
    <2>2. Clean' => Clean /\ ~Reads(n)
        BY <2>1 DEF Clean, Reads
    <2> QED
        BY <2>1, <2>2, FedFrame
<1>5. CASE Stop \/ UNCHANGED sessionVars
    <2>1. UNCHANGED <<serverVars, ownVars, clean, loop, wsClient, open, up>>
        BY <1>5 DEF Stop, sessionVars, vars
    <2> QED
        BY <2>1, FedFrame DEF Clean, Reads, ownVars
<1> QED
    BY <1>1, <1>2, <1>3, <1>4, <1>5

LEMMA FedLoop ==
    ASSUME SessionInv, Fed, Loop
    PROVE  Fed'
<1>1. CASE Callback
    <2>1. /\ UNCHANGED <<serverVars, clean, loop, wsClient, open, up>> /\ told' = cache'
        BY <1>1 DEF Callback, ReadMessage
    <2>2. Clean' => Clean /\ wsClient' = wsClient
        BY <2>1 DEF Clean, Reads
    <2> QED
        BY <2>1, <2>2 DEF Fed, serverVars
<1>2. CASE Connect
    <2>1. /\ UNCHANGED <<store, events, locked, seen>> /\ wsClient' = dials + 1
          /\ hand' = [hand EXCEPT ![dials + 1] = "join"] /\ dials < MaxDials
        BY <1>2 DEF Connect, Dial
    <2>2. dials + 1 \in Conns
        BY <2>1, BoundsAssumption DEF SessionInv, SessionTyped, TypeOK, Conns
    <2>3. hand'[wsClient'] = "join"
        BY <2>1, <2>2, SessionFields
    <2> QED
        BY <2>1, <2>3 DEF Fed
<1>3. CASE Reject \/ Disconnect \/ Retry
    BY <1>3, FedClient
<1> QED
    BY <1>1, <1>2, <1>3 DEF Loop

LEMMA FedWorker ==
    ASSUME SessionInv, Fed, Write \/ WorkerStep
    PROVE  Fed'
<1>0. store \in Nat /\ events \in Nat /\ wire \in Seq(Message) /\ Len(wire) \in Nat
      /\ pool \in Datum \cup {Nothing} /\ seen \in Datum /\ 0 \notin 1 .. Len(wire)
    BY SessionFields
<1>1. CASE Write
    <2>1. /\ events' = events + 1 /\ events' # 0 /\ events' > 0
          /\ UNCHANGED <<vars, locked, seen, ownVars, clean, hand>>
        BY <1>0, <1>1 DEF Write
    <2> QED
        BY <2>1 DEF Fed, Clean, Reads, vars, ownVars
<1>2. CASE Collect
    <2>1. /\ locked' = TRUE /\ seen' = store' /\ UNCHANGED <<vars, ownVars, clean, hand>>
        BY <1>2 DEF Collect
    <2> QED
        BY <2>1 DEF Fed, Clean, Reads, vars, ownVars
<1>3. ASSUME NEW snapshot \in BOOLEAN, Tell(snapshot) PROVE Fed'
    <2> DEFINE m == [snapshot |-> snapshot, base |-> pool, data |-> seen]
    <2>1. /\ locked /\ locked' = FALSE /\ pool' = seen
          /\ wire' = IF Joined(wsClient) /\ Reads(wsClient) THEN Append(wire, m) ELSE wire
          /\ clean' = (clean /\ (Joined(wsClient) => hand[wsClient] = "done"))
          /\ UNCHANGED <<vars, store, events, hand, got, cache, told>>
        BY <1>3 DEF Tell
    <2>2. m \in Message
        BY <1>0, <1>3 DEF Message
    <2> HIDE DEF m
    <2>3. seen = store \/ events > 0
        BY <2>1 DEF Fed
    <2>4. ASSUME Clean', hand[wsClient] \in {"version", "set", "init", "done"}
          PROVE  hand[wsClient] = "done" /\ wire' # <<>>
        <3>1. Clean /\ Reads(wsClient) /\ wsClient \in Conns
            BY <2>1, <2>4, SessionFields DEF Clean, Reads, vars
        <3>2. Joined(wsClient)
            BY <2>4, <3>1, BoundsAssumption DEF Joined, Conns, Nil
        <3>3. Len(wire') = Len(wire) + 1
            BY <1>0, <2>1, <2>2, <3>1, <3>2, AddMessage
        <3>4. wire' # <<>>
            BY <1>0, <3>3
        <3> QED
            BY <2>1, <2>4, <3>2, <3>4 DEF Clean
    <2> QED
        BY <1>0, <2>1, <2>3, <2>4 DEF Fed, vars
<1> QED
    BY <1>1, <1>2, <1>3 DEF WorkerStep

LEMMA FedHandler ==
    ASSUME SessionInv, Fed, NEW n \in Conns, HandlerStep(n)
    PROVE  Fed'
<1>0. /\ hand \in [Conns -> {"none", "join", "get", "version", "set", "init", "done"}]
      /\ got \in [Conns -> Datum] /\ wire \in Seq(Message) /\ Len(wire) \in Nat
      /\ Nothing \notin Nat /\ Datum \subseteq Nat /\ pool \in Datum \cup {Nothing}
    BY SessionFields
<1>1. /\ UNCHANGED <<vars, store, events, locked, seen, cache, told>>
      /\ \A c \in Conns \ {n} : hand'[c] = hand[c] /\ got'[c] = got[c]
      /\ clean' => clean
    <2>1. UNCHANGED <<vars, store, events, locked, seen, cache, told>>
        BY DEF HandlerStep, Join, Fetch, Version, SetCache, Initial, ownVars
    <2>3. clean' => clean
        BY DEF HandlerStep, Join, Fetch, Version, SetCache, Initial, ownVars
    <2>2. /\ \/ hand' = [hand EXCEPT ![n] = "get"] \/ hand' = [hand EXCEPT ![n] = "version"]
             \/ hand' = [hand EXCEPT ![n] = "set"] \/ hand' = [hand EXCEPT ![n] = "init"]
             \/ hand' = [hand EXCEPT ![n] = "done"]
          /\ got' = got \/ got' = [got EXCEPT ![n] = store] \/ got' = [got EXCEPT ![n] = 0]
        BY DEF HandlerStep, Join, Fetch, Version, SetCache, Initial, ownVars
    <2> QED
        BY <1>0, <2>1, <2>2, <2>3
<1>2. Clean' => Clean /\ wsClient \in Conns /\ wsClient' = wsClient
    BY <1>1, SessionFields DEF Clean, Reads, vars
<1>3. CASE Join(n)
    <2>1. hand'[n] = "get" /\ UNCHANGED <<pool, got, wire>>
        BY <1>0, <1>3 DEF Join, ownVars
    <2> QED
        BY <1>1, <1>2, <2>1 DEF Fed
<1>4. CASE Fetch(n)
    <2>1. hand'[n] = "version" /\ got'[n] = store /\ UNCHANGED <<pool, wire>>
        BY <1>0, <1>4 DEF Fetch, ownVars
    <2> QED
        BY <1>1, <1>2, <2>1 DEF Fed
<1>5. CASE Version(n)
    <2>1. /\ hand[n] = "version" /\ UNCHANGED <<pool, got, wire>>
          /\ hand'[n] = IF pool = Nothing THEN "set" ELSE "init"
          /\ clean' /\ n = wsClient => pool \in {Nothing, got[n]}
        BY <1>0, <1>5 DEF Version, ownVars
    <2>2. CASE n = wsClient
        BY <1>1, <1>2, <2>1, <2>2 DEF Fed, Clean
    <2>3. CASE n # wsClient
        BY <1>1, <1>2, <2>1, <2>3 DEF Fed
    <2> QED
        BY <2>2, <2>3
<1>6. CASE SetCache(n)
    <2>1. /\ hand[n] = "set" /\ pool' = got[n] /\ UNCHANGED <<got, wire>> /\ hand'[n] = "init"
          /\ clean' /\ Joined(wsClient) /\ n # wsClient => pool \in {Nothing, got[n]}
        BY <1>0, <1>6 DEF SetCache, ownVars
    <2>2. CASE n = wsClient
        BY <1>1, <1>2, <2>1, <2>2 DEF Fed
    <2>3. CASE n # wsClient
        <3>1. ASSUME Clean', hand[wsClient] \in {"init", "done"}
              PROVE  pool' = pool
            <4>1. Joined(wsClient) /\ clean'
                BY <1>2, <3>1, BoundsAssumption DEF Joined, Conns, Nil, Clean
            <4>2. pool # Nothing
                BY <1>0, <1>2, <3>1 DEF SessionInv, Opening, Ordered
            <4> QED
                BY <2>1, <2>3, <4>1, <4>2
        <3> QED
            BY <1>1, <1>2, <2>1, <2>3, <3>1 DEF Fed
    <2> QED
        BY <2>2, <2>3
<1>7. CASE Initial(n)
    <2> DEFINE m == [snapshot |-> TRUE, base |-> Nothing, data |-> got[n]]
    <2>1. /\ hand[n] = "init" /\ hand'[n] = "done" /\ UNCHANGED pool
          /\ wire' = IF Reads(n) THEN Append(wire, m) ELSE wire
        BY <1>0, <1>7 DEF Initial, Send
    <2>2. m \in Message
        BY <1>0 DEF Message
    <2> HIDE DEF m
    <2>3. CASE n = wsClient
        <3>1. ASSUME Clean' PROVE wire' # <<>>
            <4>1. Reads(n)
                BY <1>2, <2>3, <3>1 DEF Clean
            <4>2. Len(wire') = Len(wire) + 1
                BY <1>0, <2>1, <2>2, <4>1, AddMessage
            <4> QED
                BY <1>0, <4>2
        <3> QED
            BY <1>1, <1>2, <2>1, <2>3, <3>1 DEF Fed
    <2>4. CASE n # wsClient
        <3>1. wire' = wire
            BY <2>1, <2>4 DEF Reads
        <3> QED
            BY <1>1, <1>2, <2>1, <2>4, <3>1 DEF Fed
    <2> QED
        BY <2>3, <2>4
<1> QED
    BY <1>3, <1>4, <1>5, <1>6, <1>7 DEF HandlerStep

LEMMA FedInductive == SessionSpec => []Fed
<1>1. SessionInit => Fed
    BY DEF SessionInit, Init, Fed, Clean, Reads
<1>2. SessionInv /\ Fed /\ [SessionNext]_sessionVars => Fed'
    BY FedClient, FedLoop, FedWorker, FedHandler DEF SessionNext, Server
<1> QED
    BY <1>1, <1>2, SessionInductive, PTL DEF SessionSpec

\* From a write to the callback nothing is swallowed: over any number of writes,
\* connections and other clients, a clean client that has read all it was sent
\* has told its callback what the path holds, unless a broadcast is still to
\* come.  It is what CatchesUp needs beside fairness (katamari.go watch,
\* stream.go, ws.go, subscribe.go).
THEOREM NothingSwallowed == SessionSpec => []CaughtUp
<1>1. SessionInv /\ Fed => CaughtUp
    <2> SUFFICES ASSUME SessionInv, Fed, Clean, hand[wsClient] = "done", events = 0, ~locked,
                        wire = <<>>
                 PROVE  told = store
        BY DEF CaughtUp
    <2>1. cache = pool
        BY DEF SessionInv, PatchesFit, Held
    <2> QED
        BY <2>1 DEF Fed
<1> QED
    BY <1>1, SessionInductive, FedInductive, PTL

=============================================================================
