----------------------- MODULE SubscribeMultipleProofs -----------------------
(***************************************************************************)
(* Theorems about SubscribeMultiple, for any number of paths, any capacity *)
(* of the channels and any number of messages.                             *)
(***************************************************************************)
EXTENDS SubscribeMultiple, TLAPS

LEMMA InitEstablishes == Init => IndInv
<1> SUFFICES ASSUME Init PROVE IndInv
    OBVIOUS
<1>0. <<>> \in Seq(Nat) /\ Len(<<>>) = 0
    OBVIOUS
<1>1. TypeOK
    <2>1. read \in [Paths -> 0 .. MaxMessages] /\ state \in [Paths -> Nat]
        BY BoundsAssumption DEF Init
    <2>2. chan \in [Paths -> Seq(Nat)] /\ \A p \in Paths : Len(chan[p]) <= Buffer
        BY <1>0, BoundsAssumption DEF Init
    <2> QED
        BY <2>1, <2>2 DEF Init, TypeOK
<1>2. InOrder /\ NoneLost
    BY DEF Init, InOrder, NoneLost, Rising, Gapless, Handed
<1> QED
    BY <1>1, <1>2 DEF IndInv

-----------------------------------------------------------------------------
\* What the two operations of a channel do to the messages in it.
LEMMA AppendKeeps ==
    ASSUME NEW s \in Seq(Nat), NEW n \in Nat, NEW m \in Nat
    PROVE  /\ Append(s, m + 1) \in Seq(Nat) /\ Len(Append(s, m + 1)) = Len(s) + 1
           /\ Rising(n, s, m) => Rising(n, Append(s, m + 1), m + 1)
           /\ Gapless(n, s, m) => Gapless(n, Append(s, m + 1), m + 1)
<1> DEFINE t == Append(s, m + 1)
<1>1. /\ t \in Seq(Nat) /\ Len(s) \in Nat /\ Len(t) = Len(s) + 1
      /\ \A i \in 1 .. Len(s) : t[i] = s[i] /\ s[i] \in Nat
      /\ t[Len(s) + 1] = m + 1
    OBVIOUS
<1> HIDE DEF t
<1>2. ASSUME Rising(n, s, m) PROVE Rising(n, t, m + 1)
    <2>1. \A i \in 1 .. Len(t) : (i \in 1 .. Len(s) /\ t[i] = s[i]) \/ (i = Len(s) + 1 /\ t[i] = m + 1)
        BY <1>1
    <2>a. n <= m /\ \A i \in 1 .. Len(s) : n < s[i] /\ s[i] <= m
        BY <1>2 DEF Rising
    <2>b. n <= m + 1 /\ n < m + 1
        BY <2>a
    <2>2. ASSUME NEW i \in 1 .. Len(t) PROVE n < t[i] /\ t[i] <= m + 1
        <3>1. CASE i \in 1 .. Len(s)
            <4>1. t[i] \in Nat /\ n < t[i] /\ t[i] <= m
                BY <1>1, <2>a, <3>1
            <4> QED
                BY <4>1
        <3>2. CASE i = Len(s) + 1
            BY <1>1, <2>b, <3>2
        <3> QED
            BY <2>1, <3>1, <3>2
    <2>3. ASSUME NEW i \in 1 .. Len(t), NEW j \in 1 .. Len(t), i < j PROVE t[i] < t[j]
        <3>1. i \in 1 .. Len(s) /\ t[i] = s[i] /\ s[i] \in Nat /\ s[i] <= m
            BY <1>1, <1>2, <2>3 DEF Rising
        <3>2. CASE j \in 1 .. Len(s)
            BY <1>1, <1>2, <2>3, <3>1, <3>2 DEF Rising
        <3>3. CASE j = Len(s) + 1
            BY <1>1, <3>1, <3>3
        <3> QED
            BY <1>1, <3>2, <3>3
    <2> QED
        BY <2>b, <2>2, <2>3 DEF Rising
<1>3. ASSUME Gapless(n, s, m) PROVE Gapless(n, t, m + 1)
    <2>1. m = n + Len(s) /\ \A i \in 1 .. Len(s) : s[i] = n + i
        BY <1>3 DEF Gapless
    <2>2. m + 1 = n + Len(t) /\ m + 1 = n + (Len(s) + 1)
        BY <1>1, <2>1
    <2>3. ASSUME NEW i \in 1 .. Len(t) PROVE t[i] = n + i
        <3>1. i \in 1 .. Len(s) \/ i = Len(s) + 1
            BY <1>1
        <3> QED
            BY <1>1, <2>1, <2>2, <3>1
    <2> QED
        BY <2>2, <2>3 DEF Gapless
<1> QED
    BY <1>1, <1>2, <1>3 DEF t

LEMMA TailKeeps ==
    ASSUME NEW s \in Seq(Nat), s # <<>>, NEW n \in Nat, NEW m \in Nat
    PROVE  /\ Tail(s) \in Seq(Nat) /\ Len(Tail(s)) <= Len(s) /\ Head(s) \in Nat
           /\ Rising(n, s, m) => n < Head(s) /\ Rising(Head(s), Tail(s), m)
           /\ Gapless(n, s, m) => Head(s) = n + 1 /\ Gapless(Head(s), Tail(s), m)
<1> DEFINE t == Tail(s)  h == Head(s)
<1>1. /\ t \in Seq(Nat) /\ Len(s) \in Nat \ {0} /\ Len(t) = Len(s) - 1
      /\ \A i \in 1 .. Len(s) : s[i] \in Nat
      /\ \A i \in 1 .. Len(t) : t[i] = s[i + 1]
      /\ h = s[1] /\ h \in Nat
    OBVIOUS
<1> HIDE DEF t, h
<1>2. 1 \in 1 .. Len(s) /\ \A i \in 1 .. Len(t) : i + 1 \in 1 .. Len(s) /\ 1 < i + 1
    BY <1>1
<1>3. ASSUME Rising(n, s, m) PROVE n < h /\ Rising(h, t, m)
    <2>1. n < h /\ h <= m
        BY <1>1, <1>2, <1>3 DEF Rising
    <2>2. ASSUME NEW i \in 1 .. Len(t) PROVE h < t[i] /\ t[i] <= m
        BY <1>1, <1>2, <1>3 DEF Rising
    <2>3. ASSUME NEW i \in 1 .. Len(t), NEW j \in 1 .. Len(t), i < j PROVE t[i] < t[j]
        <3>1. i + 1 \in 1 .. Len(s) /\ j + 1 \in 1 .. Len(s) /\ i + 1 < j + 1
            BY <1>1, <2>3
        <3> QED
            BY <1>1, <1>3, <3>1 DEF Rising
    <2> QED
        BY <2>1, <2>2, <2>3 DEF Rising
<1>4. ASSUME Gapless(n, s, m) PROVE h = n + 1 /\ Gapless(h, t, m)
    <2>1. m = n + Len(s) /\ h = n + 1
        BY <1>1, <1>2, <1>4 DEF Gapless
    <2>2. m = h + Len(t)
        BY <1>1, <2>1
    <2>3. ASSUME NEW i \in 1 .. Len(t) PROVE t[i] = h + i
        <3>1. t[i] = n + (i + 1)
            BY <1>1, <1>2, <1>4 DEF Gapless
        <3> QED
            BY <2>1, <3>1
    <2> QED
        BY <2>1, <2>2, <2>3 DEF Gapless
<1> QED
    BY <1>1, <1>3, <1>4 DEF t, h

\* A message that is dropped leaves a gap, and no disorder.
LEMMA DropKeeps ==
    ASSUME NEW s \in Seq(Nat), NEW n \in Nat, NEW m \in Nat, Rising(n, s, m)
    PROVE  Rising(n, s, m + 1)
BY DEF Rising

-----------------------------------------------------------------------------
\* A step that touches one path keeps the invariant if it keeps it there.
LEMMA OnePath ==
    ASSUME IndInv, TypeOK', NEW p \in Paths,
           Rising(state'[p], chan'[p], Handed(p)'),
           ~cancelled' => ~cancelled /\ Gapless(state'[p], chan'[p], Handed(p)'),
           \A q \in Paths \ {p} : /\ read'[q] = read[q] /\ reader'[q] = reader[q]
                                  /\ chan'[q] = chan[q] /\ state'[q] = state[q]
    PROVE  IndInv'
<1>1. \A q \in Paths \ {p} : Handed(q)' = Handed(q)
    BY DEF Handed
<1>2. InOrder'
    BY <1>1 DEF IndInv, InOrder
<1>3. NoneLost'
    BY <1>1 DEF IndInv, NoneLost
<1> QED
    BY <1>2, <1>3 DEF IndInv

\* A step that touches no channel, no reader and no state.
LEMMA NoPath ==
    ASSUME IndInv, TypeOK', ~cancelled' => ~cancelled, UNCHANGED <<read, reader, chan, state>>
    PROVE  IndInv'
<1>1. \A q \in Paths : Handed(q)' = Handed(q)
    BY DEF Handed
<1> QED
    BY <1>1 DEF IndInv, InOrder, NoneLost

\* One step per action; a channel changes only where a message is sent or
\* received.
LEMMA NextPreserves == IndInv /\ [Next]_vars => IndInv'
<1> SUFFICES ASSUME IndInv, [Next]_vars PROVE IndInv'
    OBVIOUS
<1> USE BoundsAssumption
<1>t. /\ TypeOK
      /\ \A p \in Paths : /\ Rising(state[p], chan[p], Handed(p))
                          /\ ~cancelled => Gapless(state[p], chan[p], Handed(p))
                          /\ chan[p] \in Seq(Nat)
                          /\ read[p] \in Nat /\ state[p] \in Nat
    BY DEF IndInv, TypeOK, InOrder, NoneLost
<1>1. CASE Cancel
    <2>1. TypeOK'
        BY <1>1, <1>t DEF Cancel, TypeOK
    <2> QED
        BY <1>1, <2>1, NoPath DEF Cancel
<1>2. ASSUME NEW p \in Paths, Read(p) PROVE IndInv'
    <2>1. TypeOK'
        BY <1>2, <1>t DEF Read, TypeOK
    <2>2. read'[p] = read[p] + 1 /\ reader'[p] = "sending" /\ reader[p] = "reading"
        BY <1>2, <1>t DEF Read, TypeOK
    <2>3. Handed(p)' = Handed(p)
        BY <1>t, <2>2 DEF Handed
    <2>4. chan' = chan /\ state' = state /\ cancelled' = cancelled
        BY <1>2 DEF Read
    <2>5. \A q \in Paths \ {p} : read'[q] = read[q] /\ reader'[q] = reader[q]
        BY <1>2, <1>t DEF Read, TypeOK
    <2> QED
        BY <1>t, <2>1, <2>3, <2>4, <2>5, OnePath
<1>3. ASSUME NEW p \in Paths, Send(p) PROVE IndInv'
    <2> DEFINE s == chan[p]  m == Handed(p)
    <2>1. /\ chan' = [chan EXCEPT ![p] = Append(s, read[p])]
          /\ Len(s) < Buffer /\ reader[p] = "sending" /\ reader'[p] = "reading"
          /\ state' = state /\ read' = read /\ cancelled' = cancelled
        BY <1>3, <1>t DEF Send, TypeOK
    <2>2. /\ s \in Seq(Nat) /\ Len(s) \in Nat
          /\ \A q \in Paths \ {p} : reader'[q] = reader[q] /\ chan'[q] = chan[q]
        BY <1>3, <1>t DEF Send, TypeOK
    <2>3. m \in Nat /\ read[p] = m + 1 /\ Handed(p)' = m + 1
        BY <1>t, <2>1 DEF Handed, Rising
    <2>4. chan'[p] = Append(s, m + 1)
        BY <1>t, <2>1, <2>3 DEF TypeOK
    <2>5. /\ chan'[p] \in Seq(Nat) /\ Len(chan'[p]) <= Buffer
          /\ Rising(state[p], chan'[p], m + 1)
          /\ ~cancelled => Gapless(state[p], chan'[p], m + 1)
        BY <1>t, <2>1, <2>2, <2>3, <2>4, AppendKeeps
    <2>6. TypeOK'
        BY <1>3, <1>t, <2>2, <2>5 DEF Send, TypeOK
    <2> QED
        BY <2>1, <2>2, <2>3, <2>5, <2>6, OnePath
<1>4. ASSUME NEW p \in Paths, GiveUp(p) PROVE IndInv'
    <2> DEFINE m == Handed(p)
    <2>1. TypeOK'
        BY <1>4, <1>t DEF GiveUp, TypeOK
    <2>2. /\ reader[p] = "sending" /\ reader'[p] = "reading"
          /\ chan' = chan /\ state' = state /\ read' = read /\ cancelled'
          /\ \A q \in Paths \ {p} : reader'[q] = reader[q]
        BY <1>4, <1>t DEF GiveUp, TypeOK
    <2>3. m \in Nat /\ Handed(p)' = m + 1
        BY <1>t, <2>2 DEF Handed, Rising
    <2>4. Rising(state[p], chan[p], m + 1)
        BY <1>t, <2>3, DropKeeps
    <2> QED
        BY <2>1, <2>2, <2>3, <2>4, OnePath
<1>5. ASSUME NEW p \in Paths, End(p) PROVE IndInv'
    <2>1. TypeOK'
        BY <1>5, <1>t DEF End, TypeOK
    <2>2. /\ reader[p] = "reading" /\ reader'[p] = "ended"
          /\ chan' = chan /\ state' = state /\ read' = read /\ cancelled'
          /\ \A q \in Paths \ {p} : reader'[q] = reader[q]
        BY <1>5, <1>t DEF End, TypeOK
    <2>3. Handed(p)' = Handed(p)
        BY <2>2 DEF Handed
    <2> QED
        BY <1>t, <2>1, <2>2, <2>3, OnePath
<1>6. ASSUME NEW p \in Paths, Receive(p) PROVE IndInv'
    <2> DEFINE s == chan[p]  m == Handed(p)
    <2>1. /\ s \in Seq(Nat) /\ s # <<>>
          /\ state'[p] = Head(s) /\ chan'[p] = Tail(s)
          /\ reader' = reader /\ read' = read /\ cancelled' = cancelled
          /\ \A q \in Paths \ {p} : state'[q] = state[q] /\ chan'[q] = chan[q]
        BY <1>6, <1>t DEF Receive, TypeOK
    <2>2. m \in Nat /\ Handed(p)' = m
        BY <1>t, <2>1 DEF Handed, Rising
    <2>3. /\ chan'[p] \in Seq(Nat) /\ Len(chan'[p]) <= Len(s) /\ state'[p] \in Nat
          /\ Rising(state'[p], chan'[p], m)
          /\ ~cancelled => Gapless(state'[p], chan'[p], m)
        BY <1>t, <2>1, <2>2, TailKeeps
    <2>4. Len(s) <= Buffer /\ Len(s) \in Nat /\ Len(chan'[p]) \in Nat
        BY <1>t, <2>1, <2>3 DEF TypeOK
    <2>5. TypeOK'
        BY <1>6, <1>t, <2>1, <2>3, <2>4 DEF Receive, TypeOK
    <2> QED
        BY <2>1, <2>2, <2>3, <2>5, OnePath
<1>7. CASE Return
    <2>1. TypeOK'
        BY <1>7, <1>t DEF Return, TypeOK
    <2> QED
        BY <1>7, <2>1, NoPath DEF Return
<1>8. CASE Leave
    <2>1. TypeOK'
        BY <1>8, <1>t DEF Leave, TypeOK
    <2> QED
        BY <1>8, <2>1, NoPath DEF Leave
<1>9. CASE Rest \/ UNCHANGED vars
    <2>1. TypeOK'
        BY <1>9, <1>t DEF Rest, vars, TypeOK
    <2> QED
        BY <1>9, <2>1, NoPath DEF Rest, vars
<1> QED
    BY <1>1, <1>2, <1>3, <1>4, <1>5, <1>6, <1>7, <1>8, <1>9 DEF Next, SenderStep

LEMMA Inductive == Spec => []IndInv
    BY InitEstablishes, NextPreserves, PTL DEF Spec

\* The goroutines and channels keep their types; no channel ever holds more
\* than its capacity (subscribeMultiple.go:19-20).
THEOREM MultipleTyped == Spec => []TypeOK
<1>1. IndInv => TypeOK
    BY DEF IndInv
<1> QED
    BY <1>1, Inductive, PTL

\* No message is lost before the context is done: a sender never drops one
\* (subscribeMultiple.go:39-42).
THEOREM NoMessageLost == Spec => []NoneLost
<1>1. IndInv => NoneLost
    BY DEF IndInv
<1> QED
    BY <1>1, Inductive, PTL

\* What a step shows the callback: a newer message of one path, the next one
\* while the context lives, and nothing new of the others.
LEMMA StepTells ==
    ASSUME IndInv, [Next]_vars, NEW p \in Paths
    PROVE  /\ p \in updated' \ updated =>
                 /\ state'[p] > state[p]
                 /\ ~cancelled => state'[p] = state[p] + 1
           /\ p \notin updated' => state'[p] = state[p]
<1> USE DEF IndInv
<1>1. CASE \E q \in Paths : Receive(q)
    <2> PICK q \in Paths : Receive(q)
        BY <1>1
    <2>1. updated' = {q} /\ state' = [state EXCEPT ![q] = Head(chan[q])] /\ chan[q] # <<>>
        BY DEF Receive
    <2>2. CASE p # q
        BY <2>1, <2>2 DEF TypeOK
    <2>3. CASE p = q
        <3>1. /\ chan[p] \in Seq(Nat) /\ chan[p] # <<>> /\ state'[p] = Head(chan[p])
              /\ state[p] \in Nat /\ read[p] \in Nat
            BY <2>1, <2>3 DEF TypeOK
        <3>2. Rising(state[p], chan[p], Handed(p)) /\ Handed(p) \in Nat
            <4>1. Rising(state[p], chan[p], Handed(p)) /\ Handed(p) \in Int
                BY <3>1 DEF InOrder, Handed
            <4> QED
                BY <3>1, <4>1 DEF Rising
        <3>3. ~cancelled => Gapless(state[p], chan[p], Handed(p))
            BY DEF NoneLost
        <3> QED
            BY <2>1, <2>3, <3>1, <3>2, <3>3, TailKeeps
    <2> QED
        BY <2>2, <2>3
<1>2. CASE ~ \E q \in Paths : Receive(q)
    <2>1. state' = state /\ updated' \in {updated, {}}
        BY <1>2 DEF Next, Cancel, Read, SenderStep, Send, GiveUp, End, Return, Leave, Rest, vars
    <2> QED
        BY <2>1
<1> QED
    BY <1>1, <1>2

\* The callback is told of every message of a path once and in order, until
\* the context is done; it never goes back (subscribeMultiple.go:28-35).
THEOREM CallbackToldOnce == Spec => ToldOnce
<1>1. IndInv /\ [Next]_vars =>
        [\A p \in Paths :
          /\ p \in updated' \ updated =>
                /\ state'[p] > state[p]
                /\ ~cancelled => state'[p] = state[p] + 1
          /\ p \notin updated' => state'[p] = state[p]]_vars
    BY StepTells
<1> QED
    BY <1>1, Inductive, PTL DEF Spec, ToldOnce

=============================================================================
