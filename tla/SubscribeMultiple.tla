-------------------------- MODULE SubscribeMultiple --------------------------
(***************************************************************************)
(* The joined subscriptions of the Go client (client/subscribeMultiple.go):*)
(* one Subscribe per path, whose callback sends what it was given on the   *)
(* path's buffered channel, and one goroutine that receives from all the   *)
(* channels and calls the user's callback with the last state of every     *)
(* path.  SubscribeMultiple2, 3 and 4 differ only in the number of Paths.  *)
(*                                                                         *)
(* Of a Subscribe (ClientSubscribe) only the calls of its callback count:  *)
(* they come one at a time, may stop for ever, and stop some time after    *)
(* the context is cancelled or never.  The messages of a path are numbered *)
(* from 1 on; 0 is the nil state of a path that had none.                  *)
(***************************************************************************)
EXTENDS Integers, Sequences

CONSTANTS
    Paths,
    Buffer,             \* the capacity of a channel, 10 in the code
    MaxMessages         \* bound on the messages of a path

ASSUME BoundsAssumption == Buffer \in Nat \ {0} /\ MaxMessages \in Nat

VARIABLES
    cancelled,          \* ctx is done
    read,               \* messages that each Subscribe has given its callback
    reader,             \* where each Subscribe is
    chan,               \* ch1, ch2, ...
    joiner,             \* the state manager: in its select, in the callback
    state,              \* state1, state2, ...: the last message received
    updated             \* the paths whose Updated is true in the callback

vars == <<cancelled, read, reader, chan, joiner, state, updated>>

TypeOK ==
    /\ cancelled \in BOOLEAN
    /\ read \in [Paths -> 0 .. MaxMessages]
    /\ reader \in [Paths -> {"reading", "sending", "ended"}]
    /\ chan \in [Paths -> Seq(Nat)]
    /\ \A p \in Paths : Len(chan[p]) <= Buffer
    /\ joiner \in {"select", "callback", "ended"}
    /\ state \in [Paths -> Nat]
    /\ updated \in SUBSET Paths
    /\ joiner # "callback" <=> updated = {}
    /\ joiner = "ended" => cancelled

Init ==
    /\ cancelled = FALSE
    /\ read = [p \in Paths |-> 0]
    /\ reader = [p \in Paths |-> "reading"]
    /\ chan = [p \in Paths |-> <<>>]
    /\ joiner = "select"
    /\ state = [p \in Paths |-> 0]
    /\ updated = {}

-----------------------------------------------------------------------------
\* The caller's context ends, at its cancel function or its deadline.
Cancel ==
    /\ ~cancelled
    /\ cancelled' = TRUE
    /\ UNCHANGED <<read, reader, chan, joiner, state, updated>>

\* The Subscribe of p calls its callback with the next message.
Read(p) ==
    /\ reader[p] = "reading"
    /\ read[p] < MaxMessages
    /\ read' = [read EXCEPT ![p] = @ + 1]
    /\ reader' = [reader EXCEPT ![p] = "sending"]
    /\ UNCHANGED <<cancelled, chan, joiner, state, updated>>

\* Mutant of Send: the channel has no bound.
SendUnboundedMutant(p) ==
    /\ reader[p] = "sending"
    /\ chan' = [chan EXCEPT ![p] = Append(@, read[p])]
    /\ reader' = [reader EXCEPT ![p] = "reading"]
    /\ UNCHANGED <<cancelled, read, joiner, state, updated>>

\* Mutant of Send: a full channel is emptied first, to keep the newest.
SendReplacesMutant(p) ==
    /\ reader[p] = "sending"
    /\ chan' = [chan EXCEPT ![p] = IF Len(@) < Buffer THEN Append(@, read[p]) ELSE <<read[p]>>]
    /\ reader' = [reader EXCEPT ![p] = "reading"]
    /\ UNCHANGED <<cancelled, read, joiner, state, updated>>

\* case ch <- messages, when there is room.
Send(p) ==
    /\ reader[p] = "sending"
    /\ Len(chan[p]) < Buffer
    /\ chan' = [chan EXCEPT ![p] = Append(@, read[p])]
    /\ reader' = [reader EXCEPT ![p] = "reading"]
    /\ UNCHANGED <<cancelled, read, joiner, state, updated>>

\* Mutant of GiveUp: a default case, taken when the channel is full.
GiveUpDefaultMutant(p) ==
    /\ reader[p] = "sending"
    /\ cancelled \/ Len(chan[p]) = Buffer
    /\ reader' = [reader EXCEPT ![p] = "reading"]
    /\ UNCHANGED <<cancelled, read, chan, joiner, state, updated>>

\* case <-ctx.Done() of the sender: the message is dropped.
GiveUp(p) ==
    /\ reader[p] = "sending"
    /\ cancelled
    /\ reader' = [reader EXCEPT ![p] = "reading"]
    /\ UNCHANGED <<cancelled, read, chan, joiner, state, updated>>

\* The Subscribe of p returns, which it does only once the context is done.
End(p) ==
    /\ reader[p] = "reading"
    /\ cancelled
    /\ reader' = [reader EXCEPT ![p] = "ended"]
    /\ UNCHANGED <<cancelled, read, chan, joiner, state, updated>>

\* case state = <-ch: the callback begins, with one path Updated.
Receive(p) ==
    /\ joiner = "select"
    /\ chan[p] # <<>>
    /\ state' = [state EXCEPT ![p] = Head(chan[p])]
    /\ chan' = [chan EXCEPT ![p] = Tail(@)]
    /\ updated' = {p}
    /\ joiner' = "callback"
    /\ UNCHANGED <<cancelled, read, reader>>

\* The callback returns, and the joining goroutine is back in its select.
Return ==
    /\ joiner = "callback"
    /\ joiner' = "select"
    /\ updated' = {}
    /\ UNCHANGED <<cancelled, read, reader, chan, state>>

\* Mutant of Leave: left only with nothing to receive and no reader at work.
LeaveDrainedMutant ==
    /\ joiner = "select"
    /\ cancelled
    /\ \A p \in Paths : chan[p] = <<>> /\ reader[p] = "ended"
    /\ joiner' = "ended"
    /\ UNCHANGED <<cancelled, read, reader, chan, state, updated>>

\* case <-ctx.Done() of the joining goroutine, whatever the channels hold.
Leave ==
    /\ joiner = "select"
    /\ cancelled
    /\ joiner' = "ended"
    /\ UNCHANGED <<cancelled, read, reader, chan, state, updated>>

\* Everything may rest: nothing to send or receive, no more messages.
Rest ==
    /\ \A p \in Paths : reader[p] # "sending" /\ (joiner = "ended" \/ chan[p] = <<>>)
    /\ joiner # "callback"
    /\ UNCHANGED vars

SenderStep(p) == Send(p) \/ GiveUp(p)

Next ==
    \/ Cancel
    \/ \E p \in Paths : Read(p) \/ SenderStep(p) \/ End(p) \/ Receive(p)
    \/ Return
    \/ Leave
    \/ Rest

Spec == Init /\ [][Next]_vars

(***************************************************************************)
(* A sender at its select proceeds, and a callback returns.  A Go select   *)
(* draws among the cases that are ready, so one that is ready again and    *)
(* again is taken.  Messages and cancellation have no fairness.            *)
(***************************************************************************)
FairSpec ==
    /\ Spec
    /\ WF_vars(Return)
    /\ SF_vars(Leave)
    /\ \A p \in Paths : SF_vars(Receive(p)) /\ SF_vars(SenderStep(p))

-----------------------------------------------------------------------------
\* How many messages of p its callback is done with.
Handed(p) == IF reader[p] = "sending" THEN read[p] - 1 ELSE read[p]

\* s holds messages after number n and up to number m, in order.
Rising(n, s, m) ==
    /\ n <= m
    /\ \A i \in 1 .. Len(s) : n < s[i] /\ s[i] <= m
    /\ \A i, j \in 1 .. Len(s) : i < j => s[i] < s[j]

\* s holds all of them.
Gapless(n, s, m) ==
    /\ m = n + Len(s)
    /\ \A i \in 1 .. Len(s) : s[i] = n + i

\* The messages of a path are received in the order they were read, also after
\* a cancellation, when senders drop some.
InOrder == \A p \in Paths : Rising(state[p], chan[p], Handed(p))

\* Until the context is done no message is lost, however slow the callback: the
\* select of a sender has no default case (subscribeMultiple.go:39-42).
NoneLost == ~cancelled => \A p \in Paths : Gapless(state[p], chan[p], Handed(p))

\* The callback is told of every message of a path once, in order; after a
\* cancellation it may miss some and still never goes back.  The state of the
\* other paths is that of the callback before (subscribeMultiple.go:28-35).
ToldOnce ==
    [][\A p \in Paths :
          /\ p \in updated' \ updated =>
                /\ state'[p] > state[p]
                /\ ~cancelled => state'[p] = state[p] + 1
          /\ p \notin updated' => state'[p] = state[p]]_vars

\* Every message that is read reaches the callback, whatever the other paths
\* send, unless the context ends.
Delivered ==
    \A p \in Paths : \A n \in 1 .. MaxMessages :
       read[p] >= n ~> (state[p] >= n \/ cancelled)

\* Nobody hangs: a sender is let go even if the joining goroutine has left it
\* with a full channel, and the joining goroutine leaves once the context is
\* done, even if messages keep coming.
NobodyHangs ==
    /\ \A p \in Paths : reader[p] = "sending" ~> reader[p] # "sending"
    /\ cancelled ~> joiner = "ended"

IndInv == TypeOK /\ InOrder /\ NoneLost

=============================================================================
