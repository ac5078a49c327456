------------------------------ MODULE StreamBus ------------------------------
(***************************************************************************)
(* Stream implements BroadcastBus.  The pools of the bus are those whose   *)
(* read filter lets data pass, with the keys they hear of.                 *)
(***************************************************************************)
EXTENDS Stream

Mirrors == Paths \ Denied
Covered == [p \in Mirrors |-> {k \in Covers(p) : Heard(p, k)}]

\* The worker that holds the mutex of p has read these keys.
Collected(p) ==
    LET v == CHOOSE v \in Workers : work[v].pc = "get" /\ work[v].pool = p
    IN  [k \in Covered[p] \ work[v].left |-> work[v].got[k]]

BusTold ==
    [p \in Mirrors |->
        IF told[p] = None THEN None ELSE [k \in Covered[p] |-> told[p][k]]]

BusSeen == [p \in Mirrors |-> IF PoolLocked(p) THEN Collected(p) ELSE None]

BusDue ==
    [p \in Mirrors |-> IF p \in pools THEN {k \in Covered[p] : Owed(p, k)} ELSE {}]

Bus == INSTANCE BroadcastBus WITH
    Pools <- Mirrors, told <- BusTold, seen <- BusSeen, due <- BusDue

\* Whatever workers, locks and channel do, a pool is a mirror of the storage: it
\* is told only values that were stored since it began to be told, and a change
\* is owed to it until a worker has read the key for it (katamari.go watch,
\* stream.go Broadcast).
ImplementsBus == Bus!Spec

\* What a pool was told of a key, or its worker has read of it so far, is what the
\* storage holds unless the key is due: the promise of the bus, kept by the pools.
PoolsMirror == Bus!TypeOK /\ Bus!Mirrored

=============================================================================
