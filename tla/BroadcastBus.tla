---------------------------- MODULE BroadcastBus ----------------------------
(***************************************************************************)
(* What the stream promises to the pools, without the channel, workers and *)
(* locks that keep it (Stream): every pool is a mirror of the storage that *)
(* is told of each change some time later.                                 *)
(*                                                                         *)
(* A mirror is told all its keys at once, from values that were looked up  *)
(* one after another since the collecting began.  A key that has changed   *)
(* is due in every mirror that was told something or is collecting, and    *)
(* stops being due only by being looked up.                                *)
(***************************************************************************)
EXTENDS Naturals

CONSTANTS
    Keys,
    Pools,
    Covered,            \* the keys of each pool
    None                \* told nothing, not collecting

VARIABLES
    store,              \* the value of each key, 0 when it is absent
    told,               \* the values each pool was told last
    seen,               \* what is being collected for a pool
    due                 \* the keys whose value a pool is still owed

vars == <<store, told, seen, due>>

Init ==
    /\ store = [k \in Keys |-> 0]
    /\ told = [p \in Pools |-> None]
    /\ seen = [p \in Pools |-> None]
    /\ due = [p \in Pools |-> {}]

\* No debt is forgotten, and those of change are new ones.  A pool may be owed
\* more than it needs to be: all the keys of a path.
Owing(change) ==
    LET old == due
        new == due'
    IN  /\ DOMAIN new = Pools
        /\ \A p \in Pools :
             /\ old[p] \subseteq new[p] /\ new[p] \subseteq Covered[p]
             /\ told[p] # None \/ seen[p] # None => change \cap Covered[p] \subseteq new[p]

Ask ==
    /\ UNCHANGED <<store, told, seen>>
    /\ Owing({})

Change(k, value) ==
    /\ value \in Nat
    /\ store' = [store EXCEPT ![k] = value]
    /\ UNCHANGED <<told, seen>>
    /\ Owing({k})

Collect(p) ==
    /\ seen[p] = None
    /\ seen' = [seen EXCEPT ![p] = [k \in {} |-> 0]]
    /\ due' = [due EXCEPT ![p] = Covered[p]]
    /\ UNCHANGED <<store, told>>

Look(p, k) ==
    /\ seen[p] # None
    /\ k \in Covered[p] \ DOMAIN seen[p]
    /\ seen' = [seen EXCEPT ![p] = [j \in DOMAIN @ \cup {k} |-> IF j = k THEN store[k] ELSE @[j]]]
    /\ due' \in {due, [due EXCEPT ![p] = @ \ {k}]}
    /\ UNCHANGED <<store, told>>

Tell(p) ==
    /\ seen[p] # None
    /\ DOMAIN seen[p] = Covered[p]
    /\ told' = [told EXCEPT ![p] = seen[p]]
    /\ seen' = [seen EXCEPT ![p] = None]
    /\ UNCHANGED <<store, due>>

Next ==
    \/ Ask
    \/ \E k \in Keys : Change(k, store'[k])
    \/ \E p \in Pools : Collect(p) \/ Tell(p)
    \/ \E p \in Pools, k \in Keys : Look(p, k)

Spec == Init /\ [][Next]_vars

-----------------------------------------------------------------------------
\* The promise: what a pool was told or collects of a key that is not due is
\* what the storage holds.
Mirrored ==
    \A p \in Pools : \A k \in Covered[p] \ due[p] :
       IF seen[p] = None
       THEN told[p] # None => told[p][k] = store[k]
       ELSE k \in DOMAIN seen[p] => seen[p][k] = store[k]

\* What it rests on: a pool is told of all its keys, and collects some of them.
TypeOK ==
    /\ store \in [Keys -> Nat]
    /\ Pools = DOMAIN told /\ Pools = DOMAIN seen /\ Pools = DOMAIN due
    /\ \A p \in Pools :
          /\ told[p] # None => told[p] \in [Covered[p] -> Nat]
          /\ seen[p] # None => seen[p] \in [DOMAIN seen[p] -> Nat]
                               /\ DOMAIN seen[p] \subseteq Covered[p]

=============================================================================
