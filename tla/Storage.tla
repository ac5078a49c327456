------------------------------- MODULE Storage -------------------------------
(***************************************************************************)
(* MemoryStorage (memory.go) under concurrent callers: the time stamps of  *)
(* the objects and the reads of a list.                                    *)
(*                                                                         *)
(* Every access to the sync.Map is a step: Set takes the time, loads the   *)
(* object that is there (Peek) and stores the new one, and a Range loads   *)
(* or deletes one key after another, so other callers come in between.     *)
(* The storage is active throughout, and the time is different at each     *)
(* Set.  The end of an operation, the send on the watch channel, waits     *)
(* until a worker Takes it.                                                *)
(***************************************************************************)
EXTENDS Naturals, FiniteSets

CONSTANTS
    Keys, Globs,        \* keys, and paths with a "*"
    MatchPairs,         \* <<path, key or glob>> such that key.Match holds
    NoBroadcastKeys,
    History,            \* keys of more than 8 characters that begin with "history"
    Limits,             \* the limits that callers of GetN give
    Ranges,             \* the keys whose Decode(LastIndex) is in from .. to
    PivotStamps,        \* <<created, updated>> that callers of Pivot give
    Callers,
    MaxTime,            \* bound on the number of Sets
    MaxOps,             \* bound on the number of operations
    NoObj,              \* the object of an absent key
    None                \* no path: all the keys

Paths == Keys \cup Globs

Match(path, k) == <<path, k>> \in MatchPairs
Peer(a, b)     == Match(a, b) \/ Match(b, a)
Covers(p)      == IF p = None THEN Keys ELSE {k \in Keys : Match(p, k)}

\* key.Contains(db.noBroadcastKeys, path), and Clear, which never sends.
Silent(p) == p = None \/ \E a \in NoBroadcastKeys : Peer(a, p)

\* What Data is: base64 of an item of the type that some program reads, base64
\* of something else, or no base64 at all.  The storage takes any.
Kinds == {"item", "other", "text"}

ASSUME StorageAssumption ==
    /\ MatchPairs \subseteq Paths \X Paths
    /\ \A k \in Keys : Covers(k) = {k}
    /\ Keys \cap Globs = {} /\ None \notin Paths
    /\ NoBroadcastKeys \subseteq Paths /\ History \subseteq Keys
    /\ Limits \subseteq Nat \ {0} /\ Ranges \subseteq SUBSET Keys
    /\ PivotStamps \subseteq Nat \X Nat
    /\ MaxTime \in Nat /\ MaxOps \in Nat

\* data is the time of the Set that stored it, 0 of a Pivot.
Object == [created : Nat, updated : Nat, data : Nat, kind : Kinds]

ASSUME NoObjAssumption == NoObj \notin Object

VARIABLES
    mem,            \* MemoryStorage.mem
    now,            \* the time at the last Set
    ops,            \* operations begun
    op,             \* the operation each caller is in
    birth,          \* history: the time of the Set that made the key
    slipped,        \* history: the stamps of the key met one of its windows
    steady          \* history: the keys that did not change during a range

storageVars == <<mem, now, ops, op, birth, slipped, steady>>

IdleOp == [pc |-> "idle", path |-> None, stamp |-> 0, kind |-> "item", created |-> 0,
           updated |-> 0, seen |-> NoObj, slip |-> FALSE, left |-> {}, got |-> {}, limit |-> 0,
           range |-> {}]

Item == [key : Keys, obj : Object]

Operation ==
    [pc : {"idle", "peek", "store", "send", "del", "clear", "scan", "paged", "missing", "done"},
     path : Paths \cup {None}, stamp : Nat, kind : Kinds, created : Nat, updated : Nat,
     seen : Object \cup {NoObj}, slip : BOOLEAN, left : SUBSET Keys, got : SUBSET Item,
     limit : Nat, range : SUBSET Keys]

StorageTyped ==
    /\ mem \in [Keys -> Object \cup {NoObj}]
    /\ now \in 0 .. MaxTime
    /\ ops \in 0 .. MaxOps
    /\ op \in [Callers -> Operation]
    /\ birth \in [Keys -> Nat]
    /\ slipped \in [Keys -> BOOLEAN]
    /\ steady \in [Callers -> SUBSET Keys]

StorageInit ==
    /\ mem = [k \in Keys |-> NoObj]
    /\ now = 0
    /\ ops = 0
    /\ op = [c \in Callers |-> IdleOp]
    /\ birth = [k \in Keys |-> 0]
    /\ slipped = [k \in Keys |-> FALSE]
    /\ steady = [c \in Callers |-> {}]

-----------------------------------------------------------------------------
Begin(c, o) ==
    /\ op[c].pc = "idle"
    /\ ops < MaxOps
    /\ ops' = ops + 1
    /\ op' = [op EXCEPT ![c] = o]

\* The object of k becomes o; no range in progress has it steady any more.
Put(k, o) ==
    /\ mem' = [mem EXCEPT ![k] = o]
    /\ steady' = [d \in Callers |-> steady[d] \ {k}]

\* After the change: the send, unless the path is kept from the channel.
Notify(p) == IF Silent(p) THEN "done" ELSE "send"

\* Set(k, data) begins: it takes the time.
Set(c, k, kind) ==
    /\ now < MaxTime
    /\ now' = now + 1
    /\ Begin(c, [IdleOp EXCEPT !.pc = "peek", !.path = k, !.stamp = now + 1, !.kind = kind,
                               !.seen = mem[k]])
    /\ UNCHANGED <<mem, birth, slipped, steady>>

\* Mutant of Peek: the creation time of an object is lost when it is updated.
PeekForgetsMutant(c) ==
    /\ op[c].pc = "peek"
    /\ LET old == mem[op[c].path]
           fresh == old = NoObj
       IN  op' = [op EXCEPT ![c].pc = "store",
                            ![c].created = op[c].stamp,
                            ![c].updated = IF fresh THEN 0 ELSE op[c].stamp,
                            ![c].slip = old # op[c].seen]
    /\ UNCHANGED <<mem, now, ops, birth, slipped, steady>>

\* Peek: a new object is created now and was not updated, another keeps its
\* creation time and is updated now.
Peek(c) ==
    /\ op[c].pc = "peek"
    /\ LET old == mem[op[c].path]
           fresh == old = NoObj
       IN  op' = [op EXCEPT ![c].pc = "store",
                            ![c].created = IF fresh THEN op[c].stamp ELSE old.created,
                            ![c].updated = IF fresh THEN 0 ELSE op[c].stamp,
                            ![c].slip = old # op[c].seen]
    /\ UNCHANGED <<mem, now, ops, birth, slipped, steady>>

\* The rest of Set.  The history: the stamps slip when the object changed
\* between the time that was taken and the store; a new object is born now.
Store(c) ==
    /\ op[c].pc = "store"
    /\ LET k == op[c].path
           slip == op[c].slip \/ mem[k] # op[c].seen
       IN  /\ Put(k, [created |-> op[c].created, updated |-> op[c].updated,
                      data |-> op[c].stamp, kind |-> op[c].kind])
           /\ birth' = [birth EXCEPT ![k] = IF mem[k] = NoObj THEN op[c].stamp ELSE @]
           /\ slipped' = [slipped EXCEPT ![k] = @ \/ slip]
           /\ op' = [op EXCEPT ![c] = [IdleOp EXCEPT !.pc = Notify(k), !.path = k]]
    /\ UNCHANGED <<now, ops>>

\* Pivot(k, data, created, updated): the caller says what the stamps are, and
\* an entry of the history is not broadcast.
Pivot(c, k, kind, created, updated) ==
    /\ Begin(c, [IdleOp EXCEPT !.pc = IF k \in History THEN "done" ELSE Notify(k), !.path = k])
    /\ Put(k, [created |-> created, updated |-> updated, data |-> 0, kind |-> kind])
    /\ slipped' = [slipped EXCEPT ![k] = TRUE]
    /\ UNCHANGED <<now, birth>>

\* Del of a key that is there, or of a glob.
Del(c, p) ==
    /\ p \in Keys => mem[p] # NoObj
    /\ Begin(c, [IdleOp EXCEPT !.pc = "del", !.path = p, !.left = Covers(p)])
    /\ UNCHANGED <<mem, now, birth, slipped, steady>>

\* "katamari: not found", of a Del or of a Get of one key.
NotFound(c, k) ==
    /\ mem[k] = NoObj
    /\ Begin(c, [IdleOp EXCEPT !.pc = "missing", !.path = k])
    /\ UNCHANGED <<mem, now, birth, slipped, steady>>

Clear(c) ==
    /\ Begin(c, [IdleOp EXCEPT !.pc = "clear", !.left = Keys])
    /\ UNCHANGED <<mem, now, birth, slipped, steady>>

\* The range of a Del or a Clear comes to k.
DeleteKey(c, k) ==
    /\ op[c].pc \in {"del", "clear"}
    /\ k \in op[c].left
    /\ Put(k, NoObj)
    /\ slipped' = [slipped EXCEPT ![k] = FALSE]
    /\ op' = [op EXCEPT ![c].left = @ \ {k}]
    /\ UNCHANGED <<now, ops, birth>>

DeleteDone(c) ==
    /\ op[c].pc \in {"del", "clear"}
    /\ op[c].left = {}
    /\ op' = [op EXCEPT ![c].pc = Notify(op[c].path)]
    /\ UNCHANGED <<mem, now, ops, birth, slipped, steady>>

\* A worker receives the path; the operation returns.
Take(c) ==
    /\ op[c].pc = "send"
    /\ op' = [op EXCEPT ![c].pc = "done"]
    /\ UNCHANGED <<mem, now, ops, birth, slipped, steady>>

(***************************************************************************)
(* The reads.  Get of a key or a glob, Keys and KeysRange return all they  *)
(* find (limit 0 here), GetN and GetNRange the newest; KeysRange and       *)
(* GetNRange skip the keys whose index is not a time of the range.  GetN   *)
(* and GetNRange decode the data, and skip what is no base64.              *)
(***************************************************************************)
Scan(c, p, limit, range) ==
    /\ Begin(c, [IdleOp EXCEPT !.pc = "scan", !.path = p, !.left = Covers(p),
                               !.limit = limit, !.range = range])
    /\ steady' = [steady EXCEPT ![c] = Covers(p)]
    /\ UNCHANGED <<mem, now, birth, slipped>>

\* The range of a read finds k: objects.Decode fails for a "text".
Finds(c, k) ==
    /\ k \in op[c].range /\ mem[k] # NoObj
    /\ op[c].limit > 0 => mem[k].kind # "text"

\* Mutant of ScanKey: the range ends when it has found as many as the limit.
ScanKeyLimitMutant(c, k) ==
    /\ op[c].pc = "scan"
    /\ k \in op[c].left
    /\ LET got == IF Finds(c, k) THEN op[c].got \cup {[key |-> k, obj |-> mem[k]]} ELSE op[c].got
       IN  op' = [op EXCEPT ![c].left = IF op[c].limit > 0 /\ Cardinality(got) = op[c].limit
                                        THEN {} ELSE @ \ {k},
                            ![c].got = got]
    /\ UNCHANGED <<mem, now, ops, birth, slipped, steady>>

\* The range of a read comes to k.
ScanKey(c, k) ==
    /\ op[c].pc = "scan"
    /\ k \in op[c].left
    /\ op' = [op EXCEPT ![c].left = @ \ {k},
                        ![c].got = IF Finds(c, k) THEN @ \cup {[key |-> k, obj |-> mem[k]]} ELSE @]
    /\ UNCHANGED <<mem, now, ops, birth, slipped, steady>>

\* objects.Sort: the order of a list is that of the later stamp.
Newest(o) == IF o.created > o.updated THEN o.created ELSE o.updated

\* res[:limit] of a list sorted by Newest, in which equals have any order.
Firsts(items, limit) ==
    IF limit = 0 \/ Cardinality(items) <= limit
    THEN {items}
    ELSE {f \in SUBSET items :
            /\ Cardinality(f) = limit
            /\ \A i \in f, j \in items \ f : Newest(i.obj) >= Newest(j.obj)}

\* The list is sorted, cut and given to the caller.
ScanDone(c) ==
    /\ op[c].pc = "scan"
    /\ op[c].left = {}
    /\ \E page \in Firsts(op[c].got, op[c].limit) :
          op' = [op EXCEPT ![c].pc = "paged", ![c].got = page]
    /\ UNCHANGED <<mem, now, ops, birth, slipped, steady>>

\* The caller has what the operation returned.
Ended(c) == op[c].pc \in {"done", "missing", "paged"}

Return(c) ==
    /\ Ended(c)
    /\ op' = [op EXCEPT ![c] = IdleOp]
    /\ steady' = [steady EXCEPT ![c] = {}]
    /\ UNCHANGED <<mem, now, ops, birth, slipped>>

\* The calls an application makes of the storage, with data of these kinds.
Call(c, sets, pivots) ==
    \/ \E k \in Keys :
          \/ \E kind \in sets : Set(c, k, kind)
          \/ NotFound(c, k)
          \/ \E kind \in pivots, s \in PivotStamps : Pivot(c, k, kind, s[1], s[2])
    \/ \E p \in Paths : Del(c, p) \/ Scan(c, p, 0, Keys)
    \/ \E g \in Globs, limit \in Limits \cup {0}, range \in Ranges : Scan(c, g, limit, range)
    \/ Scan(c, None, 0, Keys)
    \/ Clear(c)

\* What goes on inside an operation.
Inside(c) ==
    \/ Peek(c) \/ Store(c)
    \/ \E k \in Keys : DeleteKey(c, k) \/ ScanKey(c, k)
    \/ DeleteDone(c) \/ ScanDone(c)
    \/ Take(c)

StorageStep(c) == Call(c, Kinds, Kinds) \/ Inside(c) \/ Return(c)

StorageSpec == StorageInit /\ [][\E c \in Callers : StorageStep(c)]_storageVars

-----------------------------------------------------------------------------
TrueStamps(k) == mem[k] # NoObj /\ ~slipped[k] =>
    /\ mem[k].created = birth[k]
    /\ mem[k].updated = 0 \/ mem[k].updated > mem[k].created
    /\ Newest(mem[k]) = mem[k].data

\* The stamps of an object are true unless one of the windows of Set was hit
\* or Pivot forced them: created is the time of the Set that made the key,
\* updated is 0 or a later time, and the newest of the two, by which lists are
\* sorted, is the time of the Set that stored the data (memory.go:218-248).
StampsTrue == \A k \in Keys : TrueStamps(k)

\* All that a list has is of its path and its range, and decodes if it must.
Fitting(c) == \A i \in op[c].got :
    /\ i.key \in Covers(op[c].path) \cap op[c].range
    /\ op[c].limit > 0 => i.obj.kind # "text"

NewestPage(c) == op[c].pc = "paged" =>
    /\ Fitting(c)
    /\ \A k \in steady[c] :
          IF ~Finds(c, k) THEN \A i \in op[c].got : i.key # k
          ELSE \/ /\ [key |-> k, obj |-> mem[k]] \in op[c].got
                  /\ \A i \in op[c].got : i.key = k => i.obj = mem[k]
               \/ /\ op[c].limit > 0 /\ Cardinality(op[c].got) = op[c].limit
                  /\ \A i \in op[c].got : i.key # k /\ Newest(i.obj) >= Newest(mem[k])

\* A list read while others write has every object of the range that did not
\* change meanwhile, as it is; a list with a limit has those of them that decode,
\* or else only newer ones up to the limit, and it never has one that does not
\* decode.  Nothing else than keys of its path and range is in it
\* (memory.go:85-106, 109-137, 150-170, 184-214).
PageIsNewest == \A c \in Callers : NewestPage(c)

\* What the two rest on.  The data of a key is not newer than now; a Set found
\* older data, and brings the stamps that follow from it unless it has slipped.
InTime(k) == mem[k] # NoObj => mem[k].data <= now

Stamped(c) == op[c].pc \in {"peek", "store"} =>
    /\ op[c].path \in Keys /\ op[c].stamp \in 1 .. now
    /\ op[c].seen # NoObj => op[c].seen.data < op[c].stamp
    /\ op[c].pc = "store" /\ ~op[c].slip =>
          IF op[c].seen = NoObj
          THEN op[c].created = op[c].stamp /\ op[c].updated = 0
          ELSE op[c].created = op[c].seen.created /\ op[c].updated = op[c].stamp

\* A range that is under way has found the keys it passed that did not change.
Passed(c) == op[c].pc = "scan" =>
    /\ Fitting(c)
    /\ op[c].left \subseteq Covers(op[c].path)
    /\ \A i \in op[c].got : i.key \notin op[c].left
    /\ \A k \in steady[c] \ op[c].left :
          IF ~Finds(c, k) THEN \A i \in op[c].got : i.key # k
          ELSE /\ [key |-> k, obj |-> mem[k]] \in op[c].got
               /\ \A i \in op[c].got : i.key = k => i.obj = mem[k]

StorageInv ==
    /\ StorageTyped
    /\ \A k \in Keys : TrueStamps(k) /\ InTime(k)
    /\ \A c \in Callers : Stamped(c) /\ Passed(c) /\ NewestPage(c)

=============================================================================
