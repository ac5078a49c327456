------------------------------- MODULE Stream -------------------------------
(***************************************************************************)
(* From a write to the storage to what the subscribers of its path hold:   *)
(* the data race at the heart of katamari.                                 *)
(*                                                                         *)
(*   writers   storage operations Set and Del (memory.go) of concurrent    *)
(*             requests, each of which ends by sending its path on the     *)
(*             unbuffered watch channel;                                   *)
(*   workers   goroutines that receive from the channel and broadcast      *)
(*             (katamari.go watch, stream.go Broadcast and Patch);         *)
(*   tasks     request handlers that fetch a path: a websocket connection  *)
(*             (ws.go) or a GET (rest.go), both through stream.go Refresh. *)
(*                                                                         *)
(* Every shared access of the code is a step of its own: a load or a       *)
(* delete of one key of the sync.Map, a rendezvous on the channel, a       *)
(* critical section of sm.mutex or of a pool's mutex.  A section of        *)
(* sm.mutex.Lock (New, Close, setCache) waits for nothing once entered, so *)
(* it is one step, enabled while no worker is inside the RLock section of  *)
(* Broadcast.  The storage is active throughout (its closing is not in     *)
(* this module).                                                           *)
(*                                                                         *)
(* What a connection has been sent is kept as what its client holds once   *)
(* it has read all of it (messages.go PatchCache): a websocket is FIFO, so *)
(* that is a function of the order of the writes on it.                    *)
(***************************************************************************)
EXTENDS Naturals, FiniteSets

CONSTANTS
    Keys,               \* keys of the storage
    Globs,              \* paths with a "*"
    MatchPairs,         \* <<path, key or glob>> such that key.Match holds
    NoBroadcastKeys,    \* Server.NoBroadcastKeys
    Denied,             \* paths whose read filter returns an error
    NoPatch,            \* Server.NoPatch
    ForcePatch,         \* Server.ForcePatch
    Coarse,             \* the clock may read the same time twice
    Writers, Workers, Conns, Readers,
    MaxWrites,          \* bound on the number of storage operations
    None                \* no path, no data

Paths == Keys \cup Globs
Tasks == Conns \cup Readers

Match(path, k) == <<path, k>> \in MatchPairs
Peer(a, b)     == Match(a, b) \/ Match(b, a)

\* The keys whose values are the data of a path.
Covers(p) == {k \in Keys : Match(p, k)}

\* key.Contains(db.noBroadcastKeys, path)
Silent(p) == \E a \in NoBroadcastKeys : Peer(a, p)

\* A key none of whose operations is kept from the watch channel ...
Loud(k) == \A p \in Paths : k \in Covers(p) => ~Silent(p)

\* ... and that pool p hears of whatever path it is changed by: not so of globs
\* that cross, which share keys and are no peers, and which no check forbids.
Heard(p, k) == Loud(k) /\ \A q \in Paths : k \in Covers(q) => Peer(p, q)

ASSUME MatchAssumption ==
    /\ MatchPairs \subseteq Paths \X Paths
    /\ \A k \in Keys : Covers(k) = {k}

ASSUME ConstantsAssumption ==
    /\ NoBroadcastKeys \subseteq Paths /\ Denied \subseteq Paths
    /\ {NoPatch, ForcePatch, Coarse} \subseteq BOOLEAN
    /\ MaxWrites \in Nat
    /\ Conns \cap Readers = {}
    /\ Keys \cap Globs = {}

\* The value of each key, 0 when it is absent: its value is the number of the
\* write that stored it, so that no two writes store the same.
Data == [Keys -> Nat]
Absent == [k \in Keys |-> 0]

ASSUME NoneAssumption ==
    /\ None \notin Paths
    /\ \A some \in SUBSET Keys : None \notin [some -> Nat]
    /\ None \notin [view : Data, ver : Nat]

VARIABLES
    store,          \* MemoryStorage.mem
    writes,         \* operations so far
    req,            \* the operation each writer is in
    work,           \* the broadcast each worker is in
    pools,          \* keys of Stream.pools[1..]; pools[0] is the clock's
    cache,          \* Pool.cache: version 0 until _setCache, data, and history:
                    \* whether another cache of the pool had the same version
    clock,          \* the time at the last _setCache, a version
    connections,    \* Pool.connections
    task,           \* the fetch each handler is in
    client,         \* the peer of each connection: what it holds when drained
    init,           \* the initial message that "go Stream.Write" still owes
    told,           \* history: the data of the last broadcast of each pool
    slip            \* history: the windows each connection's handshake hit

vars == <<store, writes, req, work, pools, cache, clock, connections, task,
          client, init, told, slip>>

storageVars == <<store, writes, req>>
streamVars  == <<pools, cache, clock, connections>>
clientVars  == <<task, client, init>>

-----------------------------------------------------------------------------
IdleReq  == [pc |-> "idle", path |-> None, left |-> {}]
IdleWork == [pc |-> "recv", path |-> None, todo |-> {}, pool |-> None,
             left |-> {}, got |-> Absent]
IdleTask == [pc |-> "idle", path |-> None, left |-> {}, got |-> Absent, v |-> 0]

Request == [pc : {"idle", "del", "send"}, path : Paths \cup {None},
            left : SUBSET Keys]
Work    == [pc : {"recv", "lock", "loop", "get"}, path : Paths \cup {None},
            todo : SUBSET Paths, pool : Paths \cup {None},
            left : SUBSET Keys, got : Data]
Task    == [pc : {"idle", "get", "set", "live", "denied", "closed"},
            path : Paths \cup {None}, left : SUBSET Keys, got : Data, v : Nat]
Holding == [open : BOOLEAN, view : Data \cup {None}, ver : Nat]
Initial == [view : Data, ver : Nat]
Windows == {"broadcast", "refresh", "setcache", "version"}

Typed ==
    /\ store \in Data
    /\ writes \in 0 .. MaxWrites
    /\ req \in [Writers -> Request]
    /\ work \in [Workers -> Work]
    /\ pools \subseteq Paths
    /\ cache \in [Paths -> [ver : Nat, data : Data, twin : BOOLEAN]]
    /\ clock \in Nat
    /\ connections \in [Paths -> SUBSET Conns]
    /\ task \in [Tasks -> Task]
    /\ client \in [Conns -> Holding]
    /\ init \in [Conns -> Initial \cup {None}]
    /\ told \in [Paths -> Data \cup {None}]
    /\ slip \in [Conns -> SUBSET Windows]

\* What is under way has a path, and a Del visits only keys of its own.
Placed ==
    /\ \A w \in Writers : req[w].pc # "idle" =>
          req[w].path \in Paths /\ req[w].left \subseteq Covers(req[w].path)
    /\ \A v \in Workers : work[v].pc # "recv" => work[v].path \in Paths
    /\ \A v \in Workers : work[v].pc = "get" => work[v].pool \in Paths
    /\ \A t \in Tasks : task[t].pc # "idle" => task[t].path \in Paths

TypeOK == Typed /\ Placed

Init ==
    /\ store = Absent /\ writes = 0
    /\ req = [w \in Writers |-> IdleReq]
    /\ work = [v \in Workers |-> IdleWork]
    /\ pools = {}
    /\ cache = [p \in Paths |-> [ver |-> 0, data |-> Absent, twin |-> FALSE]]
    /\ clock = 1
    /\ connections = [p \in Paths |-> {}]
    /\ task = [t \in Tasks |-> IdleTask]
    /\ client = [c \in Conns |-> [open |-> FALSE, view |-> None, ver |-> 0]]
    /\ init = [c \in Conns |-> None]
    /\ told = [p \in Paths |-> None]
    /\ slip = [c \in Conns |-> {}]

-----------------------------------------------------------------------------
(***************************************************************************)
(* Writers.                                                                *)
(***************************************************************************)
\* What follows the change of the storage: the path is sent on the watch
\* channel unless it is a peer of a key that is not to be broadcast.
Notify(p) == IF Silent(p) THEN IdleReq ELSE [pc |-> "send", path |-> p, left |-> {}]

Set(w, k) ==
    /\ req[w].pc = "idle" /\ writes < MaxWrites
    /\ writes' = writes + 1
    /\ store' = [store EXCEPT ![k] = writes + 1]
    /\ req' = [req EXCEPT ![w] = Notify(k)]
    /\ UNCHANGED <<work, streamVars, clientVars, told, slip>>

\* Del of one key: without that key it returns an error and changes nothing.
Del(w, k) ==
    /\ req[w].pc = "idle" /\ writes < MaxWrites
    /\ store[k] # 0
    /\ writes' = writes + 1
    /\ req' = [req EXCEPT ![w] = [pc |-> "del", path |-> k, left |-> {k}]]
    /\ UNCHANGED <<store, work, streamVars, clientVars, told, slip>>

\* Mutant of DelGlob: the range takes every path that matches, globs included.
DelGlobPathsMutant(w, p) ==
    /\ req[w].pc = "idle" /\ writes < MaxWrites
    /\ writes' = writes + 1
    /\ req' = [req EXCEPT ![w] = [pc |-> "del", path |-> p,
                                  left |-> {q \in Paths : Match(p, q)}]]
    /\ UNCHANGED <<store, work, streamVars, clientVars, told, slip>>

\* Del of a glob: mem.Range visits the keys, in any order.
DelGlob(w, p) ==
    /\ req[w].pc = "idle" /\ writes < MaxWrites
    /\ writes' = writes + 1
    /\ req' = [req EXCEPT ![w] = [pc |-> "del", path |-> p, left |-> Covers(p)]]
    /\ UNCHANGED <<store, work, streamVars, clientVars, told, slip>>

\* mem.Delete, which does nothing when another Del was faster.
DelKey(w, k) ==
    /\ req[w].pc = "del" /\ k \in req[w].left
    /\ store' = [store EXCEPT ![k] = 0]
    /\ req' = [req EXCEPT ![w].left = @ \ {k}]
    /\ UNCHANGED <<writes, work, streamVars, clientVars, told, slip>>

DelDone(w) ==
    /\ req[w].pc = "del" /\ req[w].left = {}
    /\ req' = [req EXCEPT ![w] = Notify(req[w].path)]
    /\ UNCHANGED <<store, writes, work, streamVars, clientVars, told, slip>>

\* The rendezvous of "db.watcher <- ev" with "ev := <-sc" of a worker.
Deliver(w, v) ==
    /\ req[w].pc = "send" /\ work[v].pc = "recv"
    /\ req' = [req EXCEPT ![w] = IdleReq]
    /\ work' = [work EXCEPT ![v].pc = "lock", ![v].path = req[w].path]
    /\ UNCHANGED <<store, writes, streamVars, clientVars, told, slip>>

-----------------------------------------------------------------------------
(***************************************************************************)
(* Workers.                                                                *)
(***************************************************************************)
\* A worker is inside the RLock section of Broadcast.
RLocked == \E v \in Workers : work[v].pc \in {"loop", "get"}

\* A worker holds the mutex of pool p.
PoolLocked(p) == \E v \in Workers : work[v].pc = "get" /\ work[v].pool = p

\* Mutant of RLock: only pools whose key matches the path, not its peers.
RLockMatchMutant(v) ==
    /\ work[v].pc = "lock"
    /\ work' = [work EXCEPT ![v].pc = "loop",
                            ![v].todo = {p \in pools : Match(p, work[v].path)}]
    /\ UNCHANGED <<storageVars, streamVars, clientVars, told, slip>>

\* sm.mutex.RLock; the pools cannot change until it is released.
RLock(v) ==
    /\ work[v].pc = "lock"
    /\ work' = [work EXCEPT ![v].pc = "loop",
                            ![v].todo = {p \in pools : Peer(p, work[v].path)}]
    /\ UNCHANGED <<storageVars, streamVars, clientVars, told, slip>>

\* Mutant of LockPool: the data is read before the pool's mutex is taken.
LockPoolLateMutant(v, p) ==
    /\ work[v].pc = "loop" /\ p \in work[v].todo
    /\ work' = [work EXCEPT ![v].pc = "get", ![v].todo = @ \ {p},
                            ![v].pool = p, ![v].left = Covers(p)]
    /\ UNCHANGED <<storageVars, streamVars, clientVars, told, slip>>

LockPool(v, p) ==
    /\ work[v].pc = "loop" /\ p \in work[v].todo
    /\ ~PoolLocked(p)
    /\ work' = [work EXCEPT ![v].pc = "get", ![v].todo = @ \ {p},
                            ![v].pool = p, ![v].left = Covers(p)]
    /\ UNCHANGED <<storageVars, streamVars, clientVars, told, slip>>

\* Storage.Get of the pool's key: one load, or mem.Range key by key.
GetKey(v, k) ==
    /\ work[v].pc = "get" /\ k \in work[v].left
    /\ work' = [work EXCEPT ![v].left = @ \ {k}, ![v].got[k] = store[k]]
    /\ UNCHANGED <<storageVars, streamVars, clientVars, told, slip>>

\* The worker unlocks the pool and goes on with the next one.
NextPool(v) ==
    work' = [work EXCEPT ![v].pc = "loop", ![v].pool = None, ![v].got = Absent]

\* Mutant of Filtered: return in the place of continue.
FilteredReturnsMutant(v) ==
    /\ work[v].pc = "get" /\ work[v].left = {}
    /\ work[v].pool \in Denied
    /\ work' = [work EXCEPT ![v] = IdleWork]
    /\ UNCHANGED <<storageVars, streamVars, clientVars, told, slip>>

\* "this error means that the broadcast was filtered"
Filtered(v) ==
    /\ work[v].pc = "get" /\ work[v].left = {}
    /\ work[v].pool \in Denied
    /\ NextPool(v)
    /\ UNCHANGED <<storageVars, streamVars, clientVars, told, slip>>

(***************************************************************************)
(* What a client holds after one more message, PatchCache: a snapshot      *)
(* replaces it, the empty patch leaves it, and a patch made from base is   *)
(* right only on base; on anything else it fails or gives some data        *)
(* nobody stored, recorded as None.                                        *)
(***************************************************************************)
Receive(h, snapshot, base, ver, data) ==
    IF ~h.open THEN h
    ELSE [h EXCEPT !.ver = ver,
                   !.view = IF snapshot \/ @ = base THEN data
                            ELSE IF base = data THEN @ ELSE None]

\* Whether Patch may return the snapshot: always with NoPatch and for an empty
\* cache, which no patch can be made from; else when it is the shorter of the
\* two, unless ForcePatch.
MaySnapshot(p, snapshot) ==
    \/ snapshot = TRUE  /\ (NoPatch \/ cache[p].ver = 0 \/ ~ForcePatch)
    \/ snapshot = FALSE /\ ~NoPatch /\ cache[p].ver # 0

\* A connection whose handshake is not over: its handler has not sent yet what
\* it has read.
InHandshake(c) == task[c].pc \in {"get", "set"} \/ init[c] # None

\* Mutant of _setCache: the cache keeps its data, only its version is new.
_setCacheVersionMutant(p, data) ==
    /\ clock' \in clock + (IF Coarse THEN 0 ELSE 1) .. clock + 1
    /\ cache' = [cache EXCEPT ![p].ver = clock']

\* The version is the time, in nanoseconds: with a coarse clock it may be that
\* of an earlier cache.
_setCache(p, data) ==
    /\ clock' \in clock + (IF Coarse THEN 0 ELSE 1) .. clock + 1
    /\ cache' = [cache EXCEPT ![p] =
                   [ver |-> clock', data |-> data, twin |-> @.ver = clock']]

(***************************************************************************)
(* Patch, broadcast and the unlock of the pool.  One step: New, Close and  *)
(* setCache wait for the RLock, GetCacheVersion for the pool's mutex, and  *)
(* the writes to different connections commute with everything else.       *)
(***************************************************************************)
Publish(v, snapshot) ==
    LET p == work[v].pool
        data == work[v].got
    IN  /\ work[v].pc = "get" /\ work[v].left = {}
        /\ p \notin Denied
        /\ MaySnapshot(p, snapshot)
        /\ _setCache(p, data)
        /\ client' = [c \in Conns |->
              IF c \in connections[p]
              THEN Receive(client[c], snapshot, cache[p].data, clock', data)
              ELSE client[c]]
        /\ told' = [told EXCEPT ![p] = data]
        /\ slip' = [c \in Conns |->
              IF c \in connections[p] /\ InHandshake(c)
              THEN slip[c] \cup {"broadcast"} ELSE slip[c]]
        /\ NextPool(v)
        /\ UNCHANGED <<storageVars, pools, connections, task, init>>

\* Mutant of RUnlock: the deferred unlock is missing.
RUnlockMissingMutant(v) ==
    /\ work[v].pc = "loop" /\ work[v].todo = {}
    /\ UNCHANGED vars

\* The end of the loop: RUnlock, and the worker receives again.
RUnlock(v) ==
    /\ work[v].pc = "loop" /\ work[v].todo = {}
    /\ work' = [work EXCEPT ![v] = IdleWork]
    /\ UNCHANGED <<storageVars, streamVars, clientVars, told, slip>>

-----------------------------------------------------------------------------
(***************************************************************************)
(* Handlers.                                                               *)
(***************************************************************************)
\* A client opens a connection that starts from what the closed connection d
\* left it with, giving its version as "v", or from nothing (d = c).
Resumes(c, p, d) == d = c \/ (task[d].pc = "closed" /\ task[d].path = p)

\* Mutant of New: an existing pool gets a new list of connections.
NewAloneMutant(c, p, d) ==
    /\ task[c].pc = "idle" /\ Resumes(c, p, d)
    /\ ~RLocked
    /\ pools' = pools \cup {p}
    /\ connections' = [connections EXCEPT ![p] = {c}]
    /\ task' = [task EXCEPT ![c] = [pc |-> "get", path |-> p, left |-> Covers(p),
                                    got |-> Absent, v |-> client[d].ver]]
    /\ client' = [client EXCEPT ![c] = [client[d] EXCEPT !.open = TRUE]]
    /\ slip' = [slip EXCEPT ![c] = slip[d]]
    /\ UNCHANGED <<storageVars, work, cache, clock, init, told>>

New(c, p, d) ==
    /\ task[c].pc = "idle" /\ Resumes(c, p, d)
    /\ ~RLocked
    /\ pools' = pools \cup {p}
    /\ connections' = [connections EXCEPT ![p] = @ \cup {c}]
    /\ task' = [task EXCEPT ![c] = [pc |-> "get", path |-> p, left |-> Covers(p),
                                    got |-> Absent, v |-> client[d].ver]]
    /\ client' = [client EXCEPT ![c] = [client[d] EXCEPT !.open = TRUE]]
    /\ slip' = [slip EXCEPT ![c] = slip[d]]
    /\ UNCHANGED <<storageVars, work, cache, clock, init, told>>

\* A GET starts to fetch.
Read(r, p) ==
    /\ task[r].pc = "idle"
    /\ task' = [task EXCEPT ![r] = [IdleTask EXCEPT !.pc = "get", !.path = p,
                                                    !.left = Covers(p)]]
    /\ UNCHANGED <<storageVars, work, streamVars, client, init, told, slip>>

\* Refresh: getDataFn reads the storage.
FetchKey(t, k) ==
    /\ task[t].pc = "get" /\ k \in task[t].left
    /\ task' = [task EXCEPT ![t].left = @ \ {k}, ![t].got[k] = store[k]]
    /\ UNCHANGED <<storageVars, work, streamVars, client, init, told, slip>>

Fetched(t) == task[t].pc = "get" /\ task[t].left = {}

\* The read filter refuses: the handler returns.  A websocket has been
\* upgraded and registered by then, and stays so.
FetchDenied(t) ==
    /\ Fetched(t) /\ task[t].path \in Denied
    /\ task' = [task EXCEPT ![t] =
                  IF t \in Conns THEN [@ EXCEPT !.pc = "denied", !.got = Absent]
                                 ELSE IdleTask]
    /\ UNCHANGED <<storageVars, work, streamVars, client, init, told, slip>>

\* What the handler does with the data and the version: a GET answers; a
\* websocket hands its initial message to a goroutine, unless the client gave
\* that version, and goes on to read from the connection.
Reply(t, ver) ==
    /\ task' = [task EXCEPT ![t] =
                  IF t \in Conns THEN [@ EXCEPT !.pc = "live", !.got = Absent]
                                 ELSE IdleTask]
    /\ init' = IF t \in Conns /\ ver # task[t].v
               THEN [init EXCEPT ![t] = [view |-> task[t].got, ver |-> ver]]
               ELSE init

\* The initial message of t, with the version of the cache, has other data; or
\* it is left out because of a version that an earlier cache had too.
Mismatch(t, c) ==
    IF c.ver # task[t].v
    THEN {w \in {"refresh"} : c.data # task[t].got}
    ELSE {w \in {"version"} : c.twin}

\* Refresh: GetCacheVersion finds a version for the data read before.
CacheHit(t) ==
    LET p == task[t].path
    IN  /\ Fetched(t) /\ p \notin Denied
        /\ ~PoolLocked(p)
        /\ p \in pools /\ cache[p].ver # 0
        /\ Reply(t, cache[p].ver)
        /\ slip' = IF t \in Conns
                   THEN [slip EXCEPT ![t] = @ \cup Mismatch(t, cache[p])] ELSE slip
        /\ UNCHANGED <<storageVars, work, streamVars, client, told>>

\* Mutant of CacheMiss: the error of GetCacheVersion is returned.
CacheMissReturnsMutant(t) ==
    LET p == task[t].path
    IN  /\ Fetched(t) /\ p \notin Denied
        /\ ~PoolLocked(p)
        /\ p \notin pools \/ cache[p].ver = 0
        /\ task' = [task EXCEPT ![t] = IF t \in Conns THEN [@ EXCEPT !.pc = "denied"]
                                                     ELSE IdleTask]
        /\ UNCHANGED <<storageVars, work, streamVars, client, init, told, slip>>

\* Refresh: GetCacheVersion returns an error, no pool or an empty cache.
CacheMiss(t) ==
    LET p == task[t].path
    IN  /\ Fetched(t) /\ p \notin Denied
        /\ ~PoolLocked(p)
        /\ p \notin pools \/ cache[p].ver = 0
        /\ task' = [task EXCEPT ![t].pc = "set"]
        /\ UNCHANGED <<storageVars, work, streamVars, client, init, told, slip>>

\* Refresh: setCache, which creates the pool if there is none.
SetCache(t) ==
    LET p == task[t].path
    IN  /\ task[t].pc = "set"
        /\ ~RLocked
        /\ pools' = pools \cup {p}
        /\ _setCache(p, task[t].got)
        /\ slip' = [c \in Conns |->
              IF c \in connections[p] \ {t} /\ cache[p].ver # 0
                 /\ cache[p].data # task[t].got
              THEN slip[c] \cup {"setcache"} ELSE slip[c]]
        /\ Reply(t, clock')
        /\ UNCHANGED <<storageVars, work, connections, client, told>>

\* The goroutine of the initial message: a snapshot, whatever was sent before.
WriteInitial(c) ==
    /\ init[c] # None
    /\ client' = [client EXCEPT ![c] =
                    Receive(@, TRUE, Absent, init[c].ver, init[c].view)]
    /\ init' = [init EXCEPT ![c] = None]
    /\ UNCHANGED <<storageVars, work, streamVars, task, told, slip>>

\* The connection ends: the peer leaves, or a write to it fails or takes more
\* than the deadline.
Drop(c) ==
    /\ client[c].open
    /\ client' = [client EXCEPT ![c].open = FALSE]
    /\ UNCHANGED <<storageVars, work, streamVars, task, init, told, slip>>

\* Stream.Read gets an error and closes.
Close(c) ==
    /\ task[c].pc = "live" /\ ~client[c].open
    /\ ~RLocked
    /\ connections' = [connections EXCEPT ![task[c].path] = @ \ {c}]
    /\ task' = [task EXCEPT ![c].pc = "closed"]
    /\ UNCHANGED <<storageVars, work, pools, cache, clock, client, init, told, slip>>

-----------------------------------------------------------------------------
WriterStep(w) ==
    \/ \E k \in Keys : Set(w, k) \/ Del(w, k)
    \/ \E p \in Globs : DelGlob(w, p)
    \/ \E k \in Keys : DelKey(w, k)
    \/ DelDone(w)
    \/ \E v \in Workers : Deliver(w, v)

WorkerStep(v) ==
    \/ RLock(v)
    \/ \E p \in Paths : LockPool(v, p)
    \/ \E k \in Keys : GetKey(v, k)
    \/ Filtered(v)
    \/ \E snapshot \in BOOLEAN : Publish(v, snapshot)
    \/ RUnlock(v)

\* The steps of a handler that has begun.
TaskStep(t) ==
    \/ \E k \in Keys : FetchKey(t, k)
    \/ FetchDenied(t)
    \/ CacheHit(t)
    \/ CacheMiss(t)
    \/ SetCache(t)

ConnStep(c) ==
    \/ WriteInitial(c)
    \/ Close(c)

\* Every writer, worker and handler is done.
Quiet ==
    /\ \A w \in Writers : req[w].pc = "idle"
    /\ \A v \in Workers : work[v].pc = "recv"
    /\ \A t \in Tasks : task[t].pc \notin {"get", "set"}
    /\ \A c \in Conns : init[c] = None

\* The bound on the operations is reached and nothing is left to do.
Rest == Quiet /\ writes = MaxWrites /\ UNCHANGED vars

Next ==
    \/ \E w \in Writers : WriterStep(w)
    \/ \E v \in Workers : WorkerStep(v)
    \/ \E t \in Tasks : TaskStep(t)
    \/ \E c \in Conns : ConnStep(c) \/ Drop(c)
    \/ \E c, d \in Conns, p \in Paths : New(c, p, d)
    \/ \E r \in Readers, p \in Paths : Read(r, p)
    \/ Rest

Spec == Init /\ [][Next]_vars

(***************************************************************************)
(* A goroutine that can run does.  A sender waits in the FIFO queue of the *)
(* channel and a writer of sm.mutex keeps later readers out, so neither is *)
(* overtaken for ever.  Requests, disconnections and the start of an       *)
(* operation are the environment's and have no fairness.                   *)
(***************************************************************************)
FairSpec ==
    /\ Spec
    /\ \A w \in Writers : WF_vars(\/ \E k \in Keys : DelKey(w, k)
                                  \/ DelDone(w)
                                  \/ \E v \in Workers : Deliver(w, v))
    /\ \A v \in Workers : WF_vars(WorkerStep(v))
    /\ \A t \in Tasks : WF_vars(TaskStep(t))
    /\ \A c \in Conns : WF_vars(ConnStep(c))
-----------------------------------------------------------------------------
(***************************************************************************)
(* Properties.                                                             *)
(***************************************************************************)
\* Some step under way will still read key k for a broadcast to pool p: the
\* writer that has changed it and has not handed over its path, the worker
\* that has received such a path and not come to p, or the one reading p.
Owed(p, k) ==
    \/ \E w \in Writers : req[w].pc # "idle" /\ k \in Covers(req[w].path)
    \/ \E v \in Workers : work[v].pc = "lock" /\ k \in Covers(work[v].path)
    \/ \E v \in Workers : p \in work[v].todo
    \/ \E v \in Workers : work[v].pc = "get" /\ work[v].pool = p /\ k \in work[v].left

Current(p, data) ==
    \A k \in Covers(p) : Heard(p, k) => data[k] = store[k]

\* When everything is at rest, the last broadcast of each pool carried the
\* values the storage holds: no interleaving of concurrent writes, of workers
\* and of new pools loses the last update of a key (stream.go Broadcast reads
\* under the pool's mutex; katamari.go watch).
ToldIsCurrent ==
    Quiet => \A p \in pools \ Denied : told[p] # None => Current(p, told[p])

\* The inductive form.  A pool whose last broadcast is out of date for a key is
\* being broadcast to, or is owed a broadcast that reads the key ...
ToldOrOwed ==
    \A p \in pools \ Denied : \A k \in Covers(p) :
       told[p] # None /\ told[p][k] # store[k] /\ Heard(p, k) =>
          Owed(p, k) \/ PoolLocked(p)

\* ... and what a worker has read of a key is still there, or owed again.
GotOrOwed ==
    \A v \in Workers : work[v].pc = "get" =>
       \A k \in Covers(work[v].pool) \ work[v].left :
          work[v].got[k] # store[k] /\ Heard(work[v].pool, k) => Owed(work[v].pool, k)

\* No interleaving leaves a stale broadcast that nobody is about to repair.
NoLostUpdate == ToldOrOwed /\ GotOrOwed

\* Two workers never broadcast to the same pool at once, a worker only visits
\* pools there are, and only those that are not filtered are told anything.
PoolsExclusive ==
    /\ \A v, u \in Workers :
          work[v].pc = "get" /\ work[u].pc = "get" /\ work[v].pool = work[u].pool
             => v = u
    /\ \A v \in Workers : work[v].todo \subseteq pools
    /\ \A v \in Workers : work[v].pc \in {"recv", "lock"} => work[v].todo = {}
    /\ \A v \in Workers : work[v].pc = "get" => work[v].pool \in pools
    /\ \A p \in Paths : told[p] # None => p \in pools \ Denied

IndInv == TypeOK /\ PoolsExclusive /\ NoLostUpdate

\* The broadcasts of a pool never go back to an older value of a key, however
\* the workers that make them interleave (stream.go:178, Get under the mutex).
NoStaleBroadcast ==
    [][\A p \in Paths, k \in Keys :
          told[p] # None /\ told'[p] # None /\ told'[p][k] # 0
             => told'[p][k] >= told[p][k]]_vars

\* A connection's client holds the pool's cache, the base of the next patch,
\* unless its handshake met a broadcast ("broadcast"), took its version from a
\* cache with other data than it had read ("refresh"), was given the version of
\* an older cache ("version", stream.go:265), or the cache was overwritten by a
\* handler that had found it empty ("setcache").
ClientHoldsCache ==
    \A c \in Conns :
       task[c].pc = "live" /\ client[c].open /\ init[c] = None /\ slip[c] = {}
          => client[c].view = cache[task[c].path].data

\* Nothing in its handshake can have left c out of date at rest: with NoPatch
\* the next broadcast repairs what it got, if there is one.
Sound(c) == slip[c] = {} \/ (NoPatch /\ slip[c] \cap {"broadcast", "version"} = {})

\* When everything is at rest a connected client holds what the storage holds,
\* if its handshake was clean; with NoPatch only a broadcast during the
\* handshake, or a version that two caches had, can spoil it.
CleanClientCurrent ==
    Quiet => \A c \in Conns :
       task[c].pc = "live" /\ client[c].open /\ Sound(c)
       => client[c].view # None /\ Current(task[c].path, client[c].view)

\* A connection is in the pool of its path, and in no other, exactly from its
\* upgrade until its read loop has closed it (stream.go new and Close).
RegisteredWhileServed ==
    \A p \in Paths, c \in Conns :
       c \in connections[p] <=> task[c].pc \notin {"idle", "closed"} /\ task[c].path = p

\* What the three rest on.  How far a handler is says what it has done ...
Stage(c) ==
    LET p == task[c].path
    IN  /\ task[c].pc # "idle" => p \in pools
        /\ task[c].pc = "denied" => p \in Denied
        /\ task[c].pc \in {"set", "live", "closed"} => p \notin Denied
        /\ task[c].pc = "set" => task[c].left = {} /\ task[c].v = 0
        /\ task[c].pc \notin {"live", "closed"} => init[c] = None
        /\ task[c].pc = "closed" => ~client[c].open

\* ... and no client has a version that the cache of its pool has not had.
Versions(c) ==
    LET p == task[c].path
    IN  /\ task[c].pc = "idle" => client[c].ver = 0
        /\ task[c].pc # "idle" => client[c].ver <= cache[p].ver
        /\ task[c].pc \in {"get", "set"} => task[c].v <= cache[p].ver
        /\ task[c].pc = "live" => cache[p].ver # 0
        /\ init[c] # None => init[c].ver <= cache[p].ver

Times == clock # 0 /\ \A p \in Paths : cache[p].ver <= clock

\* The next connection of c's client, with its version, needs no snapshot.
Resumable(c) ==
    LET p == task[c].path
    IN  /\ task[c].pc \in {"get", "set", "live", "closed"}
        /\ client[c].ver = cache[p].ver /\ cache[p].ver # 0 /\ ~cache[p].twin

\* What a client of a clean handshake holds, or will be sent, is the cache ...
HoldsOrWill(c) ==
    LET data == cache[task[c].path].data
    IN  slip[c] = {} =>
           /\ task[c].pc \in {"get", "set"} => client[c].ver = task[c].v
           /\ Resumable(c) => client[c].view = data
           /\ task[c].pc = "live" /\ init[c] # None => init[c].view = data
           /\ task[c].pc = "live" /\ client[c].open /\ init[c] = None => client[c].view = data

\* ... and what the client of a sound one holds, will be sent, or its handler has
\* read so far, is in the storage, or the pool is owed a broadcast.
Fresh(p, data, read) ==
    \A k \in read : Heard(p, k) => data[k] = store[k] \/ Owed(p, k) \/ PoolLocked(p)

FreshOrWill(c) ==
    LET p == task[c].path
    IN  Sound(c) /\ p \notin Denied =>
           /\ task[c].pc \in {"get", "set"} =>
                 /\ client[c].ver = task[c].v
                 /\ Fresh(p, task[c].got, Covers(p) \ task[c].left)
           /\ Resumable(c) => client[c].view # None /\ Fresh(p, client[c].view, Covers(p))
           /\ task[c].pc = "live" /\ init[c] # None => Fresh(p, init[c].view, Covers(p))
           /\ task[c].pc = "live" /\ client[c].open /\ init[c] = None =>
                 client[c].view # None /\ Fresh(p, client[c].view, Covers(p))

HoldsInv ==
    Times /\ \A c \in Conns : Stage(c) /\ Versions(c) /\ HoldsOrWill(c)

FreshInv == \A c \in Conns : FreshOrWill(c)

\* Every storage operation returns: no writer waits for ever for a worker.
WriterReturns == \A w \in Writers : req[w].pc # "idle" ~> req[w].pc = "idle"

\* Every value stored under a key reaches the next broadcasts of the pools
\* that cover it and have been told something before.
ToldEventually ==
    \A p \in Paths \ Denied : \A k \in Covers(p) :
       (Heard(p, k) /\ told[p] # None /\ told[p][k] # store[k])
          ~> (told[p] # None /\ told[p][k] = store[k])

\* A connection that has ended is taken out of its pool, and OnUnsubscribe is
\* called for it, unless the read filter refused its data: then nobody reads
\* from it (stream.go Read and Close, ws.go:28).
DroppedIsClosed ==
    \A c \in Conns :
       (task[c].pc \notin {"idle", "closed"} /\ task[c].path \notin Denied /\ ~client[c].open)
          ~> task[c].pc = "closed"

(***************************************************************************)
(* A claim of the documentation, which the code does not keep.             *)
(***************************************************************************)
\* "restful CRUD service that reflects interactions to real-time
\* subscriptions" (README.md): at rest every connected client holds what the
\* storage holds.
Reflected ==
    Quiet => \A c \in Conns :
       task[c].pc = "live" /\ client[c].open
          => client[c].view # None /\ Current(task[c].path, client[c].view)

=============================================================================
