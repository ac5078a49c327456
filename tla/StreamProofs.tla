---------------------------- MODULE StreamProofs ----------------------------
(***************************************************************************)
(* Proofs about Stream and, in the last part, that it implements           *)
(* BroadcastBus, for every value of its constants.                         *)
(***************************************************************************)
EXTENDS StreamBus, TLAPS

LEMMA Idles ==
    /\ Absent \in Data
    /\ IdleReq \in Request /\ IdleWork \in Work /\ IdleTask \in Task
    /\ \A p \in Paths : Notify(p) \in Request
    /\ \A p : Covers(p) \subseteq Keys
BY DEF Absent, Data, IdleReq, Request, IdleWork, Work, IdleTask, Task, Notify, Covers

\* A message leaves a client with data or with nothing.
LEMMA ReceiveType ==
    ASSUME NEW h \in Holding, NEW s \in BOOLEAN, NEW base, NEW ver \in Nat,
           NEW data \in Data
    PROVE  Receive(h, s, base, ver, data) \in Holding
BY DEF Receive, Holding

\* The version is a time whatever the clock does.
LEMMA CacheTyped ==
    ASSUME cache \in [Paths -> [ver : Nat, data : Data, twin : BOOLEAN]], clock \in Nat,
           NEW p, NEW data \in Data, _setCache(p, data)
    PROVE  /\ clock' \in Nat
           /\ cache' \in [Paths -> [ver : Nat, data : Data, twin : BOOLEAN]]
<1>1. clock' \in Nat
  <2>1. clock' \in clock + 0 .. clock + 1 \/ clock' \in clock + 1 .. clock + 1
    BY DEF _setCache
  <2> QED
    BY <2>1
<1> QED
  BY <1>1 DEF _setCache

\* A worker's step leaves each worker with a well formed broadcast.
LEMMA WorkTyped ==
    ASSUME work \in [Workers -> Work], store \in Data, pools \subseteq Paths,
           NEW v \in Workers
    PROVE  (\/ WorkerStep(v)
            \/ \E w \in Writers : req[w].path \in Paths /\ Deliver(w, v))
              => work' \in [Workers -> Work]
<1>1. ASSUME NEW w \in Writers, req[w].path \in Paths, Deliver(w, v)
      PROVE work' \in [Workers -> Work]
  <2>1. work[v] \in Work
    OBVIOUS
  <2> DEFINE r == [work[v] EXCEPT !.pc = "lock", !.path = req[w].path]
  <2>2. r \in Work
    BY <1>1, <2>1 DEF Work
  <2>3. work' = [work EXCEPT ![v] = r]
    BY <1>1 DEF Deliver
  <2> QED
    BY <2>2, <2>3
<1>2. CASE RLock(v)
  <2>1. work[v] \in Work
    OBVIOUS
  <2> DEFINE r == [work[v] EXCEPT !.pc = "loop",
                               !.todo = {p \in pools : Peer(p, work[v].path)}]
  <2>2. r \in Work
    BY <2>1 DEF Work
  <2>3. work' = [work EXCEPT ![v] = r]
    BY <1>2 DEF RLock
  <2> QED
    BY <2>2, <2>3
<1>3. ASSUME NEW p \in Paths, LockPool(v, p) PROVE work' \in [Workers -> Work]
  <2>1. work[v] \in Work
    OBVIOUS
  <2> DEFINE r == [work[v] EXCEPT !.pc = "get", !.todo = @ \ {p}, !.pool = p,
                               !.left = Covers(p)]
  <2>2. r \in Work
    BY <2>1, Idles DEF Work
  <2>3. work' = [work EXCEPT ![v] = r]
    BY <1>3 DEF LockPool
  <2> QED
    BY <2>2, <2>3
<1>4. ASSUME NEW k \in Keys, GetKey(v, k) PROVE work' \in [Workers -> Work]
  <2>1. work[v] \in Work /\ work[v].got \in Data
    BY DEF Work
  <2>4. [work[v].got EXCEPT ![k] = store[k]] \in Data
    BY <2>1 DEF Data
  <2> DEFINE r == [work[v] EXCEPT !.left = @ \ {k},
                               !.got = [work[v].got EXCEPT ![k] = store[k]]]
  <2>2. r \in Work
    BY <2>1, <2>4 DEF Work
  <2>3. work' = [work EXCEPT ![v] = r]
    BY <1>4 DEF GetKey
  <2> QED
    BY <2>2, <2>3
<1>5. ASSUME NextPool(v) PROVE work' \in [Workers -> Work]
  <2>1. work[v] \in Work
    OBVIOUS
  <2> DEFINE r == [work[v] EXCEPT !.pc = "loop", !.pool = None, !.got = Absent]
  <2>2. r \in Work
    BY <2>1, Idles DEF Work
  <2>3. work' = [work EXCEPT ![v] = r]
    BY <1>5 DEF NextPool
  <2> QED
    BY <2>2, <2>3
<1>6. CASE RUnlock(v)
  BY <1>6, Idles DEF RUnlock
<1> QED
  BY <1>1, <1>2, <1>3, <1>4, <1>5, <1>6 DEF WorkerStep, Filtered, Publish

\* A handler's step leaves each handler with a well formed fetch.
LEMMA TaskTyped ==
    ASSUME task \in [Tasks -> Task], store \in Data, client \in [Conns -> Holding]
    PROVE  (\/ \E t \in Tasks : TaskStep(t)
            \/ \E c, d \in Conns, p \in Paths : New(c, p, d)
            \/ \E r \in Readers, p \in Paths : Read(r, p)
            \/ \E c \in Conns : Close(c))
              => task' \in [Tasks -> Task]
<1>1. ASSUME NEW c \in Conns, NEW d \in Conns, NEW p \in Paths, New(c, p, d)
      PROVE  task' \in [Tasks -> Task]
  <2>1. client[d].ver \in Nat /\ Covers(p) \subseteq Keys
    BY DEF Holding, Covers
  <2> QED
    BY <1>1, <2>1, Idles DEF New, Task
<1>2. ASSUME NEW r \in Readers, NEW p \in Paths, Read(r, p)
      PROVE  task' \in [Tasks -> Task]
  <2>1. [IdleTask EXCEPT !.pc = "get", !.path = p, !.left = Covers(p)] \in Task
    BY DEF IdleTask, Task, Covers, Absent, Data
  <2> QED
    BY <1>2, <2>1 DEF Read
<1>3. ASSUME NEW t \in Tasks, NEW k \in Keys, FetchKey(t, k)
      PROVE task' \in [Tasks -> Task]
  <2>1. task[t] \in Task /\ task[t].got \in Data
    BY DEF Task
  <2>4. [task[t].got EXCEPT ![k] = store[k]] \in Data
    BY <2>1 DEF Data
  <2> DEFINE r == [task[t] EXCEPT !.left = @ \ {k},
                               !.got = [task[t].got EXCEPT ![k] = store[k]]]
  <2>2. r \in Task
    BY <2>1, <2>4 DEF Task
  <2>3. task' = [task EXCEPT ![t] = r]
    BY <1>3 DEF FetchKey
  <2> QED
    BY <2>2, <2>3
<1>4. ASSUME NEW t \in Tasks, FetchDenied(t) PROVE task' \in [Tasks -> Task]
  BY <1>4, Idles DEF FetchDenied, Task
<1>5. ASSUME NEW t \in Tasks, NEW n, Reply(t, n) PROVE task' \in [Tasks -> Task]
  BY <1>5, Idles DEF Reply, Task
<1>6. ASSUME NEW t \in Tasks, CacheMiss(t) PROVE task' \in [Tasks -> Task]
  BY <1>6 DEF CacheMiss, Task
<1>7. ASSUME NEW c \in Conns, Close(c) PROVE task' \in [Tasks -> Task]
  BY <1>7 DEF Close, Task
<1> QED
  BY <1>1, <1>2, <1>3, <1>4, <1>5, <1>6, <1>7 DEF TaskStep, CacheHit, SetCache

-----------------------------------------------------------------------------
\* Type correctness: every variable keeps the shape its comment gives it.
THEOREM TypeCorrect == Spec => []TypeOK
<1>1. Init => TypeOK
  BY Idles, ConstantsAssumption
  DEF Init, TypeOK, Typed, Placed, Holding, IdleReq, IdleWork, IdleTask
<1>2. ASSUME TypeOK, [Next]_vars PROVE Typed'
  <2> USE <1>2, Idles DEF TypeOK, Typed, Placed
  <2>1. ASSUME NEW w \in Writers, NEW k \in Keys, Set(w, k) PROVE Typed'
    BY <2>1, ConstantsAssumption DEF Set, streamVars, clientVars, Data, Paths
  <2>2. ASSUME NEW w \in Writers, NEW k \in Keys, Del(w, k) PROVE Typed'
    BY <2>2, ConstantsAssumption DEF Del, streamVars, clientVars, Request, Paths
  <2>3. ASSUME NEW w \in Writers, NEW p \in Globs, DelGlob(w, p) PROVE Typed'
    BY <2>3, ConstantsAssumption DEF DelGlob, streamVars, clientVars, Request, Paths
  <2>4. ASSUME NEW w \in Writers, NEW k \in Keys, DelKey(w, k) PROVE Typed'
    BY <2>4 DEF DelKey, streamVars, clientVars, Data, Request
  <2>5. ASSUME NEW w \in Writers, DelDone(w) PROVE Typed'
    BY <2>5 DEF DelDone, streamVars, clientVars, Request
  <2>6. ASSUME NEW w \in Writers, NEW v \in Workers, Deliver(w, v) PROVE Typed'
    <3>1. req[w].path \in Paths
      BY <2>6 DEF Deliver
    <3>2. work' \in [Workers -> Work]
      BY <2>6, <3>1, WorkTyped
    <3>3. req' \in [Writers -> Request]
      BY <2>6 DEF Deliver
    <3> QED
      BY <2>6, <3>2, <3>3 DEF Deliver, streamVars, clientVars
  <2>7. ASSUME NEW v \in Workers, RLock(v) PROVE Typed'
    <3>1. work' \in [Workers -> Work]
      BY <2>7, WorkTyped DEF WorkerStep
    <3> QED
      BY <2>7, <3>1 DEF RLock, storageVars, streamVars, clientVars
  <2>8. ASSUME NEW v \in Workers, NEW p \in Paths, LockPool(v, p) PROVE Typed'
    <3>1. work' \in [Workers -> Work]
      BY <2>8, WorkTyped DEF WorkerStep
    <3> QED
      BY <2>8, <3>1 DEF LockPool, storageVars, streamVars, clientVars
  <2>9. ASSUME NEW v \in Workers, NEW k \in Keys, GetKey(v, k) PROVE Typed'
    <3>1. work' \in [Workers -> Work]
      BY <2>9, WorkTyped DEF WorkerStep
    <3> QED
      BY <2>9, <3>1 DEF GetKey, storageVars, streamVars, clientVars
  <2>10. ASSUME NEW v \in Workers, Filtered(v) PROVE Typed'
    <3>1. work' \in [Workers -> Work]
      BY <2>10, WorkTyped DEF WorkerStep
    <3> QED
      BY <2>10, <3>1 DEF Filtered, storageVars, streamVars, clientVars
  <2>11. ASSUME NEW v \in Workers, NEW s \in BOOLEAN, Publish(v, s) PROVE Typed'
    <3> DEFINE p == work[v].pool
               data == work[v].got
    <3>1. p \in Paths \cup {None} /\ data \in Data
      BY DEF Work
    <3>4. clock' \in Nat /\ cache' \in [Paths -> [ver : Nat, data : Data, twin : BOOLEAN]]
      BY <2>11, <3>1, CacheTyped DEF Publish
    <3>2. work' \in [Workers -> Work]
      BY <2>11, WorkTyped DEF WorkerStep
    <3>3. client' \in [Conns -> Holding]
      BY <2>11, <3>1, <3>4, ReceiveType DEF Publish
    <3>5. told' \in [Paths -> Data \cup {None}]
      BY <2>11, <3>1 DEF Publish
    <3>6. slip' \in [Conns -> SUBSET Windows]
      BY <2>11 DEF Publish, Windows
    <3> QED
      BY <2>11, <3>2, <3>3, <3>4, <3>5, <3>6 DEF Publish, storageVars
  <2>12. ASSUME NEW v \in Workers, RUnlock(v) PROVE Typed'
    <3>1. work' \in [Workers -> Work]
      BY <2>12, WorkTyped DEF WorkerStep
    <3> QED
      BY <2>12, <3>1 DEF RUnlock, storageVars, streamVars, clientVars
  <2>13. ASSUME NEW c \in Conns, NEW p \in Paths, NEW d \in Conns, New(c, p, d)
         PROVE Typed'
    <3>1. task' \in [Tasks -> Task]
      BY <2>13, TaskTyped
    <3>2. client[d] \in Holding /\ c \in Conns
      OBVIOUS
    <3>3. [client[d] EXCEPT !.open = TRUE] \in Holding
      BY <3>2 DEF Holding
    <3>4. client' \in [Conns -> Holding]
      BY <2>13, <3>3 DEF New
    <3>5. connections' \in [Paths -> SUBSET Conns]
      BY <2>13 DEF New
    <3>6. slip' \in [Conns -> SUBSET Windows] /\ pools' \subseteq Paths
      BY <2>13 DEF New
    <3> QED
      BY <2>13, <3>1, <3>4, <3>5, <3>6 DEF New, storageVars
  <2>14. ASSUME NEW r \in Readers, NEW p \in Paths, Read(r, p) PROVE Typed'
    <3>1. task' \in [Tasks -> Task]
      BY <2>14, TaskTyped
    <3> QED
      BY <2>14, <3>1 DEF Read, storageVars, streamVars
  <2>15. ASSUME NEW t \in Tasks, NEW k \in Keys, FetchKey(t, k) PROVE Typed'
    <3>1. task' \in [Tasks -> Task]
      BY <2>15, TaskTyped DEF TaskStep
    <3> QED
      BY <2>15, <3>1 DEF FetchKey, storageVars, streamVars
  <2>16. ASSUME NEW t \in Tasks, FetchDenied(t) PROVE Typed'
    <3>1. task' \in [Tasks -> Task]
      BY <2>16, TaskTyped DEF TaskStep
    <3> QED
      BY <2>16, <3>1 DEF FetchDenied, storageVars, streamVars
  <2>17. ASSUME NEW t \in Tasks, CacheHit(t) PROVE Typed'
    <3>1. task' \in [Tasks -> Task]
      BY <2>17, TaskTyped DEF TaskStep
    <3>2. task[t].got \in Data /\ task[t].path \in Paths
      BY <2>17 DEF CacheHit, Fetched, Task
    <3>3. init' \in [Conns -> Initial \cup {None}]
      BY <2>17, <3>2 DEF CacheHit, Reply, Initial
    <3> QED
      BY <2>17, <3>1, <3>3 DEF CacheHit, storageVars, streamVars, Windows, Mismatch
  <2>18. ASSUME NEW t \in Tasks, CacheMiss(t) PROVE Typed'
    <3>1. task' \in [Tasks -> Task]
      BY <2>18, TaskTyped DEF TaskStep
    <3> QED
      BY <2>18, <3>1 DEF CacheMiss, storageVars, streamVars
  <2>19. ASSUME NEW t \in Tasks, SetCache(t) PROVE Typed'
    <3> DEFINE p == task[t].path
    <3>1. p \in Paths \cup {None} /\ task[t].got \in Data
      BY DEF Task
    <3>3. clock' \in Nat /\ cache' \in [Paths -> [ver : Nat, data : Data, twin : BOOLEAN]]
      BY <2>19, <3>1, CacheTyped DEF SetCache
    <3>2. task' \in [Tasks -> Task]
      BY <2>19, TaskTyped DEF TaskStep
    <3>7. init' \in [Conns -> Initial \cup {None}]
      BY <2>19, <3>1, <3>3 DEF SetCache, Reply, Initial
    <3>4. slip' \in [Conns -> SUBSET Windows]
      BY <2>19 DEF SetCache, Windows
    <3>5. pools' \subseteq Paths
      BY <2>19 DEF SetCache
    <3> QED
      BY <2>19, <3>1, <3>2, <3>3, <3>4, <3>5, <3>7 DEF SetCache, storageVars
  <2>20. ASSUME NEW c \in Conns, WriteInitial(c) PROVE Typed'
    <3>1. init[c] \in Initial
      BY <2>20 DEF WriteInitial
    <3>2. init[c].ver \in Nat /\ init[c].view \in Data
      BY <3>1 DEF Initial
    <3>3. client' \in [Conns -> Holding]
      BY <2>20, <3>2, ReceiveType DEF WriteInitial
    <3> QED
      BY <2>20, <3>3 DEF WriteInitial, storageVars, streamVars
  <2>21. ASSUME NEW c \in Conns, Drop(c) PROVE Typed'
    BY <2>21 DEF Drop, storageVars, streamVars, Holding
  <2>22. ASSUME NEW c \in Conns, Close(c) PROVE Typed'
    <3>1. task' \in [Tasks -> Task]
      BY <2>22, TaskTyped
    <3> QED
      BY <2>22, <3>1 DEF Close, storageVars
  <2>23. CASE Rest \/ UNCHANGED vars
    BY <2>23 DEF Rest, vars
  <2> QED
    BY <2>1, <2>2, <2>3, <2>4, <2>5, <2>6, <2>7, <2>8, <2>9, <2>10, <2>11, <2>12,
       <2>13, <2>14, <2>15, <2>16, <2>17, <2>18, <2>19, <2>20, <2>21, <2>22, <2>23
       DEF Next, WriterStep, WorkerStep, TaskStep, ConnStep, Tasks
<1>3. ASSUME TypeOK, [Next]_vars PROVE Placed'
  <2> USE <1>3 DEF TypeOK, Typed, Placed
  <2>1. ASSUME NEW w \in Writers, NEW k \in Keys, Set(w, k) PROVE Placed'
    BY <2>1 DEF Set, Notify, IdleReq, Paths, storageVars, streamVars, clientVars
  <2>2. ASSUME NEW w \in Writers, NEW k \in Keys, Del(w, k) PROVE Placed'
    BY <2>2, MatchAssumption DEF Del, Paths, storageVars, streamVars, clientVars
  <2>3. ASSUME NEW w \in Writers, NEW p \in Globs, DelGlob(w, p) PROVE Placed'
    BY <2>3 DEF DelGlob, Paths, storageVars, streamVars, clientVars
  <2>4. ASSUME NEW w \in Writers, NEW k \in Keys, DelKey(w, k) PROVE Placed'
    BY <2>4 DEF DelKey, Request, storageVars, streamVars, clientVars
  <2>5. ASSUME NEW w \in Writers, DelDone(w) PROVE Placed'
    BY <2>5 DEF DelDone, Notify, IdleReq, storageVars, streamVars, clientVars
  <2>6. ASSUME NEW w \in Writers, NEW v \in Workers, Deliver(w, v) PROVE Placed'
    BY <2>6 DEF Deliver, IdleReq, Work, storageVars, streamVars, clientVars
  <2>7. ASSUME NEW v \in Workers, RLock(v) PROVE Placed'
    BY <2>7 DEF RLock, Work, storageVars, streamVars, clientVars
  <2>8. ASSUME NEW v \in Workers, NEW p \in Paths, LockPool(v, p) PROVE Placed'
    BY <2>8 DEF LockPool, Work, storageVars, streamVars, clientVars
  <2>9. ASSUME NEW v \in Workers, NEW k \in Keys, GetKey(v, k) PROVE Placed'
    BY <2>9 DEF GetKey, Work, storageVars, streamVars, clientVars
  <2>10. ASSUME NEW v \in Workers, Filtered(v) PROVE Placed'
    BY <2>10 DEF Filtered, NextPool, Work, storageVars, streamVars, clientVars
  <2>11. ASSUME NEW v \in Workers, NEW s \in BOOLEAN, Publish(v, s) PROVE Placed'
    BY <2>11 DEF Publish, NextPool, Work, storageVars, streamVars, clientVars
  <2>12. ASSUME NEW v \in Workers, RUnlock(v) PROVE Placed'
    BY <2>12 DEF RUnlock, IdleWork, storageVars, streamVars, clientVars
  <2>13. ASSUME NEW c \in Conns, NEW p \in Paths, NEW d \in Conns, New(c, p, d) PROVE Placed'
    BY <2>13 DEF New, Tasks, storageVars, streamVars, clientVars
  <2>14. ASSUME NEW r \in Readers, NEW p \in Paths, Read(r, p) PROVE Placed'
    BY <2>14 DEF Read, Tasks, storageVars, streamVars, clientVars
  <2>15. ASSUME NEW t \in Tasks, NEW k \in Keys, FetchKey(t, k) PROVE Placed'
    BY <2>15 DEF FetchKey, Task, storageVars, streamVars, clientVars
  <2>16. ASSUME NEW t \in Tasks, FetchDenied(t) PROVE Placed'
    BY <2>16 DEF FetchDenied, Fetched, Task, IdleTask, storageVars, streamVars, clientVars
  <2>17. ASSUME NEW t \in Tasks, CacheHit(t) PROVE Placed'
    BY <2>17 DEF CacheHit, Fetched, Reply, Task, IdleTask, storageVars, streamVars, clientVars
  <2>18. ASSUME NEW t \in Tasks, CacheMiss(t) PROVE Placed'
    BY <2>18 DEF CacheMiss, Fetched, Task, storageVars, streamVars, clientVars
  <2>19. ASSUME NEW t \in Tasks, SetCache(t) PROVE Placed'
    BY <2>19 DEF SetCache, Reply, Task, IdleTask, storageVars, streamVars, clientVars
  <2>20. ASSUME NEW c \in Conns, WriteInitial(c) PROVE Placed'
    BY <2>20 DEF WriteInitial, storageVars, streamVars, clientVars
  <2>21. ASSUME NEW c \in Conns, Drop(c) PROVE Placed'
    BY <2>21 DEF Drop, storageVars, streamVars, clientVars
  <2>22. ASSUME NEW c \in Conns, Close(c) PROVE Placed'
    BY <2>22 DEF Close, Task, Tasks, storageVars, streamVars, clientVars
  <2>23. CASE Rest \/ UNCHANGED vars
    BY <2>23 DEF Rest, vars, storageVars, streamVars, clientVars
  <2> QED
    BY <2>1, <2>2, <2>3, <2>4, <2>5, <2>6, <2>7, <2>8, <2>9, <2>10, <2>11, <2>12,
       <2>13, <2>14, <2>15, <2>16, <2>17, <2>18, <2>19, <2>20, <2>21, <2>22, <2>23
       DEF Next, WriterStep, WorkerStep, TaskStep, ConnStep, Tasks
<1> QED
  <2>1. TypeOK /\ [Next]_vars => TypeOK'
    BY <1>2, <1>3 DEF TypeOK
  <2> QED
    BY <1>1, <2>1, PTL DEF Spec

-----------------------------------------------------------------------------
\* Workers keep out of each other's pools and only visit pools there are.
LEMMA PoolsExclusiveStep ==
    ASSUME TypeOK, PoolsExclusive, [Next]_vars
    PROVE  PoolsExclusive'
<1> USE DEF TypeOK, Typed, Placed, PoolsExclusive
<1>1. ASSUME work' = work, told' = told, pools \subseteq pools'
      PROVE  PoolsExclusive'
  BY <1>1
<1>2. ASSUME NEW w \in Writers, NEW v \in Workers, Deliver(w, v)
      PROVE  PoolsExclusive'
  BY <1>2 DEF Deliver, streamVars, Work
<1>3. ASSUME NEW v \in Workers, RLock(v) PROVE PoolsExclusive'
  BY <1>3 DEF RLock, streamVars, Work
<1>4. ASSUME NEW v \in Workers, NEW p \in Paths, LockPool(v, p) PROVE PoolsExclusive'
  BY <1>4 DEF LockPool, PoolLocked, streamVars, Work
<1>5. ASSUME NEW v \in Workers, NEW k \in Keys, GetKey(v, k) PROVE PoolsExclusive'
  BY <1>5 DEF GetKey, streamVars, Work
<1>6. ASSUME NEW v \in Workers, Filtered(v) PROVE PoolsExclusive'
  BY <1>6 DEF Filtered, NextPool, streamVars, Work
<1>7. ASSUME NEW v \in Workers, NEW s \in BOOLEAN, Publish(v, s) PROVE PoolsExclusive'
  BY <1>7, NoneAssumption DEF Publish, NextPool, Work
<1>8. ASSUME NEW v \in Workers, RUnlock(v) PROVE PoolsExclusive'
  BY <1>8 DEF RUnlock, IdleWork, streamVars, Work
<1> QED
  BY <1>1, <1>2, <1>3, <1>4, <1>5, <1>6, <1>7, <1>8
  DEF Next, WriterStep, WorkerStep, TaskStep, ConnStep, vars, streamVars, Rest,
      Set, Del, DelGlob, DelKey, DelDone, New, Read, FetchKey, FetchDenied,
      CacheHit, CacheMiss, SetCache, WriteInitial, Drop, Close

-----------------------------------------------------------------------------
\* One lemma per kind of step for the inductive form of the lost update.

\* Steps that leave the storage, the writers, the workers and what was told
\* alone: a pool they create has been told nothing.
LEMMA LostUpdateFrame ==
    ASSUME TypeOK, PoolsExclusive, NoLostUpdate,
           UNCHANGED <<store, req, work, told>>,
           pools \subseteq pools', pools' \subseteq Paths
    PROVE  NoLostUpdate'
<1>1. \A p, k : Owed(p, k)' <=> Owed(p, k)
  BY DEF Owed
<1>2. \A p : PoolLocked(p)' <=> PoolLocked(p)
  BY DEF PoolLocked
<1>3. ToldOrOwed'
  BY <1>1, <1>2 DEF NoLostUpdate, ToldOrOwed, PoolsExclusive, TypeOK, Typed
<1>4. GotOrOwed'
  BY <1>1 DEF NoLostUpdate, GotOrOwed
<1> QED
  BY <1>3, <1>4 DEF NoLostUpdate

\* A step that changes the value of key k alone, and after which some writer
\* is under way with a path of k.
LEMMA LostUpdateStored ==
    ASSUME TypeOK, NoLostUpdate, UNCHANGED <<work, told, pools>>,
           NEW k \in Keys, NEW w \in Writers,
           \A j \in Keys \ {k} : store'[j] = store[j],
           Loud(k) => req'[w].pc # "idle" /\ k \in Covers(req'[w].path),
           \A u \in Writers : \A j \in Keys :
              Loud(j) /\ req[u].pc # "idle" /\ j \in Covers(req[u].path)
                => req'[u].pc # "idle" /\ j \in Covers(req'[u].path)
    PROVE  NoLostUpdate'
<1>1. \A p \in Paths, j \in Keys : Loud(j) /\ Owed(p, j) => Owed(p, j)'
  BY DEF Owed
<1>2. \A p \in Paths : Loud(k) => Owed(p, k)'
  BY DEF Owed
<1>3. ToldOrOwed'
  BY <1>1, <1>2 DEF NoLostUpdate, ToldOrOwed, PoolLocked, Covers, Heard, TypeOK, Typed
<1>4. GotOrOwed'
  BY <1>1, <1>2 DEF NoLostUpdate, GotOrOwed, Covers, Heard, TypeOK, Typed, Placed
<1> QED
  BY <1>3, <1>4 DEF NoLostUpdate

LEMMA LostUpdateWriters ==
    ASSUME TypeOK, NoLostUpdate, NEW w \in Writers,
           \/ \E k \in Keys : Set(w, k) \/ Del(w, k) \/ DelKey(w, k)
           \/ \E p \in Globs : DelGlob(w, p)
           \/ DelDone(w)
    PROVE  NoLostUpdate'
<1> USE DEF TypeOK, Typed, Placed
<1>1. ASSUME NEW k \in Keys, Set(w, k) PROVE NoLostUpdate'
  <2>1. k \in Covers(k) /\ k \in Paths
    BY MatchAssumption DEF Paths
  <2>2. Loud(k) => req'[w].pc # "idle" /\ k \in Covers(req'[w].path)
    BY <1>1, <2>1 DEF Set, Notify, Loud
  <2>3. UNCHANGED <<work, told, pools>> /\ \A j \in Keys \ {k} : store'[j] = store[j]
    BY <1>1 DEF Set, streamVars, Data
  <2>4. \A u \in Writers \ {w} : req'[u] = req[u]
    BY <1>1 DEF Set
  <2>5. req[w].pc = "idle"
    BY <1>1 DEF Set
  <2> QED
    BY <2>2, <2>3, <2>4, <2>5, LostUpdateStored
<1>2. ASSUME NEW k \in Keys, DelKey(w, k) PROVE NoLostUpdate'
  <2>1. req'[w].pc = req[w].pc /\ req'[w].path = req[w].path
    BY <1>2 DEF DelKey, Request
  <2>2. req[w].pc # "idle" /\ k \in Covers(req[w].path)
    BY <1>2 DEF DelKey
  <2>3. UNCHANGED <<work, told, pools>> /\ \A j \in Keys \ {k} : store'[j] = store[j]
    BY <1>2 DEF DelKey, streamVars, Data
  <2>4. \A u \in Writers \ {w} : req'[u] = req[u]
    BY <1>2 DEF DelKey
  <2> QED
    BY <2>1, <2>2, <2>3, <2>4, LostUpdateStored
<1>3. ASSUME \/ \E k \in Keys : Del(w, k)
             \/ \E p \in Globs : DelGlob(w, p)
             \/ DelDone(w)
      PROVE  NoLostUpdate'
  <2>1. \A j \in Keys : Loud(j) /\ req[w].pc # "idle" /\ j \in Covers(req[w].path)
           => req'[w].pc # "idle" /\ j \in Covers(req'[w].path)
    BY <1>3 DEF DelDone, Del, DelGlob, Notify, Loud
  <2>2. UNCHANGED <<store, work, told, pools>>
    BY <1>3 DEF DelDone, Del, DelGlob, streamVars
  <2>3. \A u \in Writers \ {w} : req'[u] = req[u]
    BY <1>3 DEF DelDone, Del, DelGlob
  <2>4. \A p \in Paths, j \in Keys : Loud(j) /\ Owed(p, j) => Owed(p, j)'
    BY <2>1, <2>2, <2>3 DEF Owed
  <2>5. ToldOrOwed'
    BY <2>2, <2>4 DEF NoLostUpdate, ToldOrOwed, PoolLocked, Covers, Heard
  <2>6. GotOrOwed'
    BY <2>2, <2>4 DEF NoLostUpdate, GotOrOwed, Covers, Heard
  <2> QED
    BY <2>5, <2>6 DEF NoLostUpdate
<1> QED
  BY <1>1, <1>2, <1>3

\* A step of workers that changes neither the storage nor what was told: what
\* is owed stays owed, and v, unless it begins to read, keeps what it had.
LEMMA LostUpdateDeliver ==
    ASSUME TypeOK, NoLostUpdate, NEW w \in Writers, NEW v \in Workers, Deliver(w, v)
    PROVE  NoLostUpdate'
<1> USE DEF TypeOK, Typed, Placed
<1>1. UNCHANGED <<store, told, pools>>
  BY DEF Deliver, streamVars
<1>2. /\ work'[v].pc = "lock" /\ work'[v].path = req[w].path
      /\ work'[v].todo = work[v].todo /\ work[v].pc = "recv"
      /\ \A u \in Workers \ {v} : work'[u] = work[u]
      /\ \A x \in Writers \ {w} : req'[x] = req[x]
  BY DEF Deliver, Work
<1>3. \A p \in Paths, k \in Keys : Owed(p, k) => Owed(p, k)'
  BY <1>2 DEF Owed
<1>4. \A p \in Paths : PoolLocked(p) => PoolLocked(p)'
  BY <1>2 DEF PoolLocked
<1>5. ToldOrOwed'
  BY <1>1, <1>3, <1>4 DEF NoLostUpdate, ToldOrOwed, Covers
<1>6. GotOrOwed'
  BY <1>1, <1>2, <1>3 DEF NoLostUpdate, GotOrOwed, Covers
<1> QED
  BY <1>5, <1>6 DEF NoLostUpdate

LEMMA LostUpdateRLock ==
    ASSUME TypeOK, PoolsExclusive, NoLostUpdate,
           NEW v \in Workers, RLock(v)
    PROVE  NoLostUpdate'
<1> USE DEF TypeOK, Typed, Placed
<1>1. UNCHANGED <<store, req, told, pools>>
  BY DEF RLock, streamVars, storageVars
<1>2. /\ work'[v].pc = "loop" /\ work[v].pc = "lock"
      /\ work'[v].todo = {p \in pools : Peer(p, work[v].path)}
      /\ \A u \in Workers \ {v} : work'[u] = work[u]
  BY DEF RLock, Work
<1>3. work[v].path \in Paths /\ work[v].todo \subseteq pools
  BY <1>2 DEF PoolsExclusive
<1>4. ASSUME NEW p \in pools, NEW k \in Covers(p), Heard(p, k), Owed(p, k) PROVE Owed(p, k)'
  <2>1. CASE k \in Covers(work[v].path)
    <3>1. Peer(p, work[v].path)
      BY <1>3, <1>4, <2>1 DEF Heard
    <3> QED
      BY <1>2, <3>1 DEF Owed
  <2>2. CASE k \notin Covers(work[v].path)
    <3>1. work[v].todo = {}
      BY <1>2 DEF PoolsExclusive
    <3> QED
      BY <1>1, <1>2, <1>4, <2>2, <3>1 DEF Owed
  <2> QED
    BY <2>1, <2>2
<1>5. \A p \in Paths : PoolLocked(p) => PoolLocked(p)'
  BY <1>2 DEF PoolLocked
<1>6. ToldOrOwed'
  BY <1>1, <1>4, <1>5 DEF NoLostUpdate, ToldOrOwed, Covers
<1>7. GotOrOwed'
  BY <1>1, <1>2, <1>4 DEF NoLostUpdate, GotOrOwed, Covers, PoolsExclusive
<1> QED
  BY <1>6, <1>7 DEF NoLostUpdate

LEMMA LostUpdateLockPool ==
    ASSUME TypeOK, PoolsExclusive, NoLostUpdate,
           NEW v \in Workers, NEW q \in Paths, LockPool(v, q)
    PROVE  NoLostUpdate'
<1> USE DEF TypeOK, Typed, Placed
<1>1. UNCHANGED <<store, req, told, pools>>
  BY DEF LockPool, streamVars, storageVars
<1>2. /\ work'[v].pc = "get" /\ work'[v].pool = q /\ work'[v].left = Covers(q)
      /\ work'[v].todo = work[v].todo \ {q} /\ work[v].pc = "loop"
      /\ \A u \in Workers \ {v} : work'[u] = work[u]
  BY DEF LockPool, Work
<1>3. ASSUME NEW p \in Paths, NEW k \in Covers(p), Owed(p, k) PROVE Owed(p, k)'
  <2>1. CASE p = q
    BY <1>2, <2>1 DEF Owed
  <2>2. CASE p # q
    <3>1. work'[v].pc # "lock" /\ work[v].pc # "lock" /\ work[v].pc # "get"
      BY <1>2
    <3>2. p \in work[v].todo => p \in work'[v].todo
      BY <1>2, <2>2
    <3> QED
      BY <1>1, <1>2, <1>3, <3>1, <3>2 DEF Owed
  <2> QED
    BY <2>1, <2>2
<1>4. \A p \in Paths : PoolLocked(p) => PoolLocked(p)'
  BY <1>2 DEF PoolLocked
<1>5. ToldOrOwed'
  BY <1>1, <1>3, <1>4 DEF NoLostUpdate, ToldOrOwed, Covers
<1>6. GotOrOwed'
  BY <1>1, <1>2, <1>3 DEF NoLostUpdate, GotOrOwed, Covers
<1> QED
  BY <1>5, <1>6 DEF NoLostUpdate

LEMMA LostUpdateGetKey ==
    ASSUME TypeOK, PoolsExclusive, NoLostUpdate,
           NEW v \in Workers, NEW j \in Keys, GetKey(v, j)
    PROVE  NoLostUpdate'
<1> USE DEF TypeOK, Typed, Placed
<1>1. UNCHANGED <<store, req, told, pools>>
  BY DEF GetKey, streamVars, storageVars
<1>2. /\ work'[v].pc = "get" /\ work[v].pc = "get" /\ work'[v].pool = work[v].pool
      /\ work'[v].left = work[v].left \ {j} /\ work'[v].todo = work[v].todo
      /\ work'[v].got[j] = store[j]
      /\ \A k \in Keys \ {j} : work'[v].got[k] = work[v].got[k]
      /\ \A u \in Workers \ {v} : work'[u] = work[u]
  <2>1. work[v] \in Work
    OBVIOUS
  <2>2. work'[v] = [work[v] EXCEPT !.left = @ \ {j}, !.got[j] = store[j]]
    BY DEF GetKey
  <2>3. work'[v].got = [work[v].got EXCEPT ![j] = store[j]]
    BY <2>1, <2>2 DEF Work
  <2>4. DOMAIN work[v].got = Keys
    BY <2>1 DEF Work, Data
  <2>5. \A u \in Workers \ {v} : work'[u] = work[u]
    BY DEF GetKey
  <2>6. /\ work'[v].pc = work[v].pc /\ work'[v].pool = work[v].pool
        /\ work'[v].left = work[v].left \ {j} /\ work'[v].todo = work[v].todo
    BY <2>1, <2>2 DEF Work
  <2>7. work[v].pc = "get"
    BY DEF GetKey
  <2> QED
    BY <2>3, <2>4, <2>5, <2>6, <2>7
<1>3. \A p \in Paths, k \in Keys : Owed(p, k) /\ ~(p = work[v].pool /\ k = j)
         => Owed(p, k)'
  <2> SUFFICES ASSUME NEW p \in Paths, NEW k \in Keys, Owed(p, k),
                      ~(p = work[v].pool /\ k = j)
               PROVE  Owed(p, k)'
    OBVIOUS
  <2>1. CASE \E w \in Writers : req[w].pc # "idle" /\ k \in Covers(req[w].path)
    BY <1>1, <2>1 DEF Owed, Covers
  <2>2. CASE \E u \in Workers : work[u].pc = "lock" /\ k \in Covers(work[u].path)
    BY <1>2, <2>2 DEF Owed, Covers
  <2>3. CASE \E u \in Workers : p \in work[u].todo
    BY <1>2, <2>3 DEF Owed
  <2>4. CASE \E u \in Workers :
                work[u].pc = "get" /\ work[u].pool = p /\ k \in work[u].left
    BY <1>2, <2>4 DEF Owed
  <2> QED
    BY <2>1, <2>2, <2>3, <2>4 DEF Owed
<1>4. \A p \in Paths : PoolLocked(p) => PoolLocked(p)'
  BY <1>2 DEF PoolLocked
<1>5. \A p \in Paths : p = work[v].pool => PoolLocked(p)'
  BY <1>2 DEF PoolLocked
<1>6. ToldOrOwed'
  <2> SUFFICES ASSUME NEW p \in pools' \ Denied, NEW k \in Covers(p),
                      Heard(p, k), told'[p] # None
               PROVE  told'[p][k] = store'[k] \/ Owed(p, k)' \/ PoolLocked(p)'
    BY DEF ToldOrOwed, Covers, Heard, Loud, Silent, Peer, Match
  <2>1. p \in Paths /\ k \in Keys
    BY <1>1 DEF Covers
  <2>2. told[p][k] = store[k] \/ Owed(p, k) \/ PoolLocked(p)
    BY <1>1 DEF NoLostUpdate, ToldOrOwed
  <2> QED
    BY <1>1, <1>3, <1>4, <1>5, <2>1, <2>2
<1>7. ASSUME NEW u \in Workers, work'[u].pc = "get",
             NEW k \in Covers(work'[u].pool) \ work'[u].left, Heard(work'[u].pool, k)
      PROVE  work'[u].got[k] = store'[k] \/ Owed(work[u].pool, k)'
  <2>1. k \in Keys
    BY DEF Covers
  <2>2. CASE u = v /\ k = j
    BY <1>1, <1>2, <2>2
  <2>3. CASE u = v /\ k # j
    BY <1>1, <1>2, <1>3, <1>7, <2>1, <2>3 DEF NoLostUpdate, GotOrOwed
  <2>4. CASE u # v
    <3>1. work[u].pool # work[v].pool
      BY <1>2, <1>7, <2>4 DEF PoolsExclusive
    <3> QED
      BY <1>1, <1>2, <1>3, <1>7, <2>1, <2>4, <3>1 DEF NoLostUpdate, GotOrOwed
  <2> QED
    BY <2>2, <2>3, <2>4
<1>8. GotOrOwed'
  BY <1>7 DEF GotOrOwed, Covers, Heard, Loud, Silent, Peer, Match
<1> QED
  BY <1>6, <1>8 DEF NoLostUpdate

LEMMA LostUpdateFiltered ==
    ASSUME TypeOK, PoolsExclusive, NoLostUpdate, NEW v \in Workers, Filtered(v)
    PROVE  NoLostUpdate'
<1> USE DEF TypeOK, Typed, Placed
<1>1. UNCHANGED <<store, req, told, pools>>
  BY DEF Filtered, streamVars, storageVars
<1>2. /\ work'[v].pc = "loop" /\ work'[v].todo = work[v].todo
      /\ work[v].pc = "get" /\ work[v].left = {} /\ work[v].pool \in Denied
      /\ \A u \in Workers \ {v} : work'[u] = work[u]
  BY DEF Filtered, NextPool, Work
<1>3. \A p \in Paths, k \in Keys : Owed(p, k) => Owed(p, k)'
  BY <1>1, <1>2 DEF Owed
<1>4. \A p \in Paths \ Denied : PoolLocked(p) => PoolLocked(p)'
  BY <1>2 DEF PoolLocked
<1>5. ToldOrOwed'
  BY <1>1, <1>3, <1>4 DEF NoLostUpdate, ToldOrOwed, Covers
<1>6. GotOrOwed'
  BY <1>1, <1>2, <1>3 DEF NoLostUpdate, GotOrOwed, Covers
<1> QED
  BY <1>5, <1>6 DEF NoLostUpdate

LEMMA LostUpdatePublish ==
    ASSUME TypeOK, PoolsExclusive, NoLostUpdate,
           NEW v \in Workers, NEW s \in BOOLEAN, Publish(v, s)
    PROVE  NoLostUpdate'
<1> USE DEF TypeOK, Typed, Placed
<1> DEFINE q == work[v].pool
<1>1. /\ UNCHANGED <<store, req, pools>>
      /\ told' = [told EXCEPT ![q] = work[v].got]
  BY DEF Publish, streamVars, storageVars
<1>2. /\ work'[v].pc = "loop" /\ work'[v].todo = work[v].todo
      /\ work[v].pc = "get" /\ work[v].left = {} /\ q \in Paths
      /\ \A u \in Workers \ {v} : work'[u] = work[u]
  BY DEF Publish, NextPool, Work
<1>3. \A p \in Paths, k \in Keys : Owed(p, k) => Owed(p, k)'
  BY <1>1, <1>2 DEF Owed
<1>4. \A p \in Paths \ {q} : PoolLocked(p) => PoolLocked(p)'
  BY <1>2 DEF PoolLocked
<1>5. ASSUME NEW p \in pools \ Denied, NEW k \in Covers(p), Heard(p, k), told'[p] # None
      PROVE  told'[p][k] = store[k] \/ Owed(p, k)' \/ PoolLocked(p)'
  <2>1. p \in Paths /\ k \in Keys
    BY DEF Covers
  <2>2. CASE p = q
    <3>1. work[v].got[k] = store[k] \/ Owed(q, k)
      BY <1>2, <1>5, <2>2 DEF NoLostUpdate, GotOrOwed
    <3> QED
      BY <1>1, <1>2, <1>3, <2>1, <2>2, <3>1
  <2>3. CASE p # q
    <3>1. told'[p] = told[p]
      BY <1>1, <2>1, <2>3
    <3>2. told[p][k] = store[k] \/ Owed(p, k) \/ PoolLocked(p)
      BY <1>5, <3>1 DEF NoLostUpdate, ToldOrOwed
    <3> QED
      BY <1>3, <1>4, <2>1, <2>3, <3>1, <3>2
  <2> QED
    BY <2>2, <2>3
<1>6. ToldOrOwed'
  BY <1>1, <1>5 DEF ToldOrOwed, Covers, Heard, Loud, Silent, Peer, Match
<1>7. GotOrOwed'
  BY <1>1, <1>2, <1>3 DEF NoLostUpdate, GotOrOwed, Covers
<1> QED
  BY <1>6, <1>7 DEF NoLostUpdate

LEMMA LostUpdateRUnlock ==
    ASSUME TypeOK, PoolsExclusive, NoLostUpdate, NEW v \in Workers, RUnlock(v)
    PROVE  NoLostUpdate'
<1> USE DEF TypeOK, Typed, Placed
<1>1. UNCHANGED <<store, req, told, pools>>
  BY DEF RUnlock, streamVars, storageVars
<1>2. /\ work'[v].pc = "recv" /\ work'[v].todo = {}
      /\ work[v].pc = "loop" /\ work[v].todo = {}
      /\ \A u \in Workers \ {v} : work'[u] = work[u]
  BY DEF RUnlock, IdleWork, Work
<1>3. \A p \in Paths, k \in Keys : Owed(p, k) => Owed(p, k)'
  BY <1>1, <1>2 DEF Owed
<1>4. \A p \in Paths : PoolLocked(p) => PoolLocked(p)'
  BY <1>2 DEF PoolLocked
<1>5. ToldOrOwed'
  BY <1>1, <1>3, <1>4 DEF NoLostUpdate, ToldOrOwed, Covers
<1>6. GotOrOwed'
  BY <1>1, <1>2, <1>3 DEF NoLostUpdate, GotOrOwed, Covers
<1> QED
  BY <1>5, <1>6 DEF NoLostUpdate

-----------------------------------------------------------------------------
\* The inductive invariant: types, exclusion of the workers, no lost update.
LEMMA Inductive == Spec => [](TypeOK /\ PoolsExclusive /\ NoLostUpdate)
<1>1. Init => PoolsExclusive /\ NoLostUpdate
  BY DEF Init, PoolsExclusive, NoLostUpdate, ToldOrOwed, GotOrOwed, IdleWork
<1>2. ASSUME TypeOK, TypeOK', PoolsExclusive, NoLostUpdate, [Next]_vars
      PROVE  NoLostUpdate'
  <2> USE <1>2
  <2>1. ASSUME NEW w \in Writers, WriterStep(w) PROVE NoLostUpdate'
    BY <2>1, LostUpdateWriters, LostUpdateDeliver DEF WriterStep
  <2>2. ASSUME NEW v \in Workers, WorkerStep(v) PROVE NoLostUpdate'
    BY <2>2, LostUpdateRLock, LostUpdateLockPool, LostUpdateGetKey,
       LostUpdateFiltered, LostUpdatePublish, LostUpdateRUnlock DEF WorkerStep
  <2>3. pools' \subseteq Paths
    BY DEF TypeOK, Typed
  <2>4. ASSUME NEW t \in Tasks, TaskStep(t) PROVE NoLostUpdate'
    BY <2>3, <2>4, LostUpdateFrame
    DEF TaskStep, FetchKey, FetchDenied, CacheHit, CacheMiss, SetCache,
        storageVars, streamVars
  <2>5. ASSUME NEW c \in Conns, ConnStep(c) \/ Drop(c) PROVE NoLostUpdate'
    BY <2>3, <2>5, LostUpdateFrame
    DEF ConnStep, WriteInitial, Close, Drop, storageVars, streamVars
  <2>6. ASSUME NEW c \in Conns, NEW p \in Paths, NEW d \in Conns, New(c, p, d)
        PROVE  NoLostUpdate'
    BY <2>3, <2>6, LostUpdateFrame DEF New, storageVars, streamVars
  <2>7. ASSUME NEW r \in Readers, NEW p \in Paths, Read(r, p) PROVE NoLostUpdate'
    BY <2>3, <2>7, LostUpdateFrame DEF Read, storageVars, streamVars
  <2>8. CASE Rest \/ UNCHANGED vars
    BY <2>3, <2>8, LostUpdateFrame DEF Rest, vars
  <2> QED
    BY <2>1, <2>2, <2>4, <2>5, <2>6, <2>7, <2>8 DEF Next
<1>3. TypeOK /\ TypeOK' /\ PoolsExclusive /\ NoLostUpdate /\ [Next]_vars
         => PoolsExclusive' /\ NoLostUpdate'
  BY <1>2, PoolsExclusiveStep
<1> QED
  BY <1>1, <1>3, TypeCorrect, PTL DEF Spec

\* Two broadcasts of one pool never overlap, whatever the workers.
THEOREM BroadcastsExclude == Spec => []PoolsExclusive
<1>1. Init => PoolsExclusive
  BY DEF Init, PoolsExclusive, IdleWork
<1>2. TypeOK /\ PoolsExclusive /\ [Next]_vars => PoolsExclusive'
  BY PoolsExclusiveStep
<1> QED
  BY <1>1, <1>2, TypeCorrect, PTL DEF Spec

\* No interleaving of writes, broadcasts and handshakes loses an update.
THEOREM NothingLost == Spec => []NoLostUpdate
BY Inductive, PTL

\* Of which keys that is said: a pool that is a key hears of it, and a glob of each
\* of its keys that no other glob has which is not its peer (key.go Peer).
THEOREM PoolsHear ==
    ASSUME NEW p \in Paths, NEW k \in Covers(p), Loud(k)
    PROVE  /\ p \in Keys => Heard(p, k)
           /\ (\A q \in Globs : k \in Covers(q) => Peer(p, q)) => Heard(p, k)
<1>1. k \in Keys /\ Match(p, k)
  BY DEF Covers
<1>2. ASSUME NEW q \in Keys, k \in Covers(q) PROVE Peer(p, q)
  BY <1>1, <1>2, MatchAssumption DEF Peer
<1>3. ASSUME p \in Keys, NEW q \in Paths, k \in Covers(q) PROVE Peer(p, q)
  <2>1. k = p /\ Match(q, k)
    BY <1>3, MatchAssumption DEF Covers
  <2> QED
    BY <2>1 DEF Peer
<1> QED
  BY <1>2, <1>3 DEF Heard, Paths

\* At rest the last broadcast of every pool carried what the storage holds.
THEOREM RestIsCurrent == Spec => []ToldIsCurrent
<1>1. ASSUME PoolsExclusive, NoLostUpdate PROVE ToldIsCurrent
  <2> SUFFICES ASSUME Quiet, NEW p \in pools \ Denied, told[p] # None,
                      NEW k \in Covers(p), Heard(p, k)
               PROVE  told[p][k] = store[k]
    BY DEF ToldIsCurrent, Current
  <2>1. ~Owed(p, k) /\ ~PoolLocked(p)
    BY <1>1 DEF Quiet, Owed, PoolLocked, PoolsExclusive
  <2> QED
    BY <1>1, <2>1 DEF NoLostUpdate, ToldOrOwed
<1> QED
  BY <1>1, Inductive, PTL

-----------------------------------------------------------------------------
(***************************************************************************)
(* Broadcasts do not go back: a key that is there holds a value at least   *)
(* as recent as any that was told or read of it, and what a worker has     *)
(* read for a pool is at least as recent as what the pool was last told.   *)
(***************************************************************************)
Recent ==
    /\ \A k \in Keys : store[k] <= writes
    /\ \A p \in Paths, k \in Keys : told[p] # None =>
          /\ told[p][k] <= writes
          /\ store[k] # 0 => told[p][k] <= store[k]
    /\ \A v \in Workers, k \in Keys :
          /\ work[v].got[k] <= writes
          /\ store[k] # 0 => work[v].got[k] <= store[k]
    /\ \A v \in Workers : work[v].pc # "get" => work[v].got = Absent
    /\ \A v \in Workers, p \in Paths, k \in Keys :
          work[v].pc = "get" /\ work[v].pool = p /\ told[p] # None /\ work[v].got[k] # 0
             => told[p][k] <= work[v].got[k]

\* A step that leaves the storage, the workers and what was told alone.
LEMMA RecentFrame ==
    ASSUME Recent, UNCHANGED <<store, writes, work, told>>
    PROVE  Recent'
BY DEF Recent

\* A step that gives one key the number of the newest write, or none at all.
LEMMA RecentStored ==
    ASSUME TypeOK, Recent, UNCHANGED <<work, told>>,
           writes' \in {writes, writes + 1},
           \A k \in Keys : store'[k] \in {store[k], 0}
                             \/ (store'[k] = writes + 1 /\ writes' = writes + 1)
    PROVE  Recent'
<1> USE DEF TypeOK, Typed, Data
<1>1. writes \in Nat /\ writes' \in Nat /\ writes <= writes'
  OBVIOUS
<1>2. \A k \in Keys : store'[k] <= writes'
  BY <1>1 DEF Recent
<1>3. ASSUME NEW n \in Nat, NEW k \in Keys, n <= writes, store[k] # 0 => n <= store[k]
      PROVE  n <= writes' /\ (store'[k] # 0 => n <= store'[k])
  BY <1>1, <1>3
<1>4. ASSUME NEW p \in Paths, NEW k \in Keys, told[p] # None
      PROVE  told[p][k] <= writes' /\ (store'[k] # 0 => told[p][k] <= store'[k])
  <2>1. told[p][k] \in Nat
    BY <1>4
  <2> QED
    BY <1>3, <1>4, <2>1 DEF Recent
<1>5. ASSUME NEW v \in Workers, NEW k \in Keys
      PROVE  /\ work[v].got[k] <= writes'
             /\ store'[k] # 0 => work[v].got[k] <= store'[k]
  <2>1. work[v].got[k] \in Nat
    BY DEF Work
  <2> QED
    BY <1>3, <2>1 DEF Recent
<1> QED
  BY <1>2, <1>4, <1>5 DEF Recent

\* A step of one worker that leaves it with nothing read.
LEMMA RecentReset ==
    ASSUME TypeOK, Recent, UNCHANGED <<store, writes, told>>,
           NEW v \in Workers, work'[v].got = Absent,
           \A u \in Workers \ {v} : work'[u] = work[u]
    PROVE  Recent'
<1> USE DEF TypeOK, Typed, Data
<1>1. \A k \in Keys : work'[v].got[k] = 0
  BY DEF Absent
<1>2. \A u \in Workers, k \in Keys :
         work'[u].got[k] <= writes /\ (store[k] # 0 => work'[u].got[k] <= store[k])
  <2> TAKE u \in Workers, k \in Keys
  <2>1. CASE u = v
    BY <1>1, <2>1
  <2>2. CASE u # v
    BY <2>2 DEF Recent
  <2> QED
    BY <2>1, <2>2
<1>3. \A u \in Workers : work'[u].pc # "get" => work'[u].got = Absent
  BY DEF Recent
<1>4. \A u \in Workers, p \in Paths, k \in Keys :
         work'[u].pc = "get" /\ work'[u].pool = p /\ told[p] # None
            /\ work'[u].got[k] # 0
         => told[p][k] <= work'[u].got[k]
  BY <1>1 DEF Recent
<1> QED
  BY <1>2, <1>3, <1>4 DEF Recent

LEMMA RecentWorkers ==
    ASSUME TypeOK, PoolsExclusive, Recent, NEW v \in Workers, WorkerStep(v)
    PROVE  Recent'
<1> USE DEF TypeOK, Typed, Data
<1>1. ASSUME RLock(v) \/ RUnlock(v) \/ \E p \in Paths : LockPool(v, p)
      PROVE  Recent'
  <2>1. UNCHANGED <<store, writes, told>>
    BY <1>1 DEF RLock, RUnlock, LockPool, storageVars
  <2>2. \A u \in Workers \ {v} : work'[u] = work[u]
    BY <1>1 DEF RLock, RUnlock, LockPool
  <2>3. work[v].got = Absent
    BY <1>1 DEF RLock, RUnlock, LockPool, Recent
  <2>4. RUnlock(v) => work'[v].got = Absent
    BY DEF RUnlock, IdleWork
  <2>5. RLock(v) => work'[v].got = work[v].got
    BY DEF RLock, Work
  <2>6. \A p \in Paths : LockPool(v, p) => work'[v].got = work[v].got
    BY DEF LockPool, Work
  <2>7. work'[v].got = Absent
    BY <1>1, <2>3, <2>4, <2>5, <2>6
  <2> QED
    BY <2>1, <2>2, <2>7, RecentReset
<1>2. ASSUME NEW j \in Keys, GetKey(v, j) PROVE Recent'
  <2>1. UNCHANGED <<store, writes, told>>
    BY <1>2 DEF GetKey, storageVars
  <2>2. /\ work'[v].pc = "get" /\ work[v].pc = "get" /\ work'[v].pool = work[v].pool
        /\ work'[v].got[j] = store[j]
        /\ \A k \in Keys \ {j} : work'[v].got[k] = work[v].got[k]
        /\ \A u \in Workers \ {v} : work'[u] = work[u]
    BY <1>2 DEF GetKey, Work
  <2>3. \A u \in Workers, k \in Keys :
           work'[u].got[k] <= writes /\ (store[k] # 0 => work'[u].got[k] <= store[k])
    <3> TAKE u \in Workers, k \in Keys
    <3>1. CASE u = v /\ k = j
      BY <2>2, <3>1 DEF Recent
    <3>2. CASE u # v \/ k # j
      BY <2>2, <3>2 DEF Recent
    <3> QED
      BY <3>1, <3>2
  <2>4. \A u \in Workers : work'[u].pc # "get" => work'[u].got = Absent
    BY <2>2 DEF Recent
  <2>5. \A u \in Workers, p \in Paths, k \in Keys :
           work'[u].pc = "get" /\ work'[u].pool = p /\ told[p] # None
              /\ work'[u].got[k] # 0
           => told[p][k] <= work'[u].got[k]
    <3> TAKE u \in Workers, p \in Paths, k \in Keys
    <3>1. CASE u = v /\ k = j
      BY <2>2, <3>1 DEF Recent
    <3>2. CASE u # v \/ k # j
      BY <2>2, <3>2 DEF Recent
    <3> QED
      BY <3>1, <3>2
  <2> QED
    BY <2>1, <2>3, <2>4, <2>5 DEF Recent
<1>3. ASSUME Filtered(v) PROVE Recent'
  <2>1. UNCHANGED <<store, writes, told>>
    BY <1>3 DEF Filtered, storageVars
  <2>2. /\ work'[v].pc = "loop" /\ work'[v].got = Absent
        /\ \A u \in Workers \ {v} : work'[u] = work[u]
    BY <1>3 DEF Filtered, NextPool, Work
  <2> QED
    BY <2>1, <2>2, RecentReset
<1>4. ASSUME NEW s \in BOOLEAN, Publish(v, s) PROVE Recent'
  <2> DEFINE q == work[v].pool
  <2>1. UNCHANGED <<store, writes>> /\ told' = [told EXCEPT ![q] = work[v].got]
    BY <1>4 DEF Publish, storageVars
  <2>2. /\ work'[v].pc = "loop" /\ work'[v].got = Absent
        /\ work[v].pc = "get" /\ work[v].got \in Data
        /\ \A u \in Workers \ {v} : work'[u] = work[u]
    BY <1>4 DEF Publish, NextPool, Work
  <2>3. \A u \in Workers \ {v} : work[u].pc = "get" => work[u].pool # q
    BY <2>2 DEF PoolsExclusive
  <2>4. \A p \in Paths : told'[p] = IF p = q THEN work[v].got ELSE told[p]
    BY <2>1
  <2>5. \A p \in Paths, k \in Keys : told'[p] # None =>
           told'[p][k] <= writes /\ (store[k] # 0 => told'[p][k] <= store[k])
    BY <2>4 DEF Recent
  <2>6. \A u \in Workers, k \in Keys :
           work'[u].got[k] <= writes /\ (store[k] # 0 => work'[u].got[k] <= store[k])
    <3> TAKE u \in Workers, k \in Keys
    <3>1. CASE u = v
      BY <2>2, <3>1 DEF Absent
    <3>2. CASE u # v
      BY <2>2, <3>2 DEF Recent
    <3> QED
      BY <3>1, <3>2
  <2>7. \A u \in Workers : work'[u].pc # "get" => work'[u].got = Absent
    BY <2>2 DEF Recent
  <2>8. \A u \in Workers, p \in Paths, k \in Keys :
           work'[u].pc = "get" /\ work'[u].pool = p /\ told'[p] # None
              /\ work'[u].got[k] # 0
           => told'[p][k] <= work'[u].got[k]
    <3> TAKE u \in Workers, p \in Paths, k \in Keys
    <3>1. CASE u = v
      BY <2>2, <3>1
    <3>2. CASE u # v
      <4>1. work'[u] = work[u]
        BY <2>2, <3>2
      <4>2. CASE p = q
        BY <2>3, <3>2, <4>1, <4>2
      <4>3. CASE p # q
        BY <2>4, <4>1, <4>3 DEF Recent
      <4> QED
        BY <4>2, <4>3
    <3> QED
      BY <3>1, <3>2
  <2> QED
    BY <2>1, <2>5, <2>6, <2>7, <2>8 DEF Recent
<1> QED
  BY <1>1, <1>2, <1>3, <1>4 DEF WorkerStep

\* The broadcasts of a pool never go back to an older value of a key.
THEOREM NeverStale == Spec => NoStaleBroadcast
<1>1. Init => Recent
  BY DEF Init, Recent, IdleWork, Absent
<1>2. TypeOK /\ PoolsExclusive /\ Recent /\ [Next]_vars => Recent'
  <2> SUFFICES ASSUME TypeOK, PoolsExclusive, Recent, [Next]_vars
               PROVE  Recent'
    OBVIOUS
  <2>1. ASSUME NEW w \in Writers, NEW v \in Workers, Deliver(w, v) PROVE Recent'
    <3>1. UNCHANGED <<store, writes, told>>
      BY <2>1 DEF Deliver
    <3>2. /\ work'[v].pc = "lock" /\ work[v].pc = "recv"
          /\ work'[v].got = work[v].got
          /\ \A u \in Workers \ {v} : work'[u] = work[u]
      BY <2>1 DEF Deliver, TypeOK, Typed, Work
    <3> QED
      BY <3>1, <3>2 DEF Recent
  <2>2. ASSUME NEW w \in Writers,
               \/ \E k \in Keys : Set(w, k) \/ Del(w, k) \/ DelKey(w, k)
               \/ \E p \in Globs : DelGlob(w, p)
               \/ DelDone(w)
        PROVE  Recent'
    BY <2>2, RecentStored DEF Set, Del, DelKey, DelGlob, DelDone, TypeOK, Typed, Data
  <2>3. ASSUME NEW v \in Workers, WorkerStep(v) PROVE Recent'
    BY <2>3, RecentWorkers
  <2>4. ASSUME UNCHANGED <<store, writes, work, told>> PROVE Recent'
    BY <2>4, RecentFrame
  <2> QED
    BY <2>1, <2>2, <2>3, <2>4
    DEF Next, WriterStep, TaskStep, ConnStep, vars, storageVars, Rest, New, Read,
        FetchKey, FetchDenied, CacheHit, CacheMiss, SetCache, WriteInitial, Drop,
        Close
<1>3. TypeOK /\ PoolsExclusive /\ Recent /\ [Next]_vars =>
         [\A p \in Paths, k \in Keys :
             told[p] # None /\ told'[p] # None /\ told'[p][k] # 0
                => told'[p][k] >= told[p][k]]_vars
  <2> SUFFICES ASSUME TypeOK, Recent, [Next]_vars,
                      NEW p \in Paths, NEW k \in Keys,
                      told[p] # None, told'[p] # None, told'[p][k] # 0
               PROVE  told'[p][k] >= told[p][k]
    OBVIOUS
  <2>0. told[p][k] \in Nat
    BY DEF TypeOK, Typed, Data
  <2>1. ASSUME NEW v \in Workers, NEW s \in BOOLEAN, Publish(v, s)
        PROVE  told'[p][k] >= told[p][k]
    <3>1. told'[p] = IF p = work[v].pool THEN work[v].got ELSE told[p]
      BY <2>1 DEF Publish, TypeOK, Typed
    <3>2. work[v].pc = "get" /\ work[v].got[k] \in Nat
      BY <2>1 DEF Publish, TypeOK, Typed, Work, Data
    <3> QED
      BY <2>0, <3>1, <3>2 DEF Recent
  <2>2. ASSUME UNCHANGED told PROVE told'[p][k] >= told[p][k]
    BY <2>0, <2>2
  <2> QED
    BY <2>1, <2>2
    DEF Next, WriterStep, WorkerStep, TaskStep, ConnStep, vars, Rest, Set, Del,
        DelGlob, DelKey, DelDone, Deliver, RLock, LockPool, GetKey, Filtered,
        RUnlock, New, Read, FetchKey, FetchDenied, CacheHit, CacheMiss, SetCache,
        WriteInitial, Drop, Close
<1> QED
  BY <1>1, <1>2, <1>3, TypeCorrect, BroadcastsExclude, PTL DEF Spec, NoStaleBroadcast

-----------------------------------------------------------------------------
(***************************************************************************)
(* Connections and their clients.                                          *)
(***************************************************************************)
\* A step that moves no connection into a pool or out of it.
LEMMA RegisteredFrame ==
    ASSUME RegisteredWhileServed, UNCHANGED connections,
           \A c \in Conns :
              \/ task'[c] = task[c]
              \/ /\ {task[c].pc, task'[c].pc} \cap {"idle", "closed"} = {}
                 /\ task'[c].path = task[c].path
    PROVE  RegisteredWhileServed'
BY DEF RegisteredWhileServed

\* What a step of a handler leaves of it.
LEMMA HandlerKeeps ==
    ASSUME TypeOK, NEW t \in Tasks, TaskStep(t)
    PROVE  /\ \A c \in Conns \ {t} : task'[c] = task[c]
           /\ t \in Conns => /\ {task[t].pc, task'[t].pc} \cap {"idle", "closed"} = {}
                             /\ task'[t].path = task[t].path
           /\ UNCHANGED <<connections, client>>
<1> USE DEF TypeOK, Typed, Tasks
<1>1. task[t] \in Task
  OBVIOUS
<1>2. ASSUME NEW k \in Keys, FetchKey(t, k)
      PROVE  task'[t].pc = "get" /\ task'[t].path = task[t].path /\ task[t].pc = "get"
  BY <1>1, <1>2 DEF FetchKey, Task
<1>3. CASE FetchDenied(t)
  BY <1>1, <1>3 DEF FetchDenied, Fetched, Task, streamVars
<1>4. ASSUME NEW n, Reply(t, n), t \in Conns
      PROVE  task'[t].pc = "live" /\ task'[t].path = task[t].path
  BY <1>1, <1>4 DEF Reply, Task
<1>5. ASSUME NEW n, Reply(t, n) PROVE \A c \in Conns \ {t} : task'[c] = task[c]
  BY <1>5 DEF Reply
<1>6. CASE CacheHit(t)
  BY <1>4, <1>5, <1>6 DEF CacheHit, Fetched, streamVars
<1>7. CASE CacheMiss(t)
  BY <1>1, <1>7 DEF CacheMiss, Fetched, Task, streamVars
<1>8. CASE SetCache(t)
  BY <1>4, <1>5, <1>8 DEF SetCache
<1>9. ASSUME NEW k \in Keys, FetchKey(t, k)
      PROVE  UNCHANGED <<connections, client>> /\ \A c \in Conns \ {t} : task'[c] = task[c]
  BY <1>9 DEF FetchKey, streamVars
<1> QED
  BY <1>2, <1>3, <1>6, <1>7, <1>8, <1>9 DEF TaskStep

LEMMA RegisteredStep ==
    ASSUME TypeOK, RegisteredWhileServed, [Next]_vars
    PROVE  RegisteredWhileServed'
<1> USE DEF TypeOK, Typed, Tasks
<1>1. ASSUME NEW c \in Conns, NEW d \in Conns, NEW q \in Paths, New(c, q, d)
      PROVE  RegisteredWhileServed'
  <2>1. /\ task[c].pc = "idle" /\ task'[c].pc = "get" /\ task'[c].path = q
        /\ \A e \in Conns \ {c} : task'[e] = task[e]
    BY <1>1 DEF New
  <2>2. /\ connections'[q] = connections[q] \cup {c}
        /\ \A p \in Paths \ {q} : connections'[p] = connections[p]
    BY <1>1 DEF New
  <2> QED
    BY <2>1, <2>2 DEF RegisteredWhileServed
<1>2. ASSUME NEW c \in Conns, Close(c) PROVE RegisteredWhileServed'
  <2> DEFINE q == task[c].path
  <2>1. /\ task[c].pc = "live" /\ task'[c].pc = "closed" /\ q \in Paths
        /\ \A e \in Conns \ {c} : task'[e] = task[e]
    BY <1>2 DEF Close, Placed, Task
  <2>2. /\ connections'[q] = connections[q] \ {c}
        /\ \A p \in Paths \ {q} : connections'[p] = connections[p]
    BY <1>2, <2>1 DEF Close
  <2> QED
    BY <2>1, <2>2 DEF RegisteredWhileServed
<1>3. ASSUME NEW t \in Tasks, TaskStep(t) PROVE RegisteredWhileServed'
  BY <1>3, HandlerKeeps, RegisteredFrame
<1>4. ASSUME NEW r \in Readers, NEW p \in Paths, Read(r, p) PROVE RegisteredWhileServed'
  <2>1. \A c \in Conns : c # r
    BY ConstantsAssumption
  <2> QED
    BY <1>4, <2>1, RegisteredFrame DEF Read, streamVars
<1>5. ASSUME UNCHANGED <<connections, task>> PROVE RegisteredWhileServed'
  BY <1>5, RegisteredFrame
<1>6. ASSUME NEW w \in Writers, WriterStep(w) PROVE RegisteredWhileServed'
  BY <1>5, <1>6 DEF WriterStep, Set, Del, DelGlob, DelKey, DelDone, Deliver, streamVars, clientVars
<1>7. ASSUME NEW v \in Workers, WorkerStep(v) PROVE RegisteredWhileServed'
  BY <1>5, <1>7
  DEF WorkerStep, RLock, LockPool, GetKey, Filtered, Publish, RUnlock, streamVars, clientVars
<1>8. ASSUME NEW c \in Conns, WriteInitial(c) \/ Drop(c) PROVE RegisteredWhileServed'
  BY <1>5, <1>8 DEF WriteInitial, Drop, streamVars
<1>9. CASE Rest \/ UNCHANGED vars
  BY <1>5, <1>9 DEF Rest, vars
<1> QED
  BY <1>1, <1>2, <1>3, <1>4, <1>6, <1>7, <1>8, <1>9 DEF Next, ConnStep

\* A connection is in the pool of its path, and nowhere else, as long as it is
\* served.
THEOREM ServedIsRegistered == Spec => []RegisteredWhileServed
<1>1. Init => RegisteredWhileServed
  BY DEF Init, RegisteredWhileServed, IdleTask, Tasks
<1>2. TypeOK /\ RegisteredWhileServed /\ [Next]_vars => RegisteredWhileServed'
  BY RegisteredStep
<1> QED
  BY <1>1, <1>2, TypeCorrect, PTL DEF Spec

-----------------------------------------------------------------------------
(***************************************************************************)
(* What the client of a clean handshake holds.                             *)
(***************************************************************************)
Clean(c) == Stage(c) /\ Versions(c) /\ HoldsOrWill(c)

\* The records that TypeOK promises.
LEMMA ConnTyped ==
    ASSUME TypeOK, NEW c \in Conns
    PROVE  /\ task[c] \in Task /\ client[c] \in Holding /\ init[c] \in Initial \cup {None}
           /\ task[c].pc # "idle" => task[c].path \in Paths
           /\ slip[c] \subseteq Windows
           /\ clock \in Nat
           /\ \A p \in Paths : /\ cache[p].ver \in Nat /\ cache[p].data \in Data
                               /\ cache[p].twin \in BOOLEAN
BY DEF TypeOK, Typed, Placed, Tasks

\* A cache is set: its version is not older than any there was.
LEMMA SetsCache ==
    ASSUME TypeOK, Times, NEW q \in Paths, NEW data \in Data, _setCache(q, data)
    PROVE  /\ Times'
           /\ clock' \in Nat /\ clock' >= clock
           /\ cache'[q].ver = clock' /\ cache'[q].data = data
           /\ cache'[q].twin <=> cache[q].ver = clock'
           /\ cache[q].ver <= clock'
           /\ \A p \in Paths \ {q} : cache'[p] = cache[p]
<1> USE DEF TypeOK, Typed
<1>1. clock' \in Nat /\ clock' >= clock
  <2>1. clock' \in clock + 0 .. clock + 1 \/ clock' \in clock + 1 .. clock + 1
    BY DEF _setCache
  <2> QED
    BY <2>1
<1>2. cache' = [cache EXCEPT ![q] =
                  [ver |-> clock', data |-> data, twin |-> cache[q].ver = clock']]
  BY DEF _setCache
<1>3. /\ cache'[q] = [ver |-> clock', data |-> data, twin |-> cache[q].ver = clock']
      /\ \A p \in Paths \ {q} : cache'[p] = cache[p]
  BY <1>2
<1>4. clock \in Nat /\ clock # 0 /\ \A p \in Paths : cache[p].ver \in Nat /\ cache[p].ver <= clock
  BY DEF Times
<1>5. Times'
  <2>1. ASSUME NEW p \in Paths PROVE cache'[p].ver <= clock'
    BY <1>1, <1>3, <1>4
  <2> QED
    BY <1>1, <1>4, <2>1 DEF Times
<1>6. cache[q].ver <= clock'
  BY <1>1, <1>4
<1>7. cache'[q].ver = clock' /\ cache'[q].data = data
  BY <1>3
<1>8. cache'[q].twin = (cache[q].ver = clock')
  BY <1>3
<1> QED
  BY <1>1, <1>3, <1>5, <1>6, <1>7, <1>8

LEMMA CleanFrame ==
    ASSUME NEW c \in Conns, Clean(c),
           task'[c] = task[c], client'[c] = client[c], init'[c] = init[c],
           slip'[c] = slip[c], cache' = cache, pools \subseteq pools'
    PROVE  Clean(c)'
BY DEF Clean, Stage, Versions, HoldsOrWill, Resumable

\* A cache is set, and c is sent nothing: only a client that is served, and in
\* the end holds the cache, minds.
LEMMA CleanOthersCache ==
    ASSUME TypeOK, Times, NEW c \in Conns, Clean(c),
           NEW q \in Paths, NEW data \in Data, _setCache(q, data),
           task'[c] = task[c], client'[c] = client[c], init'[c] = init[c],
           slip[c] \subseteq slip'[c], pools \subseteq pools',
           slip'[c] = {} /\ task[c].path = q /\ task[c].pc = "live"
              /\ (client[c].open \/ init[c] # None) => data = cache[q].data
    PROVE  Clean(c)'
<1> DEFINE p == task[c].path
<1>1. CASE task[c].pc = "idle"
  BY <1>1, ConnTyped DEF Clean, Stage, Versions, HoldsOrWill, Resumable
<1>2. CASE task[c].pc # "idle" /\ p # q
  <2>1. cache'[p] = cache[p]
    BY <1>2, ConnTyped, SetsCache
  <2> QED
    BY <2>1, <1>2 DEF Clean, Stage, Versions, HoldsOrWill, Resumable
<1>3. CASE task[c].pc # "idle" /\ p = q
  <2>1. /\ cache'[p].ver = clock' /\ cache[p].ver <= clock' /\ cache'[p].data = data
        /\ cache'[p].twin <=> cache[p].ver = clock'
        /\ clock' \in Nat /\ clock' # 0 /\ cache[p].ver \in Nat
    BY <1>3, ConnTyped, SetsCache DEF Times
  <2>2. client[c].ver \in Nat /\ task[c].v \in Nat /\ (init[c] # None => init[c].ver \in Nat)
    BY ConnTyped DEF Holding, Task, Initial
  <2>3. Stage(c)'
    BY DEF Clean, Stage
  <2>4. Versions(c)'
    BY <1>3, <2>1, <2>2 DEF Clean, Versions
  <2>5. ~Resumable(c)'
    BY <1>3, <2>1, <2>2 DEF Clean, Versions, Resumable
  <2>6. HoldsOrWill(c)'
    <3>1. slip'[c] = {} => slip[c] = {}
      OBVIOUS
    <3> QED
      BY <1>3, <2>1, <2>5, <3>1 DEF Clean, HoldsOrWill
  <2> QED
    BY <2>3, <2>4, <2>6 DEF Clean
<1> QED
  BY <1>1, <1>2, <1>3

\* A broadcast: it gives a client that has finished its handshake the cache.
LEMMA CleanPublish ==
    ASSUME TypeOK, Times, RegisteredWhileServed, NEW c \in Conns, Clean(c),
           NEW v \in Workers, NEW s \in BOOLEAN, Publish(v, s)
    PROVE  Clean(c)'
<1> DEFINE q == work[v].pool
           data == work[v].got
<1>1. q \in Paths /\ data \in Data
  BY DEF Publish, TypeOK, Typed, Placed, Work
<1>2. /\ _setCache(q, data) /\ UNCHANGED <<task, init, pools, connections>> /\ q \notin Denied
  BY DEF Publish
<1>3. /\ client'[c] = IF c \in connections[q]
                      THEN Receive(client[c], s, cache[q].data, clock', data) ELSE client[c]
      /\ slip'[c] = IF c \in connections[q] /\ InHandshake(c)
                    THEN slip[c] \cup {"broadcast"} ELSE slip[c]
  BY DEF Publish
<1>4. CASE c \notin connections[q]
  <2>1. task[c].path # q \/ task[c].pc \in {"idle", "closed"}
    BY <1>1, <1>4 DEF RegisteredWhileServed
  <2> QED
    BY <1>1, <1>2, <1>3, <1>4, <2>1, CleanOthersCache
<1>5. CASE c \in connections[q]
  <2>1. task[c].path = q /\ task[c].pc \notin {"idle", "closed"}
    BY <1>1, <1>5 DEF RegisteredWhileServed
  <2>2. CASE ~client[c].open
    <3>1. client'[c] = client[c]
      BY <1>3, <1>5, <2>2 DEF Receive
    <3> QED
      BY <1>1, <1>2, <1>3, <1>5, <2>1, <2>2, <3>1, CleanOthersCache DEF InHandshake
  <2>3. CASE client[c].open
    <3>1. /\ cache'[q].ver = clock' /\ cache[q].ver <= clock' /\ cache'[q].data = data
          /\ clock' \in Nat /\ clock' # 0 /\ cache[q].ver \in Nat
      BY <1>1, <1>2, ConnTyped, SetsCache DEF Times
    <3>2. client[c].ver \in Nat /\ task[c].v \in Nat /\ (init[c] # None => init[c].ver \in Nat)
      BY ConnTyped DEF Holding, Task, Initial
    <3>3. /\ client'[c].ver = clock'
          /\ s \/ client[c].view = cache[q].data => client'[c].view = data
      <4>1. client[c] \in Holding
        BY ConnTyped
      <4> QED
        BY <1>3, <1>5, <2>3, <4>1 DEF Receive, Holding
    <3>4. Stage(c)'
      BY <1>2, <2>1, <2>3 DEF Clean, Stage
    <3>5. Versions(c)'
      BY <1>2, <2>1, <3>1, <3>2, <3>3 DEF Clean, Versions
    <3>6. HoldsOrWill(c)'
      <4>1. CASE InHandshake(c)
        <5>1. slip'[c] # {}
          BY <1>3, <1>5, <4>1
        <5> QED
          BY <5>1 DEF HoldsOrWill
      <4>2. CASE ~InHandshake(c)
        <5>1. task[c].pc = "live" /\ init[c] = None
          <6>1. task[c].pc # "denied"
            BY <1>2, <2>1 DEF Clean, Stage
          <6>2. task[c].pc \in {"idle", "get", "set", "live", "denied", "closed"}
            BY ConnTyped DEF Task
          <6> QED
            BY <2>1, <4>2, <6>1, <6>2 DEF InHandshake
        <5>2. slip'[c] = {} => client'[c].view = data
          BY <1>3, <1>5, <2>1, <2>3, <3>3, <4>2, <5>1 DEF Clean, HoldsOrWill
        <5> QED
          BY <1>2, <2>1, <3>1, <5>1, <5>2 DEF HoldsOrWill
      <4> QED
        BY <4>1, <4>2
    <3> QED
      BY <3>4, <3>5, <3>6 DEF Clean
  <2> QED
    BY <2>2, <2>3
<1> QED
  BY <1>4, <1>5

\* A handler sets the cache that it found empty, and its own client will hold it.
LEMMA CleanSetCache ==
    ASSUME TypeOK, Times, RegisteredWhileServed, NEW c \in Conns, Clean(c),
           NEW t \in Tasks, SetCache(t)
    PROVE  Clean(c)'
<1> DEFINE q == task[t].path
           data == task[t].got
<1>1. q \in Paths /\ data \in Data
  BY DEF SetCache, TypeOK, Typed, Placed, Task
<1>2. /\ task[t].pc = "set" /\ _setCache(q, data) /\ Reply(t, clock')
      /\ UNCHANGED client /\ pools \subseteq pools'
      /\ slip'[c] = IF c \in connections[q] \ {t} /\ cache[q].ver # 0 /\ cache[q].data # data
                    THEN slip[c] \cup {"setcache"} ELSE slip[c]
  BY DEF SetCache
<1>3. CASE c # t
  <2>1. task'[c] = task[c]
    BY <1>2, <1>3 DEF Reply, TypeOK, Typed, Tasks
  <2>2. init'[c] = init[c]
    BY <1>2, <1>3 DEF Reply, TypeOK, Typed
  <2>3. task[c].pc = "live" /\ task[c].path = q => c \in connections[q] /\ cache[q].ver # 0
    BY <1>1 DEF RegisteredWhileServed, Clean, Versions
  <2> QED
    BY <1>1, <1>2, <1>3, <2>1, <2>2, <2>3, CleanOthersCache
<1>4. CASE c = t
  <2>1. /\ cache'[q].ver = clock' /\ cache[q].ver <= clock' /\ cache'[q].data = data
        /\ cache'[q].twin <=> cache[q].ver = clock'
        /\ clock' \in Nat /\ clock' # 0 /\ cache[q].ver \in Nat
    BY <1>1, <1>2, ConnTyped, SetsCache DEF Times
  <2>2. client[c].ver \in Nat /\ client[c].ver <= cache[q].ver
    BY <1>2, <1>4, ConnTyped DEF Holding, Clean, Versions
  <2>3. task[c].v = 0 /\ q \in pools /\ q \notin Denied
    BY <1>2, <1>4 DEF Clean, Stage
  <2>4. task'[c].pc = "live" /\ task'[c].path = q
    BY <1>2, <1>4 DEF Reply, TypeOK, Typed, Task
  <2>5. init'[c] = [view |-> data, ver |-> clock']
    BY <1>2, <1>4, <2>1, <2>3 DEF Reply, TypeOK, Typed
  <2>6. init'[c] # None
    BY <1>1, <2>1, <2>5, NoneAssumption
  <2>7. Stage(c)'
    BY <1>2, <2>3, <2>4 DEF Stage
  <2>8. Versions(c)'
    BY <1>2, <2>1, <2>2, <2>4, <2>5 DEF Versions
  <2>9. ~Resumable(c)'
    BY <1>2, <2>1, <2>2, <2>4 DEF Resumable
  <2>10. HoldsOrWill(c)'
    BY <2>1, <2>4, <2>5, <2>6, <2>9 DEF HoldsOrWill
  <2> QED
    BY <2>7, <2>8, <2>10 DEF Clean
<1> QED
  BY <1>3, <1>4

\* The other steps of a handler leave the cache alone.
LEMMA CleanHandler ==
    ASSUME TypeOK, Times, RegisteredWhileServed, NEW c \in Conns, Clean(c),
           NEW t \in Tasks, TaskStep(t)
    PROVE  Clean(c)'
<1>1. task[c] \in Task /\ client[c] \in Holding
  BY ConnTyped
<1>2. CASE c # t /\ ~SetCache(t)
  <2>1. task'[c] = task[c] /\ client'[c] = client[c]
    BY <1>2, HandlerKeeps
  <2>2. cache' = cache /\ pools' = pools /\ init'[c] = init[c] /\ slip'[c] = slip[c]
    BY <1>2 DEF TaskStep, FetchKey, FetchDenied, CacheHit, CacheMiss, Reply, streamVars,
                TypeOK, Typed
  <2> QED
    BY <2>1, <2>2, CleanFrame
<1>3. ASSUME c = t, NEW k \in Keys, FetchKey(t, k) PROVE Clean(c)'
  <2>1. /\ task[c].pc = "get" /\ task'[c].pc = "get"
        /\ task'[c].path = task[c].path /\ task'[c].v = task[c].v
    BY <1>1, <1>3 DEF FetchKey, Task, TypeOK, Typed
  <2>2. UNCHANGED <<client, init, slip, cache, pools>>
    BY <1>3 DEF FetchKey, streamVars
  <2> QED
    BY <2>1, <2>2 DEF Clean, Stage, Versions, HoldsOrWill, Resumable
<1>4. ASSUME c = t, FetchDenied(t) PROVE Clean(c)'
  <2>1. /\ task[c].pc = "get" /\ task'[c].pc = "denied" /\ task[c].path \in Denied
        /\ task'[c].path = task[c].path
    BY <1>1, <1>4 DEF FetchDenied, Fetched, Task, TypeOK, Typed
  <2>2. UNCHANGED <<client, init, slip, cache, pools>>
    BY <1>4 DEF FetchDenied, streamVars
  <2> QED
    BY <2>1, <2>2 DEF Clean, Stage, Versions, HoldsOrWill, Resumable
<1>5. ASSUME c = t, CacheMiss(t) PROVE Clean(c)'
  <2>1. /\ task[c].pc = "get" /\ task'[c].pc = "set" /\ task[c].path \notin Denied
        /\ task'[c].path = task[c].path /\ task'[c].v = task[c].v /\ task[c].v \in Nat
        /\ task'[c].left = {} /\ (task[c].path \notin pools \/ cache[task[c].path].ver = 0)
    BY <1>1, <1>5 DEF CacheMiss, Fetched, Task, TypeOK, Typed
  <2>2. UNCHANGED <<client, init, slip, cache, pools>>
    BY <1>5 DEF CacheMiss, streamVars
  <2>3. task[c].v = 0
    BY <2>1 DEF Clean, Stage, Versions
  <2> QED
    BY <2>1, <2>2, <2>3 DEF Clean, Stage, Versions, HoldsOrWill, Resumable
<1>6. ASSUME c = t, CacheHit(t) PROVE Clean(c)'
  <2> DEFINE p == task[c].path
  <2>1. /\ task[c].pc = "get" /\ p \notin Denied /\ p \in pools /\ cache[p].ver # 0
        /\ UNCHANGED <<client, cache, pools>>
    BY <1>6 DEF CacheHit, Fetched, streamVars
  <2>2. task'[c].pc = "live" /\ task'[c].path = p
    BY <1>1, <1>6 DEF CacheHit, Reply, TypeOK, Typed, Task
  <2>3. init[c] = None /\ task[c].got \in Data /\ cache[p].ver \in Nat
    BY <1>1, <2>1, ConnTyped DEF Clean, Stage, Task
  <2>4. CASE cache[p].ver # task[c].v
    <3>1. init'[c] = [view |-> task[c].got, ver |-> cache[p].ver]
      BY <1>6, <2>4 DEF CacheHit, Reply, TypeOK, Typed
    <3>2. init'[c] # None
      BY <2>3, <3>1, NoneAssumption
    <3>3. slip'[c] = {} => slip[c] = {} /\ cache[p].data = task[c].got
      <4>1. slip'[c] = slip[c] \cup {w \in {"refresh"} : cache[p].data # task[c].got}
        BY <1>6, <2>4 DEF CacheHit, Mismatch, TypeOK, Typed
      <4> QED
        BY <4>1
    <3>4. Stage(c)'
      BY <2>1, <2>2 DEF Stage
    <3>5. Versions(c)'
      BY <2>1, <2>2, <2>3, <3>1 DEF Clean, Versions
    <3>6. HoldsOrWill(c)'
      BY <2>1, <2>2, <3>1, <3>2, <3>3 DEF Clean, HoldsOrWill, Resumable
    <3> QED
      BY <3>4, <3>5, <3>6 DEF Clean
  <2>5. CASE cache[p].ver = task[c].v
    <3>1. init' = init
      BY <1>6, <2>5 DEF CacheHit, Reply
    <3>2. slip'[c] = {} => slip[c] = {} /\ ~cache[p].twin
      <4>1. slip'[c] = slip[c] \cup {w \in {"version"} : cache[p].twin}
        BY <1>6, <2>5 DEF CacheHit, Mismatch, TypeOK, Typed
      <4> QED
        BY <4>1
    <3>3. Stage(c)'
      BY <2>1, <2>2 DEF Stage
    <3>4. Versions(c)'
      BY <2>1, <2>2, <2>3, <3>1 DEF Clean, Versions
    <3>5. HoldsOrWill(c)'
      BY <2>1, <2>2, <2>3, <2>5, <3>1, <3>2 DEF Clean, HoldsOrWill, Resumable
    <3> QED
      BY <3>3, <3>4, <3>5 DEF Clean
  <2> QED
    BY <2>4, <2>5
<1> QED
  BY <1>2, <1>3, <1>4, <1>5, <1>6, CleanSetCache DEF TaskStep

\* A client begins again, with the version of the connection that it had.
LEMMA CleanNew ==
    ASSUME TypeOK, NEW c \in Conns, NEW d \in Conns, NEW q \in Paths, New(c, q, d),
           \A e \in Conns : Clean(e), NEW e \in Conns
    PROVE  Clean(e)'
<1>1. CASE e # c
  <2>1. task'[e] = task[e] /\ client'[e] = client[e] /\ slip'[e] = slip[e]
    BY <1>1 DEF New
  <2>2. init'[e] = init[e] /\ cache' = cache /\ pools \subseteq pools'
    BY DEF New
  <2> QED
    BY <2>1, <2>2, CleanFrame
<1>2. CASE e = c
  <2>1. /\ task[c].pc = "idle"
        /\ task'[c] = [pc |-> "get", path |-> q, left |-> Covers(q), got |-> Absent,
                       v |-> client[d].ver]
        /\ client'[c] = [client[d] EXCEPT !.open = TRUE]
        /\ slip'[c] = slip[d]
        /\ UNCHANGED <<cache, init>> /\ q \in pools'
    BY DEF New, TypeOK, Typed, Tasks
  <2>2. client'[c].ver = client[d].ver /\ client'[c].view = client[d].view
    BY <2>1, ConnTyped DEF Holding
  <2>3. client[d].ver \in Nat /\ cache[q].ver \in Nat
    BY ConnTyped DEF Holding
  <2>4. \/ client[d].ver = 0
        \/ task[d].pc = "closed" /\ task[d].path = q
    BY <2>1 DEF New, Resumes, Clean, Versions
  <2>5. Stage(c)'
    BY <2>1 DEF Clean, Stage
  <2>6. Versions(c)'
    BY <2>1, <2>2, <2>3, <2>4 DEF Clean, Stage, Versions
  <2>7. HoldsOrWill(c)'
    <3>1. /\ task'[c].pc = "get" /\ task'[c].path = q /\ task'[c].v = client[d].ver
          /\ cache' = cache
      BY <2>1
    <3>2. ASSUME slip'[c] = {}, Resumable(c)' PROVE client'[c].view = cache[q].data
      <4>1. client[d].ver = cache[q].ver /\ cache[q].ver # 0 /\ ~cache[q].twin
        BY <2>2, <3>1, <3>2 DEF Resumable
      <4>2. task[d].pc = "closed" /\ task[d].path = q
        BY <2>4, <4>1
      <4>3. Resumable(d) /\ slip[d] = {}
        BY <2>1, <3>2, <4>1, <4>2 DEF Resumable
      <4> QED
        BY <2>2, <4>2, <4>3 DEF Clean, HoldsOrWill
    <3> QED
      BY <2>2, <3>1, <3>2 DEF HoldsOrWill
  <2> QED
    BY <1>2, <2>5, <2>6, <2>7 DEF Clean
<1> QED
  BY <1>1, <1>2

\* The initial message arrives, a connection ends, and its handler closes it.
LEMMA CleanConn ==
    ASSUME TypeOK, NEW c \in Conns, Clean(c), NEW d \in Conns, ConnStep(d) \/ Drop(d)
    PROVE  Clean(c)'
<1>1. cache' = cache /\ pools' = pools /\ slip' = slip
  BY DEF ConnStep, WriteInitial, Drop, Close, streamVars
<1>2. client[c] \in Holding /\ task[c] \in Task /\ init[c] \in Initial \cup {None}
  BY ConnTyped
<1>3. CASE c # d
  <2>1. task'[c] = task[c] /\ client'[c] = client[c] /\ init'[c] = init[c]
    BY <1>3 DEF ConnStep, WriteInitial, Drop, Close, TypeOK, Typed, Tasks
  <2> QED
    BY <1>1, <2>1, CleanFrame
<1>4. CASE c = d /\ WriteInitial(c)
  <2>1. /\ init[c] # None /\ init'[c] = None /\ task' = task
        /\ client'[c] = Receive(client[c], TRUE, Absent, init[c].ver, init[c].view)
    BY <1>4 DEF WriteInitial, TypeOK, Typed
  <2>2. CASE client[c].open
    <3>1. client'[c] = [client[c] EXCEPT !.ver = init[c].ver, !.view = init[c].view]
      BY <2>1, <2>2 DEF Receive
    <3>2. client'[c].ver = init[c].ver /\ client'[c].view = init[c].view
      BY <1>2, <3>1 DEF Holding
    <3>3. task[c].pc = "live"
      BY <2>1, <2>2 DEF Clean, Stage
    <3> QED
      BY <1>1, <2>1, <3>2, <3>3 DEF Clean, Stage, Versions, HoldsOrWill, Resumable
  <2>3. CASE ~client[c].open
    <3>1. client'[c] = client[c]
      BY <2>1, <2>3 DEF Receive
    <3> QED
      BY <1>1, <2>1, <2>3, <3>1 DEF Clean, Stage, Versions, HoldsOrWill, Resumable
  <2> QED
    BY <2>2, <2>3
<1>5. CASE c = d /\ Drop(c)
  <2>1. /\ ~client'[c].open
        /\ client'[c].ver = client[c].ver /\ client'[c].view = client[c].view
        /\ UNCHANGED <<task, init>>
    BY <1>2, <1>5 DEF Drop, Holding, TypeOK, Typed
  <2> QED
    BY <1>1, <2>1 DEF Clean, Stage, Versions, HoldsOrWill, Resumable
<1>6. CASE c = d /\ Close(c)
  <2>1. /\ task[c].pc = "live" /\ ~client[c].open
        /\ task'[c].pc = "closed" /\ task'[c].path = task[c].path
        /\ UNCHANGED <<client, init>>
    BY <1>2, <1>6 DEF Close, Task, TypeOK, Typed, Tasks
  <2> QED
    BY <1>1, <2>1 DEF Clean, Stage, Versions, HoldsOrWill, Resumable
<1> QED
  BY <1>3, <1>4, <1>5, <1>6 DEF ConnStep

\* The inductive invariant of the clients: it needs no more than the types.
LEMMA HoldsInductive == Spec => [](HoldsInv /\ RegisteredWhileServed)
<1>1. Init => HoldsInv
  BY DEF Init, HoldsInv, Times, Stage, Versions, HoldsOrWill, Resumable, IdleTask, Tasks
<1>2. ASSUME TypeOK, HoldsInv, RegisteredWhileServed, [Next]_vars PROVE HoldsInv'
  <2> USE <1>2
  <2>1. Times /\ \A c \in Conns : Clean(c)
    BY DEF HoldsInv, Clean
  <2>2. ASSUME \/ \E w \in Writers : WriterStep(w)
               \/ \E v \in Workers : \/ RLock(v) \/ Filtered(v) \/ RUnlock(v)
                                     \/ \E p \in Paths : LockPool(v, p)
                                     \/ \E k \in Keys : GetKey(v, k)
               \/ Rest \/ UNCHANGED vars
        PROVE  Times' /\ \A c \in Conns : Clean(c)'
    <3>1. UNCHANGED <<streamVars, clientVars, slip>>
      BY <2>2 DEF WriterStep, Set, Del, DelGlob, DelKey, DelDone, Deliver, RLock, Filtered,
                  RUnlock, LockPool, GetKey, Rest, vars, streamVars, clientVars
    <3> QED
      BY <2>1, <3>1, CleanFrame DEF Times, streamVars, clientVars
  <2>3. ASSUME NEW v \in Workers, NEW s \in BOOLEAN, Publish(v, s)
        PROVE  Times' /\ \A c \in Conns : Clean(c)'
    <3>1. work[v].pool \in Paths /\ work[v].got \in Data /\ _setCache(work[v].pool, work[v].got)
      BY <2>3 DEF Publish, TypeOK, Typed, Placed, Work
    <3> QED
      BY <2>1, <2>3, <3>1, CleanPublish, SetsCache
  <2>4. ASSUME NEW t \in Tasks, TaskStep(t) PROVE Times' /\ \A c \in Conns : Clean(c)'
    <3>1. Times'
      <4>1. CASE SetCache(t)
        <5>1. task[t].path \in Paths /\ task[t].got \in Data /\ _setCache(task[t].path, task[t].got)
          BY <4>1 DEF SetCache, TypeOK, Typed, Placed, Task
        <5> QED
          BY <2>1, <5>1, SetsCache
      <4>2. CASE ~SetCache(t)
        <5>1. UNCHANGED <<cache, clock>>
          BY <2>4, <4>2 DEF TaskStep, FetchKey, FetchDenied, CacheHit, CacheMiss, streamVars
        <5> QED
          BY <2>1, <5>1 DEF Times
      <4> QED
        BY <4>1, <4>2
    <3> QED
      BY <2>1, <2>4, <3>1, CleanHandler
  <2>5. ASSUME NEW c \in Conns, ConnStep(c) \/ Drop(c)
        PROVE  Times' /\ \A e \in Conns : Clean(e)'
    <3>1. UNCHANGED <<cache, clock>>
      BY <2>5 DEF ConnStep, WriteInitial, Drop, Close, streamVars
    <3> QED
      BY <2>1, <2>5, <3>1, CleanConn DEF Times
  <2>6. ASSUME NEW c \in Conns, NEW d \in Conns, NEW p \in Paths, New(c, p, d)
        PROVE  Times' /\ \A e \in Conns : Clean(e)'
    <3>1. UNCHANGED <<cache, clock>>
      BY <2>6 DEF New
    <3> QED
      BY <2>1, <2>6, <3>1, CleanNew DEF Times
  <2>7. ASSUME NEW r \in Readers, NEW p \in Paths, Read(r, p)
        PROVE  Times' /\ \A c \in Conns : Clean(c)'
    <3>1. UNCHANGED <<streamVars, client, init, slip>>
      BY <2>7 DEF Read
    <3>2. ASSUME NEW c \in Conns PROVE task'[c] = task[c]
      BY <2>7, ConstantsAssumption DEF Read, TypeOK, Typed, Tasks
    <3> QED
      BY <2>1, <3>1, <3>2, CleanFrame DEF Times, streamVars
  <2>8. Times' /\ \A c \in Conns : Clean(c)'
    BY <2>2, <2>3, <2>4, <2>5, <2>6, <2>7 DEF Next, WorkerStep
  <2> QED
    BY <2>8 DEF HoldsInv, Clean
<1> QED
  BY <1>1, <1>2, ServedIsRegistered, TypeCorrect, PTL DEF Spec

\* A client that no window of the handshake spoilt holds its pool's cache, the
\* base of the next patch, however often it ends and comes back with its version.
THEOREM CleanHoldsCache == Spec => []ClientHoldsCache
<1>1. HoldsInv => ClientHoldsCache
  BY DEF HoldsInv, HoldsOrWill, ClientHoldsCache
<1> QED
  BY <1>1, HoldsInductive, PTL

-----------------------------------------------------------------------------
(***************************************************************************)
(* What the client of a sound handshake holds is in the storage, or its    *)
(* pool is owed a broadcast.                                               *)
(***************************************************************************)
\* The step leaves the pool's mutex with the worker that holds it.
KeepsLock(p) ==
    \A v \in Workers : work[v].pc = "get" /\ work[v].pool = p => work'[v].pc = "get"

\* What a pool is owed stays owed until a worker holds its mutex.
LEMMA OwedPasses ==
    ASSUME TypeOK, PoolsExclusive, [Next]_vars,
           NEW p \in pools \ Denied, NEW k \in Covers(p), Heard(p, k),
           Owed(p, k) \/ PoolLocked(p),
           KeepsLock(p)
    PROVE  Owed(p, k)' \/ PoolLocked(p)'
<1> USE DEF TypeOK, Typed, Placed
<1>1. p \in Paths /\ k \in Keys
  BY DEF Covers
<1>2. ASSUME UNCHANGED <<req, work>> PROVE Owed(p, k)' \/ PoolLocked(p)'
  BY <1>2 DEF Owed, PoolLocked
<1>3. ASSUME NEW w \in Writers, UNCHANGED work,
             \A u \in Writers \ {w} : req'[u] = req[u],
             req[w].pc # "idle" /\ k \in Covers(req[w].path)
                => req'[w].pc # "idle" /\ k \in Covers(req'[w].path)
      PROVE  Owed(p, k)' \/ PoolLocked(p)'
  <2>1. Owed(p, k) => Owed(p, k)'
    BY <1>3 DEF Owed
  <2>2. PoolLocked(p) => PoolLocked(p)'
    BY <1>3 DEF PoolLocked
  <2> QED
    BY <2>1, <2>2
<1>4. ASSUME NEW w \in Writers, NEW j \in Keys, Set(w, j) \/ Del(w, j) \/ DelKey(w, j)
      PROVE  Owed(p, k)' \/ PoolLocked(p)'
  <2>1. UNCHANGED work /\ \A u \in Writers \ {w} : req'[u] = req[u]
    BY <1>4 DEF Set, Del, DelKey
  <2>2. req[w].pc = "idle" \/ (req'[w].pc = req[w].pc /\ req'[w].path = req[w].path)
    BY <1>4 DEF Set, Del, DelKey, Request
  <2> QED
    BY <1>3, <2>1, <2>2
<1>5. ASSUME NEW w \in Writers, DelDone(w) \/ \E q \in Globs : DelGlob(w, q)
      PROVE  Owed(p, k)' \/ PoolLocked(p)'
  <2>1. UNCHANGED work /\ \A u \in Writers \ {w} : req'[u] = req[u]
    BY <1>5 DEF DelDone, DelGlob
  <2>2. req[w].pc # "idle" /\ k \in Covers(req[w].path)
           => req'[w].pc # "idle" /\ k \in Covers(req'[w].path)
    BY <1>5 DEF DelDone, DelGlob, Notify, Heard, Loud
  <2> QED
    BY <1>3, <2>1, <2>2
<1>6. ASSUME NEW w \in Writers, NEW v \in Workers, Deliver(w, v)
      PROVE  Owed(p, k)' \/ PoolLocked(p)'
  <2>1. /\ work'[v].pc = "lock" /\ work'[v].path = req[w].path
        /\ work'[v].todo = work[v].todo /\ work[v].pc = "recv"
        /\ \A u \in Workers \ {v} : work'[u] = work[u]
        /\ \A x \in Writers \ {w} : req'[x] = req[x]
    BY <1>6 DEF Deliver, Work
  <2>2. Owed(p, k) => Owed(p, k)'
    BY <2>1 DEF Owed
  <2>3. PoolLocked(p) => PoolLocked(p)'
    BY <2>1 DEF PoolLocked
  <2> QED
    BY <2>2, <2>3
<1>7. ASSUME NEW v \in Workers, RLock(v) PROVE Owed(p, k)' \/ PoolLocked(p)'
  <2>1. /\ work'[v].pc = "loop" /\ work[v].pc = "lock" /\ req' = req
        /\ work'[v].todo = {q \in pools : Peer(q, work[v].path)}
        /\ \A u \in Workers \ {v} : work'[u] = work[u]
    BY <1>7 DEF RLock, Work, storageVars
  <2>2. work[v].path \in Paths /\ work[v].todo = {}
    BY <2>1 DEF PoolsExclusive
  <2>3. CASE k \in Covers(work[v].path)
    <3>1. Peer(p, work[v].path)
      BY <1>1, <2>2, <2>3 DEF Heard
    <3> QED
      BY <2>1, <3>1 DEF Owed
  <2>4. CASE k \notin Covers(work[v].path)
    <3>1. Owed(p, k) => Owed(p, k)'
      BY <2>1, <2>2, <2>4 DEF Owed
    <3>2. PoolLocked(p) => PoolLocked(p)'
      BY <2>1 DEF PoolLocked
    <3> QED
      BY <3>1, <3>2
  <2> QED
    BY <2>3, <2>4
<1>8. ASSUME NEW v \in Workers, NEW q \in Paths, LockPool(v, q)
      PROVE  Owed(p, k)' \/ PoolLocked(p)'
  <2>1. /\ work'[v].pc = "get" /\ work'[v].pool = q /\ req' = req
        /\ work'[v].todo = work[v].todo \ {q} /\ work[v].pc = "loop"
        /\ \A u \in Workers \ {v} : work'[u] = work[u]
    BY <1>8 DEF LockPool, Work, storageVars
  <2>2. CASE p = q
    BY <2>1, <2>2 DEF PoolLocked
  <2>3. CASE p # q
    <3>1. p \in work[v].todo => p \in work'[v].todo
      BY <2>1, <2>3
    <3>2. Owed(p, k) => Owed(p, k)'
      BY <2>1, <3>1 DEF Owed
    <3>3. PoolLocked(p) => PoolLocked(p)'
      BY <2>1 DEF PoolLocked
    <3> QED
      BY <3>2, <3>3
  <2> QED
    BY <2>2, <2>3
<1>9. ASSUME NEW v \in Workers, NEW j \in Keys, GetKey(v, j)
      PROVE  Owed(p, k)' \/ PoolLocked(p)'
  <2>1. /\ work'[v].pc = "get" /\ work[v].pc = "get" /\ work'[v].pool = work[v].pool
        /\ work'[v].todo = work[v].todo /\ req' = req
        /\ \A u \in Workers \ {v} : work'[u] = work[u]
    BY <1>9 DEF GetKey, Work, storageVars
  <2>2. CASE work[v].pool = p
    BY <2>1, <2>2 DEF PoolLocked
  <2>3. CASE work[v].pool # p
    <3>1. Owed(p, k) => Owed(p, k)'
      BY <2>1, <2>3 DEF Owed
    <3>2. PoolLocked(p) => PoolLocked(p)'
      BY <2>1 DEF PoolLocked
    <3> QED
      BY <3>1, <3>2
  <2> QED
    BY <2>2, <2>3
<1>10. ASSUME NEW v \in Workers, RUnlock(v) \/ Filtered(v) \/ \E s \in BOOLEAN : Publish(v, s)
       PROVE  Owed(p, k)' \/ PoolLocked(p)'
  <2>1. /\ work'[v].pc \in {"recv", "loop"} /\ work'[v].todo = work[v].todo /\ req' = req
        /\ work[v].pc \in {"loop", "get"}
        /\ work[v].pc = "get" => work[v].left = {} /\ work[v].pool # p
        /\ \A u \in Workers \ {v} : work'[u] = work[u]
    <3>1. CASE RUnlock(v)
      BY <3>1 DEF RUnlock, IdleWork, Work, storageVars
    <3>2. CASE Filtered(v)
      BY <3>2 DEF Filtered, NextPool, Work, storageVars
    <3>3. ASSUME NEW s \in BOOLEAN, Publish(v, s)
          PROVE  /\ work'[v].pc = "loop" /\ work'[v].todo = work[v].todo /\ req' = req
                 /\ \A u \in Workers \ {v} : work'[u] = work[u]
      BY <3>3 DEF Publish, NextPool, Work, storageVars
    <3>4. ASSUME NEW s \in BOOLEAN, Publish(v, s)
          PROVE  work[v].pc = "get" /\ work[v].left = {} /\ work[v].pool # p
      BY <3>4, <3>3 DEF Publish, KeepsLock
    <3> QED
      BY <1>10, <3>1, <3>2, <3>3, <3>4
  <2>2. Owed(p, k) => Owed(p, k)'
    BY <2>1 DEF Owed
  <2>3. PoolLocked(p) => PoolLocked(p)'
    BY <2>1 DEF PoolLocked
  <2> QED
    BY <2>2, <2>3
<1>11. ASSUME \/ \E t \in Tasks : TaskStep(t)
              \/ \E c \in Conns : ConnStep(c) \/ Drop(c)
              \/ \E c, d \in Conns, q \in Paths : New(c, q, d)
              \/ \E r \in Readers, q \in Paths : Read(r, q)
              \/ Rest \/ UNCHANGED vars
       PROVE  Owed(p, k)' \/ PoolLocked(p)'
  BY <1>2, <1>11
  DEF TaskStep, FetchKey, FetchDenied, CacheHit, CacheMiss, SetCache, ConnStep, WriteInitial,
      Close, Drop, New, Read, Rest, vars, storageVars
<1> QED
  BY <1>4, <1>5, <1>6, <1>7, <1>8, <1>9, <1>10, <1>11 DEF Next, WriterStep, WorkerStep

\* A change of the storage is owed to every pool.
LEMMA ChangeIsOwed ==
    ASSUME TypeOK, [Next]_vars, NEW p \in pools, NEW k \in Covers(p), Heard(p, k),
           store'[k] # store[k]
    PROVE  Owed(p, k)'
<1> USE DEF TypeOK, Typed, Placed
<1>1. k \in Keys /\ p \in Paths
  BY DEF Covers
<1>2. ASSUME NEW w \in Writers, NEW j \in Keys, Set(w, j) PROVE Owed(p, k)'
  <2>1. j = k
    BY <1>1, <1>2 DEF Set, Data
  <2>2. k \in Covers(k) /\ k \in Paths
    BY <1>1, MatchAssumption DEF Paths
  <2>3. req'[w] = Notify(k)
    BY <1>2, <2>1 DEF Set
  <2>4. Notify(k) = [pc |-> "send", path |-> k, left |-> {}]
    BY <2>2 DEF Notify, Heard, Loud
  <2> QED
    BY <2>2, <2>3, <2>4 DEF Owed, Covers
<1>3. ASSUME NEW w \in Writers, NEW j \in Keys, DelKey(w, j) PROVE Owed(p, k)'
  <2>1. j = k
    BY <1>1, <1>3 DEF DelKey, Data
  <2>2. req'[w].pc = "del" /\ req'[w].path = req[w].path /\ k \in Covers(req[w].path)
    BY <1>3, <2>1 DEF DelKey, Request
  <2> QED
    BY <2>2 DEF Owed, Covers
<1>4. UNCHANGED store \/ \E w \in Writers, j \in Keys : Set(w, j) \/ DelKey(w, j)
  BY DEF Next, WriterStep, Del, DelGlob, DelDone, Deliver, WorkerStep, RLock, LockPool, GetKey,
      Filtered, Publish, RUnlock, TaskStep, FetchKey, FetchDenied, CacheHit, CacheMiss, SetCache,
      ConnStep, WriteInitial, Close, Drop, New, Read, Rest, vars, storageVars
<1> QED
  BY <1>2, <1>3, <1>4

\* Data that is fresh stays so, until a worker tells the pool of something newer.
LEMMA FreshPasses ==
    ASSUME TypeOK, PoolsExclusive, [Next]_vars,
           NEW p \in pools \ Denied, NEW data, NEW read \in SUBSET Covers(p),
           Fresh(p, data, read),
           KeepsLock(p)
    PROVE  \A k \in read : Heard(p, k) => data[k] = store'[k] \/ Owed(p, k)' \/ PoolLocked(p)'
<1> SUFFICES ASSUME NEW k \in read, Heard(p, k)
             PROVE  data[k] = store'[k] \/ Owed(p, k)' \/ PoolLocked(p)'
  OBVIOUS
<1>1. CASE Owed(p, k) \/ PoolLocked(p)
  BY <1>1, OwedPasses
<1>2. CASE data[k] = store[k] /\ store'[k] = store[k]
  BY <1>2
<1>3. CASE store'[k] # store[k]
  BY <1>3, ChangeIsOwed
<1> QED
  BY <1>1, <1>2, <1>3 DEF Fresh

\* A step that sends c nothing and leaves its pool locked, or free, as it is.
LEMMA FreshFrame ==
    ASSUME TypeOK, PoolsExclusive, [Next]_vars,
           NEW c \in Conns, Stage(c), FreshOrWill(c),
           task'[c] = task[c], client'[c] = client[c], init'[c] = init[c],
           Sound(c)' => Sound(c), Resumable(c)' => Resumable(c),
           KeepsLock(task[c].path)
    PROVE  FreshOrWill(c)'
<1> DEFINE p == task[c].path
<1>1. CASE task[c].pc = "idle" \/ p \in Denied
  BY <1>1 DEF FreshOrWill, Resumable
<1>2. CASE task[c].pc # "idle" /\ p \notin Denied
  <2>1. p \in pools \ Denied
    BY <1>2 DEF Stage
  <2>2. ASSUME NEW data, NEW read \in SUBSET Covers(p), Fresh(p, data, read)
        PROVE  \A k \in read : Heard(p, k) => data[k] = store'[k] \/ Owed(p, k)' \/ PoolLocked(p)'
    BY <2>1, <2>2, FreshPasses
  <2>3. Fresh(p, task[c].got, Covers(p) \ task[c].left)
           => \A k \in Covers(p) \ task[c].left : Heard(p, k) =>
                 task[c].got[k] = store'[k] \/ Owed(p, k)' \/ PoolLocked(p)'
    BY <2>2
  <2>4. Fresh(p, client[c].view, Covers(p))
           => \A k \in Covers(p) : Heard(p, k) =>
                 client[c].view[k] = store'[k] \/ Owed(p, k)' \/ PoolLocked(p)'
    BY <2>2
  <2>5. Fresh(p, init[c].view, Covers(p))
           => \A k \in Covers(p) : Heard(p, k) =>
                 init[c].view[k] = store'[k] \/ Owed(p, k)' \/ PoolLocked(p)'
    BY <2>2
  <2> QED
    BY <1>2, <2>3, <2>4, <2>5 DEF FreshOrWill, Fresh, Covers, Match, Heard, Loud, Silent, Peer
<1> QED
  BY <1>1, <1>2

\* Whoever is not sent the new cache cannot go on from it.
LEMMA NotResumed ==
    ASSUME TypeOK, Times, NEW c \in Conns, Versions(c),
           NEW q \in Paths, NEW data \in Data, _setCache(q, data),
           task'[c].path = task[c].path, task[c].pc # "idle", client'[c].ver = client[c].ver
    PROVE  /\ task[c].path = q => ~Resumable(c)'
           /\ task[c].path # q => cache'[task[c].path] = cache[task[c].path]
<1> DEFINE p == task[c].path
<1>1. p \in Paths /\ client[c].ver \in Nat /\ cache[p].ver \in Nat
  BY ConnTyped DEF Holding
<1>2. CASE p = q
  <2>1. /\ cache'[p].ver = clock' /\ cache[p].ver <= clock' /\ clock' \in Nat
        /\ cache'[p].twin <=> cache[p].ver = clock'
    BY <1>1, <1>2, SetsCache
  <2> QED
    BY <1>1, <1>2, <2>1 DEF Versions, Resumable
<1>3. CASE p # q
  BY <1>1, <1>3, SetsCache
<1> QED
  BY <1>2, <1>3

\* What a worker has read is fresh when it publishes it.
LEMMA FreshPublished ==
    ASSUME TypeOK, PoolsExclusive, NoLostUpdate,
           NEW v \in Workers, NEW s \in BOOLEAN, Publish(v, s),
           NEW q, q = work[v].pool,
           NEW k \in Covers(q), Heard(q, k)
    PROVE  work[v].got[k] = store'[k] \/ Owed(q, k)'
<1>1. UNCHANGED <<store, req>>
  BY DEF Publish, storageVars
<1>2. /\ work'[v].pc = "loop" /\ work'[v].todo = work[v].todo
      /\ work[v].pc = "get" /\ work[v].left = {}
      /\ \A u \in Workers \ {v} : work'[u] = work[u]
  BY DEF Publish, NextPool, Work, TypeOK, Typed
<1>3. Owed(q, k) => Owed(q, k)'
  BY <1>1, <1>2 DEF Owed
<1>4. work[v].got[k] = store[k] \/ Owed(q, k)
  BY <1>2 DEF NoLostUpdate, GotOrOwed
<1> QED
  BY <1>1, <1>3, <1>4

LEMMA FreshPublish ==
    ASSUME TypeOK, PoolsExclusive, NoLostUpdate, Times, RegisteredWhileServed,
           [Next]_vars, NEW c \in Conns, Clean(c), FreshOrWill(c),
           NEW v \in Workers, NEW s \in BOOLEAN, Publish(v, s)
    PROVE  FreshOrWill(c)'
<1> DEFINE p == task[c].path
           data == work[v].got
<1>0. PICK q \in Paths : q = work[v].pool
  BY DEF Publish, TypeOK, Placed
<1>1. q \in Paths /\ data \in Data
  BY DEF TypeOK, Typed, Work
<1>2. /\ _setCache(q, data) /\ UNCHANGED <<task, init, pools, connections>> /\ q \notin Denied
      /\ MaySnapshot(q, s)
  BY <1>0 DEF Publish
<1>9. \A u \in Workers \ {v} : work'[u] = work[u]
  BY DEF Publish, NextPool, Work, TypeOK, Typed
<1>3. /\ client'[c] = IF c \in connections[q]
                      THEN Receive(client[c], s, cache[q].data, clock', data) ELSE client[c]
      /\ slip'[c] = IF c \in connections[q] /\ InHandshake(c)
                    THEN slip[c] \cup {"broadcast"} ELSE slip[c]
  BY <1>0 DEF Publish
<1>4. Sound(c)' => Sound(c)
  BY <1>3 DEF Sound
<1>5. Stage(c) /\ Versions(c) /\ HoldsOrWill(c)
  BY DEF Clean
<1>6. CASE p # q
  <2>1. c \notin connections[q]
    BY <1>1, <1>6 DEF RegisteredWhileServed
  <2>2. client'[c] = client[c]
    BY <1>3, <2>1
  <2>3. KeepsLock(p)
    BY <1>0, <1>6, <1>9 DEF KeepsLock
  <2>4. Resumable(c)' => Resumable(c)
    BY <1>1, <1>2, <1>5, <1>6, <2>2, NotResumed DEF Resumable
  <2> QED
    BY <1>2, <1>4, <1>5, <2>2, <2>3, <2>4, FreshFrame
<1>7. CASE p = q /\ task[c].pc \in {"idle", "closed"}
  <2>1. client'[c] = client[c]
    BY <1>1, <1>3, <1>7 DEF RegisteredWhileServed
  <2>2. ~Resumable(c)'
    BY <1>1, <1>2, <1>5, <1>7, <2>1, NotResumed DEF Resumable
  <2> QED
    BY <1>2, <1>7, <2>2 DEF FreshOrWill
<1>8. CASE p = q /\ task[c].pc \notin {"idle", "closed"}
  <2>1. c \in connections[q]
    BY <1>1, <1>8 DEF RegisteredWhileServed
  <2>2. CASE InHandshake(c)
    <3>1. ~Sound(c)'
      BY <1>3, <2>1, <2>2 DEF Sound
    <3> QED
      BY <3>1 DEF FreshOrWill
  <2>3. CASE ~InHandshake(c) /\ ~client[c].open
    <3>1. client'[c] = client[c]
      BY <1>3, <2>1, <2>3 DEF Receive
    <3>2. ~Resumable(c)'
      BY <1>1, <1>2, <1>5, <1>8, <3>1, NotResumed
    <3> QED
      BY <1>2, <2>3, <3>1, <3>2 DEF FreshOrWill, InHandshake
  <2>4. CASE ~InHandshake(c) /\ client[c].open
    <3>1. task[c].pc = "live" /\ init[c] = None
      <4>1. task[c].pc \in {"idle", "get", "set", "live", "denied", "closed"}
        BY ConnTyped DEF Task
      <4> QED
        BY <1>2, <1>5, <1>8, <2>4, <4>1 DEF InHandshake, Stage
    <3>2. Sound(c)' => client'[c].view = data
      <4>1. client[c] \in Holding
        BY ConnTyped
      <4>2. s \/ client[c].view = cache[q].data => client'[c].view = data
        BY <1>3, <2>1, <2>4, <4>1 DEF Receive, Holding
      <4>3. NoPatch => s
        BY <1>2 DEF MaySnapshot
      <4>4. slip[c] = {} => client[c].view = cache[q].data
        BY <1>5, <1>8, <2>4, <3>1 DEF HoldsOrWill
      <4> QED
        BY <1>4, <4>2, <4>3, <4>4 DEF Sound
    <3>3. data # None
      BY <1>1, NoneAssumption DEF Data
    <3>4. \A k \in Covers(q) : Heard(q, k) => data[k] = store'[k] \/ Owed(q, k)'
      BY <1>0, FreshPublished
    <3>5. Sound(c)' => (client[c].view # None /\ Fresh(q, client[c].view, Covers(q)))'
      <4>1. ASSUME NEW k \in Covers(q), Heard(q, k), Sound(c)'
            PROVE  client'[c].view[k] = store'[k] \/ Owed(q, k)'
        BY <3>2, <3>4, <4>1
      <4> QED
        BY <3>2, <3>3, <4>1 DEF Fresh
    <3>6. task'[c].path = q /\ task'[c].pc = "live" /\ init'[c] = None
      BY <1>2, <1>8, <3>1
    <3> QED
      BY <3>5, <3>6 DEF FreshOrWill
  <2> QED
    BY <2>2, <2>3, <2>4
<1> QED
  BY <1>6, <1>7, <1>8

\* Nothing that the freshness of data depends on changes.
LEMMA FreshStays ==
    ASSUME UNCHANGED <<store, req, work>>, NEW p, NEW data, NEW read, Fresh(p, data, read)
    PROVE  \A k \in read : Heard(p, k) => data[k] = store'[k] \/ Owed(p, k)' \/ PoolLocked(p)'
BY DEF Fresh, Owed, PoolLocked

LEMMA FreshSetCache ==
    ASSUME TypeOK, PoolsExclusive, Times, [Next]_vars,
           NEW c \in Conns, Clean(c), FreshOrWill(c),
           NEW t \in Tasks, SetCache(t)
    PROVE  FreshOrWill(c)'
<1>0. PICK p, q, data : p = task[c].path /\ q = task[t].path /\ data = task[t].got
  OBVIOUS
<1> USE <1>0
<1>1. q \in Paths /\ data \in Data
  BY DEF SetCache, TypeOK, Typed, Placed, Task
<1>2. /\ task[t].pc = "set" /\ _setCache(q, data) /\ Reply(t, clock')
      /\ UNCHANGED <<store, req, work, client>> /\ slip[c] \subseteq slip'[c]
  BY DEF SetCache, storageVars
<1>3. Stage(c) /\ Versions(c)
  BY DEF Clean
<1>4. Sound(c)' => Sound(c)
  BY <1>2 DEF Sound
<1>5. task'[c].path = p /\ (c # t => task'[c] = task[c])
  BY HandlerKeeps DEF TaskStep
<1>6. Resumable(c)' => Resumable(c)
  BY <1>1, <1>2, <1>3, <1>5, NotResumed DEF Resumable, Reply, TypeOK, Typed
<1>7. CASE c # t
  <2>1. init'[c] = init[c]
    BY <1>2, <1>7 DEF Reply, TypeOK, Typed
  <2>2. KeepsLock(p)
    BY <1>2 DEF KeepsLock
  <2> QED
    BY <1>2, <1>3, <1>4, <1>5, <1>6, <1>7, <2>1, <2>2, FreshFrame
<1>8. CASE c = t
  <2>1. ~Resumable(c)'
    BY <1>1, <1>2, <1>3, <1>5, <1>8, NotResumed
  <2>2. task[c].left = {} /\ task[c].v = 0 /\ clock' # 0
    BY <1>1, <1>2, <1>3, <1>8, SetsCache DEF Stage, Times
  <2>3. task'[c].pc = "live"
    BY <1>2, <1>8 DEF Reply, TypeOK, Typed, Task
  <2>4. init'[c] = [view |-> data, ver |-> clock']
    BY <1>2, <1>8, <2>2 DEF Reply, TypeOK, Typed
  <2>5. init'[c] # None
    BY <1>1, <1>2, <2>4, SetsCache, NoneAssumption
  <2>6. Sound(c)' /\ p \notin Denied =>
           \A k \in Covers(p) : Heard(p, k) => data[k] = store'[k] \/ Owed(p, k)' \/ PoolLocked(p)'
    <3>1. Sound(c)' /\ p \notin Denied => Fresh(p, data, Covers(p) \ task[c].left)
      BY <1>2, <1>4, <1>8 DEF FreshOrWill
    <3> QED
      BY <1>2, <2>2, <3>1, FreshStays
  <2>7. init'[c].view = data
    BY <2>4
  <2> QED
    BY <1>5, <2>1, <2>3, <2>5, <2>6, <2>7 DEF FreshOrWill, Fresh
<1> QED
  BY <1>7, <1>8

\* A handler reads on, finds the cache or finds none.
LEMMA FreshHandler ==
    ASSUME TypeOK, PoolsExclusive, Times, [Next]_vars,
           NEW c \in Conns, Clean(c), FreshOrWill(c),
           NEW t \in Tasks, TaskStep(t)
    PROVE  FreshOrWill(c)'
<1>0. PICK p : p = task[c].path
  OBVIOUS
<1> USE <1>0
<1>1. task[c] \in Task /\ client[c] \in Holding
  BY ConnTyped
<1>2. Stage(c)
  BY DEF Clean
<1>3. UNCHANGED client /\ task'[c].path = p /\ (c # t => task'[c] = task[c])
  BY HandlerKeeps
<1>4. ASSUME ~SetCache(t)
      PROVE  UNCHANGED <<store, req, work, cache>>
  BY <1>4 DEF TaskStep, FetchKey, FetchDenied, CacheHit, CacheMiss, storageVars, streamVars
<1>5. CASE c # t /\ ~SetCache(t)
  <2>1. init'[c] = init[c] /\ slip'[c] = slip[c]
    BY <1>5 DEF TaskStep, FetchKey, FetchDenied, CacheHit, CacheMiss, Reply, TypeOK, Typed
  <2>2. KeepsLock(p)
    BY <1>4, <1>5 DEF KeepsLock
  <2>3. (Sound(c)' => Sound(c)) /\ (Resumable(c)' => Resumable(c))
    BY <1>3, <1>4, <1>5, <2>1 DEF Sound, Resumable
  <2> QED
    BY <1>2, <1>3, <1>5, <2>1, <2>2, <2>3, FreshFrame
<1>6. ASSUME Sound(c), p \notin Denied, ~SetCache(t)
      PROVE  /\ Resumable(c) => /\ client[c].view # None
                                /\ \A k \in Covers(p) : Heard(p, k) =>
                                      client[c].view[k] = store'[k] \/ Owed(p, k)' \/ PoolLocked(p)'
             /\ task[c].pc = "get" =>
                   \A k \in Covers(p) \ task[c].left : Heard(p, k) =>
                      task[c].got[k] = store'[k] \/ Owed(p, k)' \/ PoolLocked(p)'
  BY <1>4, <1>6, FreshStays DEF FreshOrWill
<1>7. ASSUME c = t, NEW j \in Keys, FetchKey(t, j) PROVE FreshOrWill(c)'
  <2>1. /\ task[c].pc = "get" /\ task'[c].pc = "get" /\ task'[c].v = task[c].v
        /\ task'[c].left = task[c].left \ {j} /\ j \in task[c].left
        /\ task'[c].got = [task[c].got EXCEPT ![j] = store[j]]
        /\ task[c].got \in Data /\ ~SetCache(t)
    BY <1>1, <1>7 DEF FetchKey, SetCache, Task, TypeOK, Typed
  <2>2. UNCHANGED <<store, init, slip, cache>>
    BY <1>7 DEF FetchKey, storageVars, streamVars
  <2>3. ASSUME Sound(c), p \notin Denied, NEW k \in Covers(p) \ task'[c].left, Heard(p, k)
        PROVE  task'[c].got[k] = store'[k] \/ Owed(p, k)' \/ PoolLocked(p)'
    <3>1. CASE k = j
      BY <2>1, <2>2, <3>1 DEF Data
    <3>2. CASE k # j
      <4>1. k \in Covers(p) \ task[c].left /\ task'[c].got[k] = task[c].got[k]
        BY <2>1, <2>3, <3>2 DEF Data, Covers
      <4> QED
        BY <1>6, <2>1, <2>3, <4>1
    <3> QED
      BY <3>1, <3>2
  <2>4. (Resumable(c)' => Resumable(c)) /\ (Sound(c)' => Sound(c))
    BY <1>3, <2>1, <2>2 DEF Resumable, Sound
  <2>5. Sound(c) /\ p \notin Denied => client[c].ver = task[c].v
    BY <2>1 DEF FreshOrWill
  <2> QED
    BY <1>3, <1>6, <2>1, <2>2, <2>3, <2>4, <2>5 DEF FreshOrWill, Fresh
<1>8. ASSUME c = t, FetchDenied(t) PROVE FreshOrWill(c)'
  BY <1>3, <1>8 DEF FetchDenied, FreshOrWill
<1>9. ASSUME c = t, CacheMiss(t) PROVE FreshOrWill(c)'
  <2>1. /\ task[c].pc = "get" /\ task'[c].pc = "set" /\ task'[c].v = task[c].v
        /\ task'[c].left = task[c].left /\ task'[c].got = task[c].got /\ ~SetCache(t)
    BY <1>1, <1>9 DEF CacheMiss, Fetched, SetCache, Task, TypeOK, Typed
  <2>2. UNCHANGED <<init, slip, cache>>
    BY <1>9 DEF CacheMiss, streamVars
  <2>3. (Resumable(c)' => Resumable(c)) /\ (Sound(c)' => Sound(c))
    BY <1>3, <2>1, <2>2 DEF Resumable, Sound
  <2>4. Sound(c) /\ p \notin Denied => client[c].ver = task[c].v
    BY <2>1 DEF FreshOrWill
  <2> QED
    BY <1>3, <1>6, <2>1, <2>2, <2>3, <2>4 DEF FreshOrWill, Fresh
<1>10. ASSUME c = t, CacheHit(t) PROVE FreshOrWill(c)'
  <2>1. /\ task[c].pc = "get" /\ task[c].left = {} /\ cache[p].ver # 0 /\ ~SetCache(t)
        /\ init[c] = None
    BY <1>2, <1>10 DEF CacheHit, Fetched, SetCache, Stage
  <2>2. task'[c].pc = "live" /\ UNCHANGED cache
    BY <1>1, <1>10 DEF CacheHit, Reply, streamVars, TypeOK, Typed, Task
  <2>3. slip'[c] = slip[c] \cup Mismatch(t, cache[p])
    BY <1>10 DEF CacheHit, TypeOK, Typed
  <2>4. (Resumable(c)' => Resumable(c)) /\ (Sound(c)' => Sound(c))
    BY <1>3, <2>1, <2>2, <2>3 DEF Resumable, Sound
  <2>5. CASE cache[p].ver # task[c].v
    <3>1. init'[c] = [view |-> task[c].got, ver |-> cache[p].ver]
      BY <1>10, <2>5 DEF CacheHit, Reply, TypeOK, Typed
    <3>2. init'[c] # None /\ init'[c].view = task[c].got
      <4>1. task[c].got \in Data /\ cache[p].ver \in Nat
        BY <1>1, <1>2, <2>1, ConnTyped DEF Task
      <4> QED
        BY <3>1, <4>1, NoneAssumption
    <3> QED
      BY <1>3, <1>6, <2>1, <2>2, <2>4, <3>2 DEF FreshOrWill, Fresh
  <2>6. CASE cache[p].ver = task[c].v
    <3>1. init'[c] = None
      BY <1>10, <2>1, <2>6 DEF CacheHit, Reply
    <3>2. Sound(c)' => ~cache[p].twin
      BY <1>10, <2>3, <2>6 DEF Mismatch, Sound
    <3>3. Sound(c)' /\ p \notin Denied => Resumable(c)
      BY <2>1, <2>4, <2>6, <3>2 DEF FreshOrWill, Resumable
    <3> QED
      BY <1>3, <1>6, <2>1, <2>2, <2>4, <3>1, <3>3 DEF FreshOrWill, Fresh
  <2> QED
    BY <2>5, <2>6
<1> QED
  BY <1>5, <1>7, <1>8, <1>9, <1>10, FreshSetCache DEF TaskStep

\* A client begins again with what the connection that it had left it.
LEMMA FreshNew ==
    ASSUME TypeOK, PoolsExclusive, [Next]_vars,
           NEW c \in Conns, NEW d \in Conns, NEW q \in Paths, New(c, q, d),
           \A e \in Conns : Clean(e) /\ FreshOrWill(e), NEW e \in Conns
    PROVE  FreshOrWill(e)'
<1>1. UNCHANGED <<store, req, work, cache, init>>
  BY DEF New, storageVars
<1>2. CASE e # c
  <2>1. task'[e] = task[e] /\ client'[e] = client[e] /\ slip'[e] = slip[e]
    BY <1>2 DEF New
  <2>2. KeepsLock(task[e].path)
    BY <1>1 DEF KeepsLock
  <2>3. (Sound(e)' => Sound(e)) /\ (Resumable(e)' => Resumable(e))
    BY <1>1, <2>1 DEF Sound, Resumable
  <2> QED
    BY <1>1, <2>1, <2>2, <2>3, FreshFrame DEF Clean
<1>3. CASE e = c
  <2>1. /\ task[c].pc = "idle"
        /\ task'[c] = [pc |-> "get", path |-> q, left |-> Covers(q), got |-> Absent,
                       v |-> client[d].ver]
        /\ client'[c] = [client[d] EXCEPT !.open = TRUE]
        /\ slip'[c] = slip[d]
    BY DEF New, TypeOK, Typed, Tasks
  <2>2. client'[c].ver = client[d].ver /\ client'[c].view = client[d].view
    BY <2>1, ConnTyped DEF Holding
  <2>3. \/ client[d].ver = 0
        \/ task[d].pc = "closed" /\ task[d].path = q
    BY <2>1 DEF New, Resumes, Clean, Versions
  <2>4. task'[c].pc = "get" /\ task'[c].path = q /\ task'[c].v = client[d].ver
        /\ task'[c].left = Covers(q)
    BY <2>1
  <2>5. ASSUME Sound(c)', q \notin Denied, Resumable(c)'
        PROVE  /\ client'[c].view # None
               /\ \A k \in Covers(q) : Heard(q, k) =>
                     client'[c].view[k] = store'[k] \/ Owed(q, k)' \/ PoolLocked(q)'
    <3>1. task[d].pc = "closed" /\ task[d].path = q
      BY <1>1, <2>2, <2>3, <2>4, <2>5 DEF Resumable
    <3>2. Resumable(d) /\ Sound(d)
      BY <1>1, <2>1, <2>2, <2>4, <2>5, <3>1 DEF Resumable, Sound
    <3>3. client[d].view # None /\ Fresh(q, client[d].view, Covers(q))
      BY <2>5, <3>1, <3>2 DEF FreshOrWill
    <3> QED
      BY <1>1, <2>2, <3>3, FreshStays
  <2> QED
    BY <1>3, <2>2, <2>4, <2>5 DEF FreshOrWill, Fresh
<1> QED
  BY <1>2, <1>3

LEMMA FreshConn ==
    ASSUME TypeOK, PoolsExclusive, [Next]_vars,
           NEW c \in Conns, Clean(c), FreshOrWill(c),
           NEW d \in Conns, ConnStep(d) \/ Drop(d)
    PROVE  FreshOrWill(c)'
<1>0. PICK p : p = task[c].path
  OBVIOUS
<1> USE <1>0
<1>1. UNCHANGED <<store, req, work, cache, slip>>
  BY DEF ConnStep, WriteInitial, Drop, Close, storageVars, streamVars
<1>2. client[c] \in Holding /\ task[c] \in Task /\ init[c] \in Initial \cup {None} /\ Stage(c)
  BY ConnTyped DEF Clean
<1>3. Sound(c)' = Sound(c)
  BY <1>1 DEF Sound
<1>4. CASE c # d
  <2>1. task'[c] = task[c] /\ client'[c] = client[c] /\ init'[c] = init[c]
    BY <1>4 DEF ConnStep, WriteInitial, Drop, Close, TypeOK, Typed, Tasks
  <2>2. KeepsLock(p) /\ (Resumable(c)' => Resumable(c))
    BY <1>1, <2>1 DEF KeepsLock, Resumable
  <2> QED
    BY <1>2, <1>3, <2>1, <2>2, FreshFrame
<1>5. ASSUME Sound(c), p \notin Denied
      PROVE  /\ Resumable(c) \/ (task[c].pc = "live" /\ client[c].open /\ init[c] = None) =>
                   /\ client[c].view # None
                   /\ \A k \in Covers(p) : Heard(p, k) =>
                         client[c].view[k] = store'[k] \/ Owed(p, k)' \/ PoolLocked(p)'
             /\ task[c].pc = "live" /\ init[c] # None =>
                   \A k \in Covers(p) : Heard(p, k) =>
                      init[c].view[k] = store'[k] \/ Owed(p, k)' \/ PoolLocked(p)'
  BY <1>1, <1>5, FreshStays DEF FreshOrWill
<1>6. CASE c = d /\ WriteInitial(c)
  <2>1. /\ init[c] # None /\ init'[c] = None /\ task' = task
        /\ client'[c] = Receive(client[c], TRUE, Absent, init[c].ver, init[c].view)
        /\ task[c].pc \in {"live", "closed"}
    BY <1>2, <1>6 DEF WriteInitial, Stage, TypeOK, Typed
  <2>2. CASE client[c].open
    <3>1. client'[c] = [client[c] EXCEPT !.ver = init[c].ver, !.view = init[c].view]
      BY <2>1, <2>2 DEF Receive
    <3>2. client'[c].view = init[c].view
      BY <1>2, <3>1 DEF Holding
    <3>3. init[c].view # None /\ task[c].pc = "live"
      BY <1>2, <2>1, <2>2, NoneAssumption DEF Initial, Data, Stage
    <3> QED
      BY <1>3, <1>5, <2>1, <3>2, <3>3 DEF FreshOrWill, Fresh
  <2>3. CASE ~client[c].open
    <3>1. client'[c] = client[c]
      BY <2>1, <2>3 DEF Receive
    <3>2. Resumable(c)' => Resumable(c)
      BY <1>1, <2>1, <3>1 DEF Resumable
    <3> QED
      BY <1>3, <1>5, <2>1, <2>3, <3>1, <3>2 DEF FreshOrWill, Fresh
  <2> QED
    BY <2>2, <2>3
<1>7. CASE c = d /\ Drop(c)
  <2>1. /\ ~client'[c].open
        /\ client'[c].ver = client[c].ver /\ client'[c].view = client[c].view
        /\ UNCHANGED <<task, init>>
    BY <1>2, <1>7 DEF Drop, Holding, TypeOK, Typed
  <2>2. Resumable(c)' => Resumable(c)
    BY <1>1, <2>1 DEF Resumable
  <2>3. Sound(c) /\ p \notin Denied /\ task[c].pc \in {"get", "set"} =>
           /\ client[c].ver = task[c].v
           /\ \A k \in Covers(p) \ task[c].left : Heard(p, k) =>
                 task[c].got[k] = store'[k] \/ Owed(p, k)' \/ PoolLocked(p)'
    BY <1>1, FreshStays DEF FreshOrWill
  <2> QED
    BY <1>3, <1>5, <2>1, <2>2, <2>3 DEF FreshOrWill, Fresh
<1>8. CASE c = d /\ Close(c)
  <2>1. /\ task[c].pc = "live" /\ ~client[c].open
        /\ task'[c].pc = "closed" /\ task'[c].path = p
        /\ UNCHANGED <<client, init>>
    BY <1>2, <1>8 DEF Close, Task, TypeOK, Typed, Tasks
  <2>2. Resumable(c)' => Resumable(c)
    BY <1>1, <2>1 DEF Resumable
  <2> QED
    BY <1>3, <1>5, <2>1, <2>2 DEF FreshOrWill, Fresh
<1> QED
  BY <1>4, <1>6, <1>7, <1>8 DEF ConnStep

\* When everything is at rest, a client of a sound handshake holds what the
\* storage holds: by a broadcast, by its initial message, or by what it had when
\* it came back with its version.
THEOREM CleanIsCurrent == Spec => []CleanClientCurrent
<1>1. Init => FreshInv
  BY DEF Init, FreshInv, FreshOrWill, Resumable, IdleTask, Tasks
<1>2. ASSUME IndInv, HoldsInv, RegisteredWhileServed, FreshInv, [Next]_vars PROVE FreshInv'
  <2> USE <1>2 DEF IndInv
  <2>1. Times /\ \A c \in Conns : Clean(c) /\ FreshOrWill(c)
    BY DEF HoldsInv, Clean, FreshInv
  <2>2. ASSUME \/ \E w \in Writers : WriterStep(w)
               \/ \E v \in Workers : \/ RLock(v) \/ Filtered(v) \/ RUnlock(v)
                                     \/ \E p \in Paths : LockPool(v, p)
                                     \/ \E k \in Keys : GetKey(v, k)
               \/ \E r \in Readers, p \in Paths : Read(r, p)
               \/ Rest \/ UNCHANGED vars,
               NEW c \in Conns
        PROVE  FreshOrWill(c)'
    <3>1. UNCHANGED <<cache, client, init, slip>> /\ task'[c] = task[c]
      <4>1. ASSUME NEW r \in Readers, NEW p \in Paths, Read(r, p)
            PROVE  UNCHANGED <<cache, client, init, slip>> /\ task'[c] = task[c]
        BY <4>1, ConstantsAssumption DEF Read, streamVars, TypeOK, Typed, Tasks
      <4> QED
        BY <2>2, <4>1
        DEF WriterStep, Set, Del, DelGlob, DelKey, DelDone, Deliver, RLock, Filtered,
            RUnlock, LockPool, GetKey, Rest, vars, streamVars, clientVars
    <3>2. (Sound(c)' => Sound(c)) /\ (Resumable(c)' => Resumable(c))
      BY <3>1 DEF Sound, Resumable
    <3>3. CASE KeepsLock(task[c].path)
      BY <2>1, <3>1, <3>2, <3>3, FreshFrame DEF Clean
    <3>4. CASE ~KeepsLock(task[c].path)
      <4>1. PICK v \in Workers : /\ work[v].pc = "get" /\ work[v].pool = task[c].path
                                 /\ work'[v].pc # "get"
        BY <3>4 DEF KeepsLock
      <4>2. Filtered(v)
        <5>1. \A u \in Workers : Filtered(u) => (u # v => work'[v] = work[v])
          BY DEF Filtered, NextPool, TypeOK, Typed
        <5>2. ASSUME NEW u \in Workers,
                     \/ RLock(u) \/ RUnlock(u)
                     \/ \E p \in Paths : LockPool(u, p)
                     \/ \E k \in Keys : GetKey(u, k)
                     \/ \E w \in Writers : Deliver(w, u)
              PROVE  work'[v].pc = "get"
          BY <4>1, <5>2 DEF RLock, RUnlock, LockPool, GetKey, Deliver, TypeOK, Typed, Work
        <5>3. ASSUME UNCHANGED work PROVE FALSE
          BY <4>1, <5>3
        <5> QED
          BY <2>2, <4>1, <5>1, <5>2, <5>3
          DEF WriterStep, Set, Del, DelGlob, DelKey, DelDone, Read, Rest, vars
      <4>3. task[c].path \in Denied
        BY <4>1, <4>2 DEF Filtered
      <4> QED
        BY <3>1, <4>3 DEF FreshOrWill
    <3> QED
      BY <3>3, <3>4
  <2>3. ASSUME NEW v \in Workers, NEW s \in BOOLEAN, Publish(v, s), NEW c \in Conns
        PROVE  FreshOrWill(c)'
    BY <2>1, <2>3, FreshPublish
  <2>4. ASSUME NEW t \in Tasks, TaskStep(t), NEW c \in Conns PROVE FreshOrWill(c)'
    BY <2>1, <2>4, FreshHandler
  <2>5. ASSUME NEW d \in Conns, ConnStep(d) \/ Drop(d), NEW c \in Conns PROVE FreshOrWill(c)'
    BY <2>1, <2>5, FreshConn
  <2>6. ASSUME NEW c \in Conns, NEW d \in Conns, NEW p \in Paths, New(c, p, d), NEW e \in Conns
        PROVE  FreshOrWill(e)'
    BY <2>1, <2>6, FreshNew
  <2>7. \A c \in Conns : FreshOrWill(c)'
    BY <2>2, <2>3, <2>4, <2>5, <2>6 DEF Next, WorkerStep
  <2> QED
    BY <2>7 DEF FreshInv
<1>3. ASSUME PoolsExclusive, HoldsInv, FreshInv PROVE CleanClientCurrent
  <2> SUFFICES ASSUME Quiet, NEW c \in Conns, task[c].pc = "live", client[c].open, Sound(c)
               PROVE  client[c].view # None /\ Current(task[c].path, client[c].view)
    BY DEF CleanClientCurrent
  <2>1. \A k \in Keys : ~Owed(task[c].path, k) /\ ~PoolLocked(task[c].path)
    BY <1>3 DEF Quiet, Owed, PoolLocked, PoolsExclusive
  <2>2. task[c].path \notin Denied /\ init[c] = None
    BY <1>3 DEF HoldsInv, Stage, Quiet
  <2>3. client[c].view # None /\ Fresh(task[c].path, client[c].view, Covers(task[c].path))
    BY <1>3, <2>2 DEF FreshInv, FreshOrWill
  <2> QED
    BY <2>1, <2>3 DEF Fresh, Current, Covers
<1> QED
  BY <1>1, <1>2, <1>3, Inductive, HoldsInductive, PTL DEF Spec, IndInv

-----------------------------------------------------------------------------
(***************************************************************************)
(* Stream implements BroadcastBus: each step of a writer, worker or        *)
(* handler is a step of the bus or a stutter.                              *)
(***************************************************************************)
\* The parts of the mapping.
LEMMA Parts ==
    /\ Mirrors \subseteq Paths
    /\ \A p \in Mirrors : Covered[p] \subseteq Keys /\ Covered[p] \subseteq Covers(p)
    /\ \A p \in Mirrors : \A k \in Covers(p) : k \in Covered[p] <=> Heard(p, k)
    /\ \A some \in SUBSET Keys : None \notin [some -> Nat]
BY NoneAssumption DEF Mirrors, Covered, Covers

\* What a worker has read is what the bus collects for the pool it is in.
LEMMA SeenOfHolder ==
    ASSUME PoolsExclusive, NEW v \in Workers, work[v].pc = "get",
           work[v].pool \in Mirrors
    PROVE  BusSeen[work[v].pool] =
              [k \in Covered[work[v].pool] \ work[v].left |-> work[v].got[k]]
<1>1. PoolLocked(work[v].pool)
  BY DEF PoolLocked
<1>2. \A u \in Workers : work[u].pc = "get" /\ work[u].pool = work[v].pool <=> u = v
  BY DEF PoolsExclusive
<1>3. (CHOOSE u \in Workers : work[u].pc = "get" /\ work[u].pool = work[v].pool) = v
  BY <1>2
<1> QED
  BY <1>1, <1>3 DEF BusSeen, Collected

\* The same in the next state.
LEMMA SeenOfNextHolder ==
    ASSUME PoolsExclusive', NEW v \in Workers, work'[v].pc = "get",
           work'[v].pool \in Mirrors
    PROVE  BusSeen'[work'[v].pool] =
              [k \in Covered[work'[v].pool] \ work'[v].left |-> work'[v].got[k]]
<1>1. PoolLocked(work[v].pool)'
  BY DEF PoolLocked
<1>2. \A u \in Workers : work'[u].pc = "get" /\ work'[u].pool = work'[v].pool <=> u = v
  BY DEF PoolsExclusive
<1>3. (CHOOSE u \in Workers : work'[u].pc = "get" /\ work'[u].pool = work'[v].pool) = v
  BY <1>2
<1> QED
  BY <1>1, <1>3 DEF BusSeen, Collected

LEMMA SeenOfFree ==
    /\ \A p \in Mirrors : ~PoolLocked(p) => BusSeen[p] = None
    /\ \A p \in Mirrors : ~PoolLocked(p)' => BusSeen'[p] = None
BY DEF BusSeen

\* A pool keeps what is collected for it as long as its worker does.
LEMMA SeenKept ==
    ASSUME PoolsExclusive, PoolsExclusive', NEW p \in Mirrors,
           \A v \in Workers :
              \/ work'[v] = work[v]
              \/ /\ ~(work[v].pc = "get" /\ work[v].pool = p)
                 /\ ~(work'[v].pc = "get" /\ work'[v].pool = p)
    PROVE  BusSeen'[p] = BusSeen[p]
<1>1. CASE PoolLocked(p)
  <2>1. PICK v \in Workers : work[v].pc = "get" /\ work[v].pool = p
    BY <1>1 DEF PoolLocked
  <2>2. work'[v] = work[v]
    BY <2>1
  <2>3. BusSeen[p] = [k \in Covered[p] \ work[v].left |-> work[v].got[k]]
    BY <2>1, SeenOfHolder
  <2>4. BusSeen'[p] = [k \in Covered[p] \ work'[v].left |-> work'[v].got[k]]
    BY <2>1, <2>2, SeenOfNextHolder
  <2> QED
    BY <2>2, <2>3, <2>4
<1>2. CASE ~PoolLocked(p)
  <2>1. ~PoolLocked(p)'
    BY <1>2 DEF PoolLocked
  <2> QED
    BY <1>2, <2>1, SeenOfFree
<1> QED
  BY <1>1, <1>2

\* One pool's part changes, and the others keep theirs.
LEMMA Excepted ==
    ASSUME NEW f, NEW g, NEW q \in Mirrors, NEW e,
           f = [p \in Mirrors |-> f[p]], g = [p \in Mirrors |-> g[p]],
           g[q] = e, \A p \in Mirrors \ {q} : g[p] = f[p]
    PROVE  g = [f EXCEPT ![q] = e]
OBVIOUS

LEMMA Mapped ==
    /\ BusTold = [p \in Mirrors |-> BusTold[p]] /\ BusTold' = [p \in Mirrors |-> BusTold'[p]]
    /\ BusSeen = [p \in Mirrors |-> BusSeen[p]] /\ BusSeen' = [p \in Mirrors |-> BusSeen'[p]]
    /\ BusDue = [p \in Mirrors |-> BusDue[p]] /\ BusDue' = [p \in Mirrors |-> BusDue'[p]]
BY DEF BusTold, BusSeen, BusDue

LEMMA SameSeen ==
    ASSUME PoolsExclusive, PoolsExclusive',
           \A p \in Mirrors : BusSeen'[p] = BusSeen[p]
    PROVE  BusSeen' = BusSeen
BY DEF BusSeen

\* A pool that was told something, or is being collected for, exists.
LEMMA TellsExist ==
    ASSUME PoolsExclusive, NEW p \in Mirrors, BusTold[p] # None \/ BusSeen[p] # None
    PROVE  p \in pools
BY DEF PoolsExclusive, BusTold, BusSeen, PoolLocked, Mirrors

-----------------------------------------------------------------------------
\* A step that forgets nothing that is owed, and changes neither the storage
\* nor what pools were told or collect, is one of asking.
LEMMA Asks ==
    ASSUME UNCHANGED <<store, told>>, BusSeen' = BusSeen,
           pools \subseteq pools',
           \A p \in Mirrors \cap pools : \A k \in Covered[p] : Owed(p, k) => Owed(p, k)'
    PROVE  Bus!Ask
<1>1. BusTold' = BusTold
  BY DEF BusTold
<1>2. \A p \in Mirrors : BusDue[p] \subseteq BusDue'[p] /\ BusDue'[p] \subseteq Covered[p]
  BY DEF BusDue
<1>3. Bus!Owing({})
  BY <1>2 DEF Bus!Owing, BusDue
<1> QED
  BY <1>1, <1>3 DEF Bus!Ask

-----------------------------------------------------------------------------
(***************************************************************************)
(* Writers.                                                                *)
(***************************************************************************)
\* A key changes; whoever was told it, or is being told, is owed it.
LEMMA Changes ==
    ASSUME PoolsExclusive, UNCHANGED <<told, pools, work>>,
           NEW k \in Keys, store' = [store EXCEPT ![k] = store'[k]], store'[k] \in Nat,
           BusSeen' = BusSeen,
           \A p \in Mirrors \cap pools : \A j \in Covered[p] : Owed(p, j) => Owed(p, j)',
           \A p \in Mirrors : k \in Covered[p] => Owed(p, k)'
    PROVE  Bus!Change(k, store'[k])
<1>1. BusTold' = BusTold
  BY DEF BusTold
<1>2. \A p \in Mirrors : BusDue[p] \subseteq BusDue'[p] /\ BusDue'[p] \subseteq Covered[p]
  BY DEF BusDue
<1>3. \A p \in Mirrors : BusTold[p] # None \/ BusSeen[p] # None
                            => {k} \cap Covered[p] \subseteq BusDue'[p]
  BY TellsExist DEF BusDue
<1>4. Bus!Owing({k})
  BY <1>2, <1>3 DEF Bus!Owing, BusDue
<1> QED
  BY <1>1, <1>4 DEF Bus!Change

LEMMA WriterOnBus ==
    ASSUME TypeOK, PoolsExclusive, PoolsExclusive', NEW w \in Writers, WriterStep(w)
    PROVE  [Bus!Next]_(Bus!vars)
<1> USE DEF TypeOK, Typed, Placed
<1>1. ASSUME NEW k \in Keys, Set(w, k) PROVE Bus!Change(k, store'[k])
  <2>1. k \in Covers(k) /\ k \in Paths
    BY MatchAssumption DEF Paths
  <2>2. \A p \in Mirrors : k \in Covered[p] => Owed(p, k)'
    BY <1>1, <2>1, Parts DEF Set, Notify, Heard, Loud, Owed
  <2>3. UNCHANGED <<work, told, pools>> /\ store' = [store EXCEPT ![k] = store'[k]]
    BY <1>1 DEF Set, streamVars, Data
  <2>4. req[w].pc = "idle" /\ \A u \in Writers \ {w} : req'[u] = req[u]
    BY <1>1 DEF Set
  <2>5. \A p \in Mirrors : \A j \in Covered[p] : Owed(p, j) => Owed(p, j)'
    BY <2>3, <2>4 DEF Owed
  <2>6. BusSeen' = BusSeen
    BY <2>3, SeenKept, SameSeen
  <2>7. store'[k] \in Nat
    BY <1>1 DEF Set, Data
  <2> QED
    BY <2>2, <2>3, <2>5, <2>6, <2>7, Changes
<1>2. ASSUME NEW k \in Keys, DelKey(w, k) PROVE Bus!Change(k, store'[k])
  <2>1. /\ req'[w].pc = req[w].pc /\ req'[w].path = req[w].path
        /\ \A u \in Writers \ {w} : req'[u] = req[u]
    BY <1>2 DEF DelKey, Request
  <2>2. req[w].pc # "idle" /\ k \in Covers(req[w].path)
    BY <1>2 DEF DelKey
  <2>3. UNCHANGED <<work, told, pools>> /\ store' = [store EXCEPT ![k] = store'[k]]
    BY <1>2 DEF DelKey, streamVars, Data
  <2>4. \A p \in Mirrors : Owed(p, k)'
    BY <2>1, <2>2 DEF Owed, Covers
  <2>5. \A p \in Mirrors : \A j \in Covered[p] : Owed(p, j) => Owed(p, j)'
    BY <2>1, <2>3 DEF Owed
  <2>6. BusSeen' = BusSeen
    BY <2>3, SeenKept, SameSeen
  <2>7. store'[k] \in Nat
    BY <1>2 DEF DelKey, Data
  <2> QED
    BY <2>3, <2>4, <2>5, <2>6, <2>7, Changes
<1>3. ASSUME \/ \E k \in Keys : Del(w, k)
             \/ \E p \in Globs : DelGlob(w, p)
             \/ DelDone(w)
      PROVE  Bus!Ask
  <2>1. \A j \in Keys : Loud(j) /\ req[w].pc # "idle" /\ j \in Covers(req[w].path)
           => req'[w].pc # "idle" /\ j \in Covers(req'[w].path)
    BY <1>3 DEF DelDone, Del, DelGlob, Notify, Loud
  <2>2. UNCHANGED <<store, work, told, pools>>
    BY <1>3 DEF DelDone, Del, DelGlob, streamVars
  <2>3. \A u \in Writers \ {w} : req'[u] = req[u]
    BY <1>3 DEF DelDone, Del, DelGlob
  <2>4. \A p \in Mirrors : \A j \in Covered[p] : Owed(p, j) => Owed(p, j)'
    BY <2>1, <2>2, <2>3, Parts DEF Heard, Owed
  <2>5. BusSeen' = BusSeen
    BY <2>2, SeenKept, SameSeen
  <2> QED
    BY <2>2, <2>4, <2>5, Asks
<1>4. ASSUME NEW v \in Workers, Deliver(w, v) PROVE Bus!Ask
  <2>1. UNCHANGED <<store, told, pools>>
    BY <1>4 DEF Deliver, streamVars
  <2>2. /\ work'[v].pc = "lock" /\ work'[v].path = req[w].path
        /\ work'[v].todo = work[v].todo /\ work[v].pc = "recv"
        /\ \A u \in Workers \ {v} : work'[u] = work[u]
        /\ \A x \in Writers \ {w} : req'[x] = req[x]
    BY <1>4 DEF Deliver, Work
  <2>3. \A p \in Mirrors : \A j \in Covered[p] : Owed(p, j) => Owed(p, j)'
    BY <2>2 DEF Owed
  <2>4. BusSeen' = BusSeen
    BY <2>2, SeenKept, SameSeen
  <2> QED
    BY <2>1, <2>3, <2>4, Asks
<1> QED
  BY <1>1, <1>2, <1>3, <1>4 DEF WriterStep, Bus!Next

-----------------------------------------------------------------------------
(***************************************************************************)
(* Workers.                                                                *)
(***************************************************************************)
LEMMA RLockOnBus ==
    ASSUME TypeOK, PoolsExclusive, PoolsExclusive',
           NEW v \in Workers, RLock(v)
    PROVE  Bus!Ask
<1> USE DEF TypeOK, Typed, Placed
<1>1. UNCHANGED <<store, req, told, pools>>
  BY DEF RLock, streamVars, storageVars
<1>2. /\ work'[v].pc = "loop" /\ work[v].pc = "lock"
      /\ work'[v].todo = {p \in pools : Peer(p, work[v].path)}
      /\ \A u \in Workers \ {v} : work'[u] = work[u]
  BY DEF RLock, Work
<1>3. work[v].path \in Paths /\ work[v].todo = {}
  BY <1>2 DEF PoolsExclusive
<1>4. ASSUME NEW p \in Mirrors \cap pools, NEW k \in Covered[p], Owed(p, k)
      PROVE  Owed(p, k)'
  <2>1. CASE k \in Covers(work[v].path)
    <3>1. Peer(p, work[v].path)
      BY <1>3, <1>4, <2>1, Parts DEF Heard
    <3> QED
      BY <1>2, <3>1 DEF Owed
  <2>2. CASE k \notin Covers(work[v].path)
    BY <1>1, <1>2, <1>3, <1>4, <2>2 DEF Owed
  <2> QED
    BY <2>1, <2>2
<1>5. BusSeen' = BusSeen
  BY <1>2, SeenKept, SameSeen
<1> QED
  BY <1>1, <1>4, <1>5, Asks

LEMMA ReleaseOnBus ==
    ASSUME TypeOK, PoolsExclusive, PoolsExclusive', NEW v \in Workers,
           RUnlock(v) \/ Filtered(v)
    PROVE  Bus!Ask
<1> USE DEF TypeOK, Typed, Placed
<1>1. UNCHANGED <<store, req, told, pools>>
  BY DEF RUnlock, Filtered, streamVars, storageVars
<1>2. /\ work'[v].pc \in {"recv", "loop"} /\ work'[v].todo = work[v].todo
      /\ work[v].pc \in {"loop", "get"}
      /\ work[v].pc = "get" => work[v].left = {} /\ work[v].pool \in Denied
      /\ \A u \in Workers \ {v} : work'[u] = work[u]
  <2>1. CASE RUnlock(v)
    BY <2>1 DEF RUnlock, IdleWork, Work
  <2>2. CASE Filtered(v)
    BY <2>2 DEF Filtered, NextPool, Work
  <2> QED
    BY <2>1, <2>2
<1>3. \A p \in Mirrors : \A k \in Covered[p] : Owed(p, k) => Owed(p, k)'
  BY <1>1, <1>2 DEF Owed
<1>4. BusSeen' = BusSeen
  BY <1>2, SeenKept, SameSeen DEF Mirrors
<1> QED
  BY <1>1, <1>3, <1>4, Asks

LEMMA LockPoolOnBus ==
    ASSUME TypeOK, PoolsExclusive, PoolsExclusive',
           NEW v \in Workers, NEW q \in Paths, LockPool(v, q)
    PROVE  Bus!Ask \/ (q \in Mirrors /\ Bus!Collect(q))
<1> USE DEF TypeOK, Typed, Placed
<1>1. UNCHANGED <<store, req, told, pools>> /\ BusTold' = BusTold
  BY DEF LockPool, streamVars, storageVars, BusTold
<1>2. /\ work'[v].pc = "get" /\ work'[v].pool = q /\ work'[v].left = Covers(q)
      /\ work'[v].todo = work[v].todo \ {q} /\ work[v].pc = "loop"
      /\ q \in work[v].todo /\ q \in pools
      /\ \A u \in Workers \ {v} : work'[u] = work[u]
  BY DEF LockPool, Work, PoolsExclusive
<1>3. ASSUME NEW p \in Mirrors \ {q}, NEW k \in Covered[p] PROVE Owed(p, k)' <=> Owed(p, k)
  <2>1. /\ \A u \in Workers : p \in work'[u].todo <=> p \in work[u].todo
        /\ \A u \in Workers : work'[u].pc = "lock" <=> work[u].pc = "lock"
        /\ \A u \in Workers : work'[u].pc = "lock" => work'[u] = work[u]
    BY <1>2
  <2>2. \A u \in Workers : work'[u].pc = "get" /\ work'[u].pool = p
                              <=> work[u].pc = "get" /\ work[u].pool = p
    BY <1>2
  <2>3. \A u \in Workers : work[u].pc = "get" => work'[u] = work[u]
    BY <1>2
  <2> QED
    BY <1>1, <2>1, <2>2, <2>3 DEF Owed
<1>4. \A p \in Mirrors \ {q} : BusSeen'[p] = BusSeen[p]
  BY <1>2, SeenKept
<1>5. CASE q \notin Mirrors
  <2>1. BusSeen' = BusSeen
    BY <1>4, <1>5, SameSeen
  <2> QED
    BY <1>1, <1>3, <1>5, <2>1, Asks
<1>6. CASE q \in Mirrors
  <2>1. BusSeen[q] = None
    BY <1>6, SeenOfFree DEF LockPool
  <2>2. Covered[q] \ work'[v].left = {}
    BY <1>2, <1>6, Parts
  <2>3. BusSeen'[q] = [k \in {} |-> 0]
    <3>1. BusSeen'[q] = [k \in Covered[q] \ work'[v].left |-> work'[v].got[k]]
      BY <1>2, <1>6, SeenOfNextHolder
    <3> QED
      BY <2>2, <3>1
  <2>4. BusSeen' = [BusSeen EXCEPT ![q] = [k \in {} |-> 0]]
    BY <1>4, <1>6, <2>3 DEF BusSeen
  <2>5. \A k \in Covered[q] : Owed(q, k)'
    BY <1>2, <1>6, Parts DEF Owed
  <2>6. BusDue'[q] = Covered[q]
    BY <1>1, <1>2, <1>6, <2>5 DEF BusDue
  <2>7. \A p \in Mirrors \ {q} : BusDue'[p] = BusDue[p]
    BY <1>1, <1>3 DEF BusDue
  <2>8. BusDue' = [BusDue EXCEPT ![q] = Covered[q]]
    BY <2>6, <2>7 DEF BusDue
  <2> QED
    BY <1>1, <1>6, <2>1, <2>4, <2>8 DEF Bus!Collect
<1> QED
  BY <1>5, <1>6

LEMMA GetKeyOnBus ==
    ASSUME TypeOK, PoolsExclusive, PoolsExclusive',
           NEW v \in Workers, NEW j \in Keys, GetKey(v, j)
    PROVE  Bus!Ask \/ (work[v].pool \in Mirrors /\ Bus!Look(work[v].pool, j))
<1> USE DEF TypeOK, Typed, Placed
<1> DEFINE q == work[v].pool
<1>1. UNCHANGED <<store, req, told, pools>> /\ BusTold' = BusTold
  BY DEF GetKey, streamVars, storageVars, BusTold
<1>2. /\ work[v].pc = "get" /\ j \in work[v].left
      /\ work'[v] = [work[v] EXCEPT !.left = @ \ {j}, !.got[j] = store[j]]
      /\ \A u \in Workers \ {v} : work'[u] = work[u]
  BY DEF GetKey
<1>3. /\ work'[v].pc = "get" /\ work'[v].pool = q
      /\ work'[v].left = work[v].left \ {j} /\ work'[v].todo = work[v].todo
      /\ work'[v].got = [work[v].got EXCEPT ![j] = store[j]]
      /\ DOMAIN work[v].got = Keys
  BY <1>2 DEF Work, Data
<1>4. ASSUME NEW p \in Mirrors, NEW k \in Covered[p], ~(p = q /\ k = j)
      PROVE  Owed(p, k)' <=> Owed(p, k)
  <2>1. \A u \in Workers : /\ work'[u].pc = work[u].pc /\ work'[u].todo = work[u].todo
                           /\ work[u].pc = "lock" => work'[u] = work[u]
    BY <1>2, <1>3
  <2>2. \A u \in Workers : work[u].pc = "get" /\ work[u].pool = p /\ k \in work[u].left
                    <=> work'[u].pc = "get" /\ work'[u].pool = p /\ k \in work'[u].left
    BY <1>2, <1>3, <1>4
  <2> QED
    BY <1>1, <2>1, <2>2 DEF Owed
<1>5. \A p \in Mirrors \ {q} : BusSeen'[p] = BusSeen[p]
  BY <1>2, <1>3, SeenKept
<1>6. CASE q \in Mirrors /\ j \in Covered[q]
  <2>1. BusSeen[q] = [k \in Covered[q] \ work[v].left |-> work[v].got[k]]
    BY <1>2, <1>6, SeenOfHolder
  <2>2. BusSeen'[q] = [k \in Covered[q] \ work'[v].left |-> work'[v].got[k]]
    BY <1>3, <1>6, SeenOfNextHolder
  <2>3. Covered[q] \ work'[v].left = (Covered[q] \ work[v].left) \cup {j}
    BY <1>3, <1>6
  <2>4. \A k \in (Covered[q] \ work[v].left) \cup {j} :
           work'[v].got[k] = IF k = j THEN store[j] ELSE work[v].got[k]
    BY <1>3, <1>6, Parts
  <2>5. BusSeen'[q] = [k \in (Covered[q] \ work[v].left) \cup {j} |->
                          IF k = j THEN store[j] ELSE work[v].got[k]]
    BY <2>2, <2>3, <2>4
  <2>6. BusSeen'[q] = [k \in DOMAIN BusSeen[q] \cup {j} |->
                          IF k = j THEN store[j] ELSE BusSeen[q][k]]
    BY <1>2, <2>1, <2>5
  <2>7. BusSeen' = [BusSeen EXCEPT ![q] =
           [k \in DOMAIN @ \cup {j} |-> IF k = j THEN store[j] ELSE @[k]]]
    BY <1>5, <1>6, <2>6, Excepted, Mapped
  <2>8. BusSeen[q] # None
    <3>1. Covered[q] \ work[v].left \in SUBSET Keys
      BY <1>6, Parts
    <3>2. BusSeen[q] \in [Covered[q] \ work[v].left -> Nat]
      BY <1>3, <2>1, <3>1 DEF Work, Data
    <3> QED
      BY <3>1, <3>2, Parts
  <2>9. j \in Covered[q] \ DOMAIN BusSeen[q]
    BY <1>2, <1>6, <2>1
  <2>10. \A p \in Mirrors \ {q} : BusDue'[p] = BusDue[p]
    BY <1>1, <1>4 DEF BusDue
  <2>11. q \in pools /\ j \in BusDue[q]
    BY <1>2, <1>6 DEF PoolsExclusive, BusDue, Owed
  <2>12. BusDue'[q] \in {BusDue[q], BusDue[q] \ {j}}
    BY <1>1, <1>4, <1>6, <2>11 DEF BusDue
  <2>13. BusDue' \in {BusDue, [BusDue EXCEPT ![q] = @ \ {j}]}
    <3>1. CASE BusDue'[q] = BusDue[q]
      <4>1. \A p \in Mirrors : BusDue'[p] = BusDue[p]
        BY <2>10, <3>1
      <4> QED
        BY <4>1, Mapped
    <3>2. CASE BusDue'[q] = BusDue[q] \ {j}
      BY <1>6, <2>10, <3>2, Excepted, Mapped
    <3> QED
      BY <2>12, <3>1, <3>2
  <2> QED
    BY <1>1, <1>6, <2>7, <2>8, <2>9, <2>13 DEF Bus!Look
<1>7. CASE ~(q \in Mirrors /\ j \in Covered[q])
  <2>1. ASSUME q \in Mirrors PROVE BusSeen'[q] = BusSeen[q]
    <3>1. BusSeen[q] = [k \in Covered[q] \ work[v].left |-> work[v].got[k]]
      BY <1>2, <2>1, SeenOfHolder
    <3>2. BusSeen'[q] = [k \in Covered[q] \ work'[v].left |-> work'[v].got[k]]
      BY <1>3, <2>1, SeenOfNextHolder
    <3>3. Covered[q] \ work'[v].left = Covered[q] \ work[v].left
      BY <1>3, <1>7, <2>1
    <3>4. \A k \in Covered[q] : work'[v].got[k] = work[v].got[k]
      BY <1>3, <1>7, <2>1, Parts
    <3> QED
      BY <3>1, <3>2, <3>3, <3>4
  <2>2. BusSeen' = BusSeen
    BY <1>5, <2>1, SameSeen
  <2>3. \A p \in Mirrors : \A k \in Covered[p] : Owed(p, k) => Owed(p, k)'
    BY <1>4, <1>7
  <2> QED
    BY <1>1, <2>2, <2>3, Asks
<1> QED
  BY <1>6, <1>7

LEMMA PublishOnBus ==
    ASSUME TypeOK, PoolsExclusive, PoolsExclusive',
           NEW v \in Workers, NEW s \in BOOLEAN, Publish(v, s)
    PROVE  work[v].pool \in Mirrors /\ Bus!Tell(work[v].pool)
<1> USE DEF TypeOK, Typed, Placed
<1> DEFINE q == work[v].pool
<1>1. /\ UNCHANGED <<store, req, pools>>
      /\ told' = [told EXCEPT ![q] = work[v].got]
  BY DEF Publish, streamVars, storageVars
<1>2. /\ work'[v].pc = "loop" /\ work'[v].todo = work[v].todo
      /\ work[v].pc = "get" /\ work[v].left = {} /\ q \in Mirrors /\ q \in pools
      /\ \A u \in Workers \ {v} : work'[u] = work[u]
  BY DEF Publish, NextPool, Work, Mirrors, PoolsExclusive
<1>3. BusSeen[q] = [k \in Covered[q] |-> work[v].got[k]]
  <2>1. BusSeen[q] = [k \in Covered[q] \ work[v].left |-> work[v].got[k]]
    BY <1>2, SeenOfHolder
  <2> QED
    BY <1>2, <2>1
<1>4. Covered[q] \in SUBSET Keys /\ BusSeen[q] \in [Covered[q] -> Nat]
  BY <1>2, <1>3, Parts DEF Work, Data
<1>5. BusSeen[q] # None /\ DOMAIN BusSeen[q] = Covered[q]
  BY <1>4, Parts
<1>6. \A p \in Mirrors : \A k \in Covered[p] : Owed(p, k)' <=> Owed(p, k)
  BY <1>1, <1>2 DEF Owed
<1>7. BusDue' = BusDue
  BY <1>1, <1>6 DEF BusDue
<1>8. BusSeen' = [BusSeen EXCEPT ![q] = None]
  <2>1. \A p \in Mirrors \ {q} : BusSeen'[p] = BusSeen[p]
    BY <1>2, SeenKept
  <2>2. \A p \in Mirrors : p = q => ~PoolLocked(p)'
    BY <1>2 DEF PoolLocked, PoolsExclusive
  <2>3. BusSeen'[q] = None
    BY <1>2, <2>2, SeenOfFree
  <2> QED
    BY <2>1, <2>3 DEF BusSeen
<1>9. BusTold' = [BusTold EXCEPT ![q] = BusSeen[q]]
  <2>1. told'[q] = work[v].got /\ work[v].got # None
    <3>1. work[v].got \in [Keys -> Nat]
      BY DEF Work, Data
    <3> QED
      BY <1>1, <1>2, <3>1, Parts
  <2>2. BusTold'[q] = BusSeen[q]
    BY <1>2, <1>3, <2>1 DEF BusTold
  <2>3. \A p \in Mirrors \ {q} : BusTold'[p] = BusTold[p]
    BY <1>1, Parts DEF BusTold
  <2> QED
    BY <2>2, <2>3 DEF BusTold
<1> QED
  BY <1>1, <1>2, <1>5, <1>7, <1>8, <1>9 DEF Bus!Tell

-----------------------------------------------------------------------------
\* Handlers and connections make pools, which are owed what is under way.
LEMMA OthersOnBus ==
    ASSUME PoolsExclusive, PoolsExclusive',
           UNCHANGED <<store, req, work, told>>, pools \subseteq pools'
    PROVE  Bus!Ask
<1>1. \A p, k : Owed(p, k) => Owed(p, k)'
  BY DEF Owed
<1>2. BusSeen' = BusSeen
  BY SeenKept, SameSeen
<1> QED
  BY <1>1, <1>2, Asks

LEMMA StepOnBus ==
    ASSUME TypeOK, PoolsExclusive, PoolsExclusive', [Next]_vars
    PROVE  [Bus!Next]_(Bus!vars)
<1>1. ASSUME NEW w \in Writers, WriterStep(w) PROVE [Bus!Next]_(Bus!vars)
  BY <1>1, WriterOnBus
<1>2. ASSUME NEW v \in Workers, WorkerStep(v) PROVE [Bus!Next]_(Bus!vars)
  <2>1. CASE RLock(v) \/ RUnlock(v) \/ Filtered(v)
    BY <2>1, RLockOnBus, ReleaseOnBus DEF Bus!Next
  <2>2. ASSUME NEW q \in Paths, LockPool(v, q) PROVE [Bus!Next]_(Bus!vars)
    BY <2>2, LockPoolOnBus DEF Bus!Next
  <2>3. ASSUME NEW j \in Keys, GetKey(v, j) PROVE [Bus!Next]_(Bus!vars)
    BY <2>3, GetKeyOnBus DEF Bus!Next
  <2>4. ASSUME NEW s \in BOOLEAN, Publish(v, s) PROVE [Bus!Next]_(Bus!vars)
    BY <2>4, PublishOnBus DEF Bus!Next
  <2> QED
    BY <1>2, <2>1, <2>2, <2>3, <2>4 DEF WorkerStep
<1>3. ASSUME UNCHANGED <<store, req, work, told>>, pools \subseteq pools'
      PROVE  [Bus!Next]_(Bus!vars)
  BY <1>3, OthersOnBus DEF Bus!Next
<1>4. ASSUME NEW t \in Tasks, TaskStep(t) PROVE [Bus!Next]_(Bus!vars)
  BY <1>3, <1>4
  DEF TaskStep, FetchKey, FetchDenied, CacheHit, CacheMiss, SetCache,
      storageVars, streamVars
<1>5. ASSUME NEW c \in Conns, ConnStep(c) \/ Drop(c) PROVE [Bus!Next]_(Bus!vars)
  BY <1>3, <1>5 DEF ConnStep, WriteInitial, Close, Drop, storageVars, streamVars
<1>6. ASSUME NEW c \in Conns, NEW p \in Paths, NEW d \in Conns, New(c, p, d)
      PROVE  [Bus!Next]_(Bus!vars)
  BY <1>3, <1>6 DEF New, storageVars
<1>7. ASSUME NEW r \in Readers, NEW p \in Paths, Read(r, p)
      PROVE  [Bus!Next]_(Bus!vars)
  BY <1>3, <1>7 DEF Read, storageVars, streamVars
<1>8. CASE Rest \/ UNCHANGED vars
  BY <1>3, <1>8 DEF Rest, vars
<1> QED
  BY <1>1, <1>2, <1>4, <1>5, <1>6, <1>7, <1>8 DEF Next

\* Stream keeps the promise of BroadcastBus: whatever the number of writers,
\* workers, handlers and pools, every broadcast tells a pool values that were
\* read one after another since it was locked, and no change is forgotten.
THEOREM StreamIsBus == Spec => ImplementsBus
<1>1. Init => Bus!Init
  <2> SUFFICES ASSUME Init PROVE Bus!Init
    OBVIOUS
  <2>1. store = [k \in Keys |-> 0] /\ pools = {} /\ \A p \in Paths : told[p] = None
    BY DEF Init, Absent
  <2>2. \A v \in Workers : work[v].pc = "recv"
    BY DEF Init, IdleWork
  <2>3. BusTold = [p \in Mirrors |-> None]
    BY <2>1, Parts DEF BusTold
  <2>4. BusSeen = [p \in Mirrors |-> None]
    BY <2>2 DEF BusSeen, PoolLocked
  <2>5. BusDue = [p \in Mirrors |-> {}]
    BY <2>1 DEF BusDue
  <2> QED
    BY <2>1, <2>3, <2>4, <2>5 DEF Bus!Init
<1>2. TypeOK /\ PoolsExclusive /\ PoolsExclusive' /\ [Next]_vars
         => [Bus!Next]_(Bus!vars)
  BY StepOnBus
<1> QED
  BY <1>1, <1>2, TypeCorrect, BroadcastsExclude, PTL DEF Spec, ImplementsBus, Bus!Spec

-----------------------------------------------------------------------------
(***************************************************************************)
(* What the bus promises, it keeps.                                        *)
(***************************************************************************)
LEMMA BusInitMirrors == Bus!Init => PoolsMirror
BY DEF Bus!Init, PoolsMirror, Bus!TypeOK, Bus!Mirrored

\* No map of keys to numbers is None.
LEMMA ToldIsNotNone ==
    ASSUME NEW p \in Mirrors, NEW some \in SUBSET Covered[p], NEW f \in [some -> Nat]
    PROVE  f # None
<1>1. some \in SUBSET Keys
  BY Parts
<1> QED
  BY <1>1, Parts

LEMMA BusStepMirrors ==
    ASSUME PoolsMirror, [Bus!Next]_(Bus!vars)
    PROVE  PoolsMirror'
<1> USE DEF PoolsMirror
<1>1. CASE Bus!Ask
  BY <1>1 DEF Bus!Ask, Bus!Owing, Bus!TypeOK, Bus!Mirrored
<1>2. ASSUME NEW k \in Keys, Bus!Change(k, store'[k]) PROVE PoolsMirror'
  <2>1. /\ store'[k] \in Nat /\ store' = [store EXCEPT ![k] = store'[k]]
        /\ BusTold' = BusTold /\ BusSeen' = BusSeen /\ Bus!Owing({k})
    BY <1>2 DEF Bus!Change
  <2>2. Bus!TypeOK'
    BY <2>1 DEF Bus!TypeOK, Bus!Owing
  <2>3. ASSUME NEW p \in Mirrors, NEW j \in Covered[p] \ BusDue'[p],
               BusTold[p] # None \/ BusSeen[p] # None
        PROVE  store'[j] = store[j] /\ j \in Covered[p] \ BusDue[p]
    <3>1. j # k /\ j \in Keys
      BY <2>1, <2>3, Parts DEF Bus!Owing
    <3> QED
      BY <2>1, <3>1 DEF Bus!TypeOK, Bus!Owing
  <2>4. Bus!Mirrored'
    BY <2>1, <2>3, Zenon DEF Bus!Mirrored
  <2> QED
    BY <2>2, <2>4
<1>3. ASSUME NEW q \in Mirrors, Bus!Collect(q) PROVE PoolsMirror'
  BY <1>3 DEF Bus!Collect, Bus!TypeOK, Bus!Mirrored
<1>4. ASSUME NEW q \in Mirrors, NEW k \in Keys, Bus!Look(q, k) PROVE PoolsMirror'
  <2>1. BusSeen[q] # None /\ k \in Covered[q] \ DOMAIN BusSeen[q]
    BY <1>4 DEF Bus!Look
  <2>2. /\ UNCHANGED <<store, BusTold>>
        /\ DOMAIN BusSeen' = Mirrors
        /\ \A p \in Mirrors \ {q} : BusSeen'[p] = BusSeen[p]
        /\ BusSeen'[q] = [j \in DOMAIN BusSeen[q] \cup {k} |->
                             IF j = k THEN store[k] ELSE BusSeen[q][j]]
    BY <1>4 DEF Bus!Look, Bus!TypeOK
  <2>3. /\ DOMAIN BusDue' = Mirrors
        /\ \A p \in Mirrors \ {q} : BusDue'[p] = BusDue[p]
        /\ BusDue[q] \subseteq BusDue'[q] \cup {k}
    BY <1>4 DEF Bus!Look, Bus!TypeOK
  <2>4. BusSeen[q] \in [DOMAIN BusSeen[q] -> Nat] /\ DOMAIN BusSeen[q] \subseteq Covered[q]
    BY <2>1 DEF Bus!TypeOK
  <2>5. BusSeen'[q] \in [DOMAIN BusSeen[q] \cup {k} -> Nat]
    BY <2>2, <2>4 DEF Bus!TypeOK
  <2>6. DOMAIN BusSeen'[q] = DOMAIN BusSeen[q] \cup {k}
    BY <2>2
  <2>7. Bus!TypeOK'
    BY <2>1, <2>2, <2>3, <2>4, <2>5, <2>6 DEF Bus!TypeOK
  <2>8. BusSeen'[q] # None
    BY <2>1, <2>4, <2>5, ToldIsNotNone
  <2>9. ASSUME NEW j \in Covered[q] \ BusDue'[q], j \in DOMAIN BusSeen'[q]
        PROVE  BusSeen'[q][j] = store[j]
    BY <2>1, <2>2, <2>3, <2>6, <2>9 DEF Bus!Mirrored
  <2>10. Bus!Mirrored'
    <3> SUFFICES ASSUME NEW p \in Mirrors, NEW j \in Covered[p] \ BusDue'[p]
                 PROVE  IF BusSeen'[p] = None
                        THEN BusTold'[p] # None => BusTold'[p][j] = store'[j]
                        ELSE j \in DOMAIN BusSeen'[p] => BusSeen'[p][j] = store'[j]
      BY DEF Bus!Mirrored
    <3>1. CASE p = q
      BY <2>2, <2>8, <2>9, <3>1
    <3>2. CASE p # q
      BY <2>2, <2>3, <3>2 DEF Bus!Mirrored
    <3> QED
      BY <3>1, <3>2
  <2> QED
    BY <2>7, <2>10
<1>5. ASSUME NEW q \in Mirrors, Bus!Tell(q) PROVE PoolsMirror'
  <2>1. /\ UNCHANGED <<store, BusDue>> /\ BusSeen[q] # None /\ DOMAIN BusSeen[q] = Covered[q]
        /\ DOMAIN BusTold' = Mirrors /\ BusTold'[q] = BusSeen[q]
        /\ DOMAIN BusSeen' = Mirrors /\ BusSeen'[q] = None
        /\ \A p \in Mirrors \ {q} : BusTold'[p] = BusTold[p] /\ BusSeen'[p] = BusSeen[p]
    BY <1>5 DEF Bus!Tell, Bus!TypeOK
  <2>2. Bus!TypeOK'
    BY <2>1 DEF Bus!TypeOK
  <2>3. ASSUME NEW k \in Covered[q] \ BusDue'[q] PROVE BusTold'[q][k] = store'[k]
    BY <2>1, <2>3 DEF Bus!Mirrored
  <2>4. Bus!Mirrored'
    <3> SUFFICES ASSUME NEW p \in Mirrors, NEW k \in Covered[p] \ BusDue'[p]
                 PROVE  IF BusSeen'[p] = None
                        THEN BusTold'[p] # None => BusTold'[p][k] = store'[k]
                        ELSE k \in DOMAIN BusSeen'[p] => BusSeen'[p][k] = store'[k]
      BY DEF Bus!Mirrored
    <3>1. CASE p = q
      BY <2>1, <2>3, <3>1
    <3>2. CASE p # q
      BY <2>1, <3>2 DEF Bus!Mirrored
    <3> QED
      BY <3>1, <3>2
  <2> QED
    BY <2>2, <2>4
<1>6. CASE UNCHANGED Bus!vars
  BY <1>6 DEF Bus!vars, Bus!TypeOK, Bus!Mirrored
<1> QED
  BY <1>1, <1>2, <1>3, <1>4, <1>5, <1>6 DEF Bus!Next

\* Whatever implements the bus mirrors the storage: what a pool was told of a key,
\* or is being told, is what is stored, unless the key is still to be looked up.
THEOREM BusMirrors == Bus!Spec => []PoolsMirror
BY BusInitMirrors, BusStepMirrors, PTL DEF Bus!Spec

\* So the pools of the server do (stream.go Broadcast; katamari.go watch).
THEOREM StreamMirrors == Spec => []PoolsMirror
BY StreamIsBus, BusMirrors, PTL DEF ImplementsBus

\* The promise of the bus is what a subscriber wants to know: with nothing under
\* way no key is due, and a pool that was told anything was told what is stored.
THEOREM MirrorIsCurrent ==
    ASSUME TypeOK, PoolsExclusive, PoolsMirror
    PROVE  ToldIsCurrent
<1> SUFFICES ASSUME Quiet, NEW p \in pools \ Denied, told[p] # None,
                    NEW k \in Covers(p), Heard(p, k)
             PROVE  told[p][k] = store[k]
  BY DEF ToldIsCurrent, Current
<1>1. p \in Mirrors /\ k \in Covered[p]
  BY Parts DEF Mirrors, TypeOK, Typed
<1>2. ~PoolLocked(p) /\ ~Owed(p, k)
  BY DEF Quiet, PoolLocked, Owed, PoolsExclusive
<1>3. BusSeen[p] = None /\ k \notin BusDue[p]
  BY <1>1, <1>2 DEF BusSeen, BusDue
<1>4. BusTold[p] = [j \in Covered[p] |-> told[p][j]]
  BY <1>1 DEF BusTold
<1>5. BusTold[p] # None
  <2>1. told[p] \in Data
    BY <1>1 DEF TypeOK, Typed, Mirrors
  <2>2. BusTold[p] \in [Covered[p] -> Nat]
    BY <1>1, <1>4, <2>1, Parts DEF Data
  <2> QED
    BY <1>1, <2>2, ToldIsNotNone
<1> QED
  BY <1>1, <1>3, <1>4, <1>5 DEF PoolsMirror, Bus!Mirrored
=============================================================================
