---------------------------- MODULE StorageProofs ----------------------------
(***************************************************************************)
(* Theorems about Storage, for any keys, globs, callers and numbers of     *)
(* operations.                                                             *)
(***************************************************************************)
EXTENDS Storage, TLAPS

KeyOK(k)    == TrueStamps(k) /\ InTime(k)
CallerOK(c) == Stamped(c) /\ Passed(c) /\ NewestPage(c)

LEMMA InvParts ==
    StorageInv <=> /\ StorageTyped
                   /\ \A k \in Keys : KeyOK(k)
                   /\ \A c \in Callers : CallerOK(c)
BY DEF StorageInv, KeyOK, CallerOK

LEMMA IdleTyped ==
    /\ IdleOp \in Operation
    /\ \A p \in Paths \cup {None}, pc \in {"send", "del", "clear", "missing", "done"},
          left \in SUBSET Keys :
          [IdleOp EXCEPT !.pc = pc, !.path = p, !.left = left] \in Operation
BY DEF IdleOp, Operation, Kinds

LEMMA CoversKeys == ASSUME NEW p PROVE Covers(p) \subseteq Keys
BY DEF Covers

LEMMA NotifyTyped == ASSUME NEW p PROVE Notify(p) \in {"done", "send"}
BY DEF Notify

-----------------------------------------------------------------------------
(***************************************************************************)
(* The frame: a step of one caller leaves what is said of the others, and  *)
(* of the keys that it does not change.                                    *)
(***************************************************************************)
LEMMA CallerFrame ==
    ASSUME StorageInv, NEW d \in Callers, op'[d] = op[d], now' \in Nat, now <= now',
           \A k \in steady'[d] : k \in steady[d] /\ mem'[k] = mem[k]
    PROVE  CallerOK(d)'
<1>1. op[d] \in Operation /\ now \in Nat /\ steady[d] \subseteq Keys
    BY DEF StorageInv, StorageTyped
<1>2. Stamped(d)'
    BY <1>1 DEF StorageInv, Stamped, Operation, Object
<1>3. Passed(d)'
    <2> SUFFICES ASSUME op[d].pc = "scan" PROVE Passed(d)'
        BY DEF Passed
    <2>1. Passed(d) /\ Fitting(d)'
        BY DEF StorageInv, Passed, Fitting
    <2>2. \A k \in steady'[d] : Finds(d, k)' <=> Finds(d, k)
        BY DEF Finds
    <2> QED
        BY <2>1, <2>2 DEF Passed
<1>4. NewestPage(d)'
    <2> SUFFICES ASSUME op[d].pc = "paged" PROVE NewestPage(d)'
        BY DEF NewestPage
    <2>1. NewestPage(d) /\ Fitting(d)'
        BY DEF StorageInv, NewestPage, Fitting
    <2>2. \A k \in steady'[d] : Finds(d, k)' <=> Finds(d, k)
        BY DEF Finds
    <2> QED
        BY <2>1, <2>2 DEF NewestPage
<1> QED
    BY <1>2, <1>3, <1>4 DEF CallerOK

LEMMA KeyFrame ==
    ASSUME StorageInv, NEW k \in Keys, now' \in Nat, now <= now',
           mem'[k] = mem[k], birth'[k] = birth[k], slipped'[k] = slipped[k]
    PROVE  KeyOK(k)'
<1>1. mem[k] \in Object \cup {NoObj} /\ now \in Nat
    BY DEF StorageInv, StorageTyped
<1> QED
    BY <1>1 DEF StorageInv, KeyOK, TrueStamps, InTime, Object

\* The caller that takes the step is in operation r now.
LEMMA OpUpdate ==
    ASSUME op \in [Callers -> Operation], NEW c \in Callers, NEW r \in Operation,
           op' = [op EXCEPT ![c] = r]
    PROVE  /\ op' \in [Callers -> Operation] /\ op'[c] = r
           /\ \A d \in Callers \ {c} : op'[d] = op[d]
OBVIOUS

LEMMA BeginUpdate ==
    ASSUME StorageTyped, NEW c \in Callers, NEW r \in Operation, Begin(c, r)
    PROVE  /\ ops' \in 0 .. MaxOps
           /\ op' \in [Callers -> Operation] /\ op'[c] = r
           /\ \A d \in Callers \ {c} : op'[d] = op[d]
<1>1. ops' \in 0 .. MaxOps
    BY StorageAssumption DEF Begin, StorageTyped
<1> QED
    BY <1>1, OpUpdate DEF Begin, StorageTyped

LEMMA PutUpdate ==
    ASSUME StorageTyped, NEW k \in Keys, NEW o \in Object \cup {NoObj}, Put(k, o)
    PROVE  /\ mem' \in [Keys -> Object \cup {NoObj}] /\ mem'[k] = o
           /\ \A j \in Keys \ {k} : mem'[j] = mem[j]
           /\ steady' \in [Callers -> SUBSET Keys]
           /\ \A d \in Callers : \A j \in steady'[d] : j \in steady[d] /\ mem'[j] = mem[j]
BY DEF Put, StorageTyped

-----------------------------------------------------------------------------
(***************************************************************************)
(* A step that changes only the operation of its caller, and maybe the     *)
(* time, from now on called quiet, needs to be looked at for that caller.  *)
(***************************************************************************)
LEMMA QuietStep ==
    ASSUME StorageInv, NEW c \in Callers, NEW r \in Operation,
           op' \in [Callers -> Operation], op'[c] = r,
           \A d \in Callers \ {c} : op'[d] = op[d],
           ops' \in 0 .. MaxOps, now' \in 0 .. MaxTime, now <= now',
           UNCHANGED <<mem, birth, slipped>>,
           steady' \in [Callers -> SUBSET Keys],
           \A d \in Callers \ {c} : steady'[d] = steady[d],
           CallerOK(c)'
    PROVE  StorageInv'
<1>1. StorageTyped'
    BY DEF StorageInv, StorageTyped
<1>2. now' \in Nat
    BY StorageAssumption
<1>3. ASSUME NEW k \in Keys PROVE KeyOK(k)'
    BY <1>2, KeyFrame
<1>4. ASSUME NEW d \in Callers PROVE CallerOK(d)'
    <2>1. CASE d = c
        BY <2>1
    <2>2. CASE d # c
        BY <1>2, <2>2, CallerFrame
    <2> QED
        BY <2>1, <2>2
<1> QED
    BY <1>1, <1>3, <1>4 DEF StorageInv, KeyOK, CallerOK

\* A step that changes the object of k, and its history.
LEMMA PuttingStep ==
    ASSUME StorageInv, NEW c \in Callers, NEW r \in Operation,
           op' \in [Callers -> Operation], op'[c] = r,
           \A d \in Callers \ {c} : op'[d] = op[d],
           ops' \in 0 .. MaxOps, UNCHANGED now,
           NEW k \in Keys, NEW o \in Object \cup {NoObj}, Put(k, o),
           birth' \in [Keys -> Nat], slipped' \in [Keys -> BOOLEAN],
           \A j \in Keys \ {k} : birth'[j] = birth[j] /\ slipped'[j] = slipped[j],
           KeyOK(k)', CallerOK(c)'
    PROVE  StorageInv'
<1>0. StorageTyped /\ now \in Nat
    BY StorageAssumption DEF StorageInv, StorageTyped
<1>1. /\ mem' \in [Keys -> Object \cup {NoObj}]
      /\ \A j \in Keys \ {k} : mem'[j] = mem[j]
      /\ steady' \in [Callers -> SUBSET Keys]
      /\ \A d \in Callers : \A j \in steady'[d] : j \in steady[d] /\ mem'[j] = mem[j]
    BY <1>0, PutUpdate
<1>2. StorageTyped'
    BY <1>0, <1>1 DEF StorageTyped
<1>3. ASSUME NEW j \in Keys PROVE KeyOK(j)'
    <2>1. CASE j = k
        BY <2>1
    <2>2. CASE j # k
        BY <1>0, <1>1, <2>2, KeyFrame
    <2> QED
        BY <2>1, <2>2
<1>4. ASSUME NEW d \in Callers PROVE CallerOK(d)'
    <2>1. CASE d = c
        BY <2>1
    <2>2. CASE d # c
        BY <1>0, <1>1, <2>2, CallerFrame
    <2> QED
        BY <2>1, <2>2
<1> QED
    BY <1>2, <1>3, <1>4 DEF StorageInv, KeyOK, CallerOK

-----------------------------------------------------------------------------
\* Of most places of an operation nothing is said.
LEMMA NothingSaid ==
    ASSUME NEW c \in Callers, op'[c].pc \notin {"peek", "store", "scan", "paged"}
    PROVE  CallerOK(c)'
BY DEF CallerOK, Stamped, Passed, NewestPage

LEMMA SetPreserves ==
    ASSUME StorageInv, NEW c \in Callers, NEW k \in Keys, NEW kind \in Kinds, Set(c, k, kind)
    PROVE  StorageInv'
<1> DEFINE r == [IdleOp EXCEPT !.pc = "peek", !.path = k, !.stamp = now + 1, !.kind = kind,
                               !.seen = mem[k]]
<1>0. StorageTyped /\ now \in Nat /\ mem[k] \in Object \cup {NoObj}
    BY StorageAssumption DEF StorageInv, StorageTyped
<1>1. r \in Operation
    <2>1. k \in Paths \cup {None} /\ now + 1 \in Nat
        BY <1>0 DEF Paths
    <2> QED
        BY <1>0, <2>1 DEF IdleOp, Operation, Kinds
<1>2. r.pc = "peek" /\ r.path = k /\ r.stamp = now + 1 /\ r.seen = mem[k]
    BY DEF IdleOp
<1>3. /\ Begin(c, r) /\ now' = now + 1 /\ now < MaxTime
      /\ UNCHANGED <<mem, birth, slipped, steady>>
    BY DEF Set
<1> HIDE DEF r
<1>4. /\ ops' \in 0 .. MaxOps /\ op' \in [Callers -> Operation] /\ op'[c] = r
      /\ \A d \in Callers \ {c} : op'[d] = op[d]
    BY <1>0, <1>1, <1>3, BeginUpdate
<1>5. now' \in 0 .. MaxTime /\ now <= now'
    BY <1>0, <1>3, StorageAssumption
<1>6. mem[k] # NoObj => mem[k].data \in Nat /\ mem[k].data < now + 1
    BY <1>0 DEF StorageInv, InTime, Object
<1>7. CallerOK(c)'
    BY <1>0, <1>2, <1>3, <1>4, <1>6 DEF CallerOK, Stamped, Passed, NewestPage
<1>8. steady' \in [Callers -> SUBSET Keys] /\ \A d \in Callers \ {c} : steady'[d] = steady[d]
    BY <1>0, <1>3 DEF StorageTyped
<1> QED
    BY <1>1, <1>3, <1>4, <1>5, <1>7, <1>8, QuietStep

LEMMA PeekPreserves ==
    ASSUME StorageInv, NEW c \in Callers, Peek(c)
    PROVE  StorageInv'
<1> DEFINE old     == mem[op[c].path]
           created == IF old = NoObj THEN op[c].stamp ELSE old.created
           updated == IF old = NoObj THEN 0 ELSE op[c].stamp
           r       == [op[c] EXCEPT !.pc = "store", !.created = created,
                                    !.updated = updated, !.slip = old # op[c].seen]
<1>0. /\ StorageTyped /\ op \in [Callers -> Operation] /\ op[c] \in Operation
      /\ now \in 0 .. MaxTime /\ ops \in 0 .. MaxOps /\ op[c].pc = "peek"
    BY DEF StorageInv, StorageTyped, Peek
<1>1. /\ op[c].path \in Keys /\ op[c].stamp \in 1 .. now
      /\ op[c].seen # NoObj => op[c].seen.data < op[c].stamp
    BY <1>0 DEF StorageInv, Stamped
<1>2. old \in Object \cup {NoObj}
    BY <1>0, <1>1 DEF StorageTyped
<1>3. created \in Nat /\ updated \in Nat
    BY <1>0, <1>1, <1>2 DEF Object
<1>4. /\ op' = [op EXCEPT ![c] = r]
      /\ UNCHANGED <<mem, now, ops, birth, slipped, steady>>
    BY <1>0 DEF Peek
<1>5. r \in Operation
    BY <1>0, <1>3 DEF Operation
<1>6. /\ r.pc = "store" /\ r.path = op[c].path /\ r.stamp = op[c].stamp /\ r.seen = op[c].seen
      /\ r.created = created /\ r.updated = updated /\ r.slip = (old # op[c].seen)
    BY <1>0 DEF Operation
<1> HIDE DEF r
<1>7. /\ op' \in [Callers -> Operation] /\ op'[c] = r
      /\ \A d \in Callers \ {c} : op'[d] = op[d]
    BY <1>0, <1>4, <1>5, OpUpdate
<1>8. CallerOK(c)'
    BY <1>1, <1>4, <1>6, <1>7 DEF CallerOK, Stamped, Passed, NewestPage
<1>9. steady' \in [Callers -> SUBSET Keys] /\ \A d \in Callers \ {c} : steady'[d] = steady[d]
    BY <1>0, <1>4 DEF StorageTyped
<1>10. now <= now'
    BY <1>0, <1>4, StorageAssumption
<1> QED
    BY <1>0, <1>4, <1>5, <1>7, <1>8, <1>9, <1>10, QuietStep

\* The stamps that a Set brings are true, if it has not slipped.
LEMMA StorePreserves ==
    ASSUME StorageInv, NEW c \in Callers, Store(c)
    PROVE  StorageInv'
<1>0. /\ StorageTyped /\ op \in [Callers -> Operation] /\ op[c] \in Operation
      /\ now \in Nat /\ ops \in 0 .. MaxOps /\ op[c].pc = "store"
      /\ birth \in [Keys -> Nat] /\ slipped \in [Keys -> BOOLEAN]
    BY StorageAssumption DEF StorageInv, StorageTyped, Store
<1>1. /\ op[c].path \in Keys /\ op[c].stamp \in 1 .. now
      /\ op[c].seen # NoObj => op[c].seen.data < op[c].stamp
      /\ ~op[c].slip =>
            IF op[c].seen = NoObj
            THEN op[c].created = op[c].stamp /\ op[c].updated = 0
            ELSE op[c].created = op[c].seen.created /\ op[c].updated = op[c].stamp
    BY <1>0 DEF StorageInv, Stamped
<1>k. PICK k \in Keys : k = op[c].path
    BY <1>1
<1>o. PICK o \in Object : o = [created |-> op[c].created, updated |-> op[c].updated,
                             data |-> op[c].stamp, kind |-> op[c].kind]
    BY <1>0 DEF Operation, Object
<1> DEFINE r == [IdleOp EXCEPT !.pc = Notify(k), !.path = k]
<1>2. /\ Put(k, o)
      /\ birth' = [birth EXCEPT ![k] = IF mem[k] = NoObj THEN op[c].stamp ELSE @]
      /\ slipped' = [slipped EXCEPT ![k] = @ \/ op[c].slip \/ mem[k] # op[c].seen]
      /\ op' = [op EXCEPT ![c] = r]
      /\ UNCHANGED <<now, ops>>
    BY <1>k, <1>o DEF Store
<1>3. /\ op[c].stamp \in Nat
      /\ o.created = op[c].created /\ o.updated = op[c].updated /\ o.data = op[c].stamp
    BY <1>0, <1>o DEF Operation
<1>4. r \in Operation /\ r.pc \in {"done", "send"}
    <2>1. k \in Paths \cup {None}
        BY DEF Paths
    <2>2. Notify(k) \in {"done", "send"}
        BY NotifyTyped
    <2> QED
        BY <2>1, <2>2 DEF IdleOp, Operation, Kinds
<1>5. /\ birth' \in [Keys -> Nat] /\ slipped' \in [Keys -> BOOLEAN]
      /\ \A j \in Keys \ {k} : birth'[j] = birth[j] /\ slipped'[j] = slipped[j]
      /\ birth'[k] = IF mem[k] = NoObj THEN op[c].stamp ELSE birth[k]
      /\ ~slipped'[k] => ~slipped[k] /\ ~op[c].slip /\ mem[k] = op[c].seen
    BY <1>0, <1>1, <1>2, <1>3
<1> HIDE DEF r
<1>6. /\ op' \in [Callers -> Operation] /\ op'[c] = r
      /\ \A d \in Callers \ {c} : op'[d] = op[d]
    BY <1>0, <1>2, <1>4, OpUpdate
<1>7. mem'[k] = o
    BY <1>0, <1>1, <1>2, <1>3, PutUpdate
<1>8. InTime(k)'
    BY <1>0, <1>1, <1>2, <1>3, <1>7 DEF InTime
<1>9. TrueStamps(k)'
    <2> SUFFICES ASSUME ~slipped'[k]
                 PROVE  /\ o.created = birth'[k]
                        /\ o.updated = 0 \/ o.updated > o.created
                        /\ Newest(o) = o.data
        BY <1>7 DEF TrueStamps
    <2>1. ~slipped[k] /\ ~op[c].slip /\ mem[k] = op[c].seen
        BY <1>5
    <2>2. CASE mem[k] = NoObj
        BY <1>0, <1>1, <1>3, <1>5, <2>1, <2>2 DEF Newest
    <2>3. CASE mem[k] # NoObj
        <3>1. /\ mem[k] \in Object /\ mem[k].created = birth[k]
              /\ Newest(mem[k]) = mem[k].data
            BY <1>0, <2>1, <2>3 DEF StorageInv, StorageTyped, TrueStamps
        <3>2. mem[k].created <= mem[k].data
            BY <3>1 DEF Newest, Object
        <3>3. o.created = mem[k].created /\ o.updated = op[c].stamp /\ mem[k].data < op[c].stamp
            BY <1>1, <1>3, <2>1, <2>3
        <3>4. o.created = birth'[k]
            BY <1>5, <2>3, <3>1, <3>3
        <3>5. o.updated > o.created
            BY <1>3, <3>1, <3>2, <3>3 DEF Object
        <3> QED
            BY <1>3, <3>3, <3>4, <3>5 DEF Newest, Object
    <2> QED
        BY <2>2, <2>3
<1>10. CallerOK(c)'
    BY <1>4, <1>6, NothingSaid
<1>11. KeyOK(k)' /\ ops' \in 0 .. MaxOps /\ o \in Object \cup {NoObj}
    BY <1>0, <1>2, <1>3, <1>8, <1>9 DEF KeyOK
<1> QED
    BY <1>2, <1>4, <1>5, <1>6, <1>10, <1>11, PuttingStep

LEMMA PivotPreserves ==
    ASSUME StorageInv, NEW c \in Callers, NEW k \in Keys, NEW kind \in Kinds,
           NEW created \in Nat, NEW updated \in Nat, Pivot(c, k, kind, created, updated)
    PROVE  StorageInv'
<1> DEFINE pc == IF k \in History THEN "done" ELSE Notify(k)
           r == [IdleOp EXCEPT !.pc = pc, !.path = k]
<1>o. PICK o \in Object : o = [created |-> created, updated |-> updated, data |-> 0,
                             kind |-> kind]
    BY DEF Object
<1>0. StorageTyped /\ now \in Nat /\ birth \in [Keys -> Nat] /\ slipped \in [Keys -> BOOLEAN]
    BY StorageAssumption DEF StorageInv, StorageTyped
<1>1. pc \in {"done", "send"} /\ k \in Paths \cup {None}
    BY NotifyTyped DEF Paths
<1>2. /\ Begin(c, r) /\ Put(k, o)
      /\ slipped' = [slipped EXCEPT ![k] = TRUE]
      /\ UNCHANGED <<now, birth>>
    BY <1>o DEF Pivot
<1> HIDE DEF pc
<1>3. r \in Operation /\ r.pc = pc
    BY <1>1 DEF IdleOp, Operation, Kinds
<1> HIDE DEF r
<1>4. /\ ops' \in 0 .. MaxOps /\ op' \in [Callers -> Operation] /\ op'[c] = r
      /\ \A d \in Callers \ {c} : op'[d] = op[d]
    BY <1>0, <1>2, <1>3, BeginUpdate
<1>5. mem'[k] = o
    BY <1>0, <1>2, PutUpdate
<1>6. KeyOK(k)'
    BY <1>o, <1>0, <1>2, <1>5 DEF KeyOK, TrueStamps, InTime
<1>7. CallerOK(c)'
    BY <1>1, <1>3, <1>4, NothingSaid
<1>8. /\ birth' \in [Keys -> Nat] /\ slipped' \in [Keys -> BOOLEAN]
      /\ \A j \in Keys \ {k} : birth'[j] = birth[j] /\ slipped'[j] = slipped[j]
    BY <1>0, <1>2
<1> QED
    BY <1>2, <1>3, <1>4, <1>6, <1>7, <1>8, PuttingStep

-----------------------------------------------------------------------------
(***************************************************************************)
(* Steps that change nothing but their caller's operation.                 *)
(***************************************************************************)
LEMMA BeginPreserves ==
    ASSUME StorageInv, NEW c \in Callers, NEW r \in Operation, Begin(c, r),
           r.pc \in {"del", "clear", "missing"},
           UNCHANGED <<mem, now, birth, slipped, steady>>
    PROVE  StorageInv'
<1>0. StorageTyped /\ now \in 0 .. MaxTime /\ now \in Nat
    BY StorageAssumption DEF StorageInv, StorageTyped
<1>1. /\ ops' \in 0 .. MaxOps /\ op' \in [Callers -> Operation] /\ op'[c] = r
      /\ \A d \in Callers \ {c} : op'[d] = op[d]
    BY <1>0, BeginUpdate
<1>2. CallerOK(c)'
    BY <1>1, NothingSaid
<1>3. /\ now' \in 0 .. MaxTime /\ now <= now'
      /\ steady' \in [Callers -> SUBSET Keys]
      /\ \A d \in Callers \ {c} : steady'[d] = steady[d]
    BY <1>0 DEF StorageTyped
<1> QED
    BY <1>1, <1>2, <1>3, QuietStep

LEMMA DelPreserves ==
    ASSUME StorageInv, NEW c \in Callers, NEW p \in Paths, Del(c, p)
    PROVE  StorageInv'
<1> DEFINE r == [IdleOp EXCEPT !.pc = "del", !.path = p, !.left = Covers(p)]
<1>1. r \in Operation /\ r.pc = "del"
    BY IdleTyped, CoversKeys DEF IdleOp
<1>2. Begin(c, r) /\ UNCHANGED <<mem, now, birth, slipped, steady>>
    BY DEF Del
<1> HIDE DEF r
<1> QED
    BY <1>1, <1>2, BeginPreserves

LEMMA NotFoundPreserves ==
    ASSUME StorageInv, NEW c \in Callers, NEW k \in Keys, NotFound(c, k)
    PROVE  StorageInv'
<1> DEFINE r == [IdleOp EXCEPT !.pc = "missing", !.path = k]
<1>1. k \in Paths \cup {None}
    BY DEF Paths
<1>2. r \in Operation /\ r.pc = "missing"
    BY <1>1 DEF IdleOp, Operation, Kinds
<1>3. Begin(c, r) /\ UNCHANGED <<mem, now, birth, slipped, steady>>
    BY DEF NotFound
<1> HIDE DEF r
<1> QED
    BY <1>2, <1>3, BeginPreserves

LEMMA ClearPreserves ==
    ASSUME StorageInv, NEW c \in Callers, Clear(c)
    PROVE  StorageInv'
<1> DEFINE r == [IdleOp EXCEPT !.pc = "clear", !.left = Keys]
<1>1. r \in Operation /\ r.pc = "clear"
    BY DEF IdleOp, Operation, Kinds
<1>2. Begin(c, r) /\ UNCHANGED <<mem, now, birth, slipped, steady>>
    BY DEF Clear
<1> HIDE DEF r
<1> QED
    BY <1>1, <1>2, BeginPreserves

\* A caller goes on to a place of which nothing is said.
LEMMA GoesOnPreserves ==
    ASSUME StorageInv, NEW c \in Callers, NEW r \in Operation, op' = [op EXCEPT ![c] = r],
           r.pc \notin {"peek", "store", "scan", "paged"},
           UNCHANGED <<mem, now, ops, birth, slipped>>,
           steady' \in [Callers -> SUBSET Keys],
           \A d \in Callers \ {c} : steady'[d] = steady[d]
    PROVE  StorageInv'
<1>0. op \in [Callers -> Operation] /\ now \in 0 .. MaxTime /\ ops \in 0 .. MaxOps /\ now \in Nat
    BY StorageAssumption DEF StorageInv, StorageTyped
<1>1. /\ op' \in [Callers -> Operation] /\ op'[c] = r
      /\ \A d \in Callers \ {c} : op'[d] = op[d]
    BY <1>0, OpUpdate
<1>2. CallerOK(c)'
    BY <1>1, NothingSaid
<1>3. now' \in 0 .. MaxTime /\ now <= now' /\ ops' \in 0 .. MaxOps
    BY <1>0
<1> QED
    BY <1>1, <1>2, <1>3, QuietStep

LEMMA EndingPreserves ==
    ASSUME StorageInv, NEW c \in Callers, DeleteDone(c) \/ Take(c) \/ Return(c)
    PROVE  StorageInv'
<1>0. op \in [Callers -> Operation] /\ op[c] \in Operation /\ steady \in [Callers -> SUBSET Keys]
    BY DEF StorageInv, StorageTyped
<1>1. CASE DeleteDone(c)
    <2> DEFINE r == [op[c] EXCEPT !.pc = Notify(op[c].path)]
    <2>1. Notify(op[c].path) \in {"done", "send"}
        BY NotifyTyped
    <2>2. r \in Operation /\ r.pc \in {"done", "send"}
        BY <1>0, <2>1 DEF Operation
    <2>3. op' = [op EXCEPT ![c] = r] /\ UNCHANGED <<mem, now, ops, birth, slipped, steady>>
        BY <1>0, <1>1 DEF DeleteDone
    <2> HIDE DEF r
    <2> QED
        BY <1>0, <2>2, <2>3, GoesOnPreserves
<1>2. CASE Take(c)
    <2> DEFINE r == [op[c] EXCEPT !.pc = "done"]
    <2>1. r \in Operation /\ r.pc = "done"
        BY <1>0 DEF Operation
    <2>2. op' = [op EXCEPT ![c] = r] /\ UNCHANGED <<mem, now, ops, birth, slipped, steady>>
        BY <1>0, <1>2 DEF Take
    <2> HIDE DEF r
    <2> QED
        BY <1>0, <2>1, <2>2, GoesOnPreserves
<1>3. CASE Return(c)
    <2>1. IdleOp \in Operation /\ IdleOp.pc = "idle"
        BY IdleTyped DEF IdleOp
    <2>2. op' = [op EXCEPT ![c] = IdleOp] /\ UNCHANGED <<mem, now, ops, birth, slipped>>
        BY <1>3 DEF Return
    <2>3. /\ steady' \in [Callers -> SUBSET Keys]
          /\ \A d \in Callers \ {c} : steady'[d] = steady[d]
        BY <1>0, <1>3 DEF Return
    <2> QED
        BY <2>1, <2>2, <2>3, GoesOnPreserves
<1> QED
    BY <1>1, <1>2, <1>3

LEMMA DeleteKeyPreserves ==
    ASSUME StorageInv, NEW c \in Callers, NEW k \in Keys, DeleteKey(c, k)
    PROVE  StorageInv'
<1> DEFINE r == [op[c] EXCEPT !.left = @ \ {k}]
<1>0. /\ StorageTyped /\ op \in [Callers -> Operation] /\ op[c] \in Operation
      /\ ops \in 0 .. MaxOps /\ now \in Nat
      /\ birth \in [Keys -> Nat] /\ slipped \in [Keys -> BOOLEAN]
    BY StorageAssumption DEF StorageInv, StorageTyped
<1>1. r \in Operation /\ r.pc = op[c].pc /\ op[c].pc \in {"del", "clear"}
    BY <1>0 DEF Operation, DeleteKey
<1>2. /\ Put(k, NoObj) /\ slipped' = [slipped EXCEPT ![k] = FALSE]
      /\ op' = [op EXCEPT ![c] = r] /\ UNCHANGED <<now, ops, birth>>
    BY <1>0 DEF DeleteKey
<1> HIDE DEF r
<1>3. /\ op' \in [Callers -> Operation] /\ op'[c] = r
      /\ \A d \in Callers \ {c} : op'[d] = op[d]
    BY <1>0, <1>1, <1>2, OpUpdate
<1>4. mem'[k] = NoObj
    BY <1>0, <1>2, PutUpdate
<1>5. KeyOK(k)'
    BY <1>4 DEF KeyOK, TrueStamps, InTime
<1>6. CallerOK(c)'
    BY <1>1, <1>3, NothingSaid
<1>7. /\ birth' \in [Keys -> Nat] /\ slipped' \in [Keys -> BOOLEAN]
      /\ \A j \in Keys \ {k} : birth'[j] = birth[j] /\ slipped'[j] = slipped[j]
      /\ ops' \in 0 .. MaxOps
    BY <1>0, <1>2
<1> QED
    BY <1>1, <1>2, <1>3, <1>5, <1>6, <1>7, PuttingStep

-----------------------------------------------------------------------------
(***************************************************************************)
(* The reads.                                                              *)
(***************************************************************************)
LEMMA ScanPreserves ==
    ASSUME StorageInv, NEW c \in Callers, NEW p \in Paths \cup {None},
           NEW limit \in Nat, NEW range \in SUBSET Keys, Scan(c, p, limit, range)
    PROVE  StorageInv'
<1> DEFINE r == [IdleOp EXCEPT !.pc = "scan", !.path = p, !.left = Covers(p),
                               !.limit = limit, !.range = range]
<1>0. /\ StorageTyped /\ now \in 0 .. MaxTime /\ now \in Nat
      /\ steady \in [Callers -> SUBSET Keys]
    BY StorageAssumption DEF StorageInv, StorageTyped
<1>1. Covers(p) \subseteq Keys
    BY CoversKeys
<1>2. /\ r \in Operation /\ r.pc = "scan" /\ r.left = Covers(p) /\ r.got = {}
      /\ r.path = p
    BY <1>1 DEF IdleOp, Operation, Kinds
<1>3. /\ Begin(c, r) /\ steady' = [steady EXCEPT ![c] = Covers(p)]
      /\ UNCHANGED <<mem, now, birth, slipped>>
    BY DEF Scan
<1> HIDE DEF r
<1>4. /\ ops' \in 0 .. MaxOps /\ op' \in [Callers -> Operation] /\ op'[c] = r
      /\ \A d \in Callers \ {c} : op'[d] = op[d]
    BY <1>0, <1>2, <1>3, BeginUpdate
<1>5. /\ steady' \in [Callers -> SUBSET Keys] /\ steady'[c] = Covers(p)
      /\ \A d \in Callers \ {c} : steady'[d] = steady[d]
    BY <1>0, <1>1, <1>3
<1>6. CallerOK(c)'
    BY <1>2, <1>4, <1>5 DEF CallerOK, Stamped, Passed, NewestPage, Fitting
<1>7. now' \in 0 .. MaxTime /\ now <= now'
    BY <1>0, <1>3
<1> QED
    BY <1>2, <1>3, <1>4, <1>5, <1>6, <1>7, QuietStep

LEMMA ScanKeyPreserves ==
    ASSUME StorageInv, NEW c \in Callers, NEW k \in Keys, ScanKey(c, k)
    PROVE  StorageInv'
<1> DEFINE item  == [key |-> k, obj |-> mem[k]]
           found == Finds(c, k)
           got   == IF found THEN op[c].got \cup {item} ELSE op[c].got
           r     == [op[c] EXCEPT !.left = @ \ {k}, !.got = got]
<1>0. /\ op \in [Callers -> Operation] /\ op[c] \in Operation /\ op[c].pc = "scan"
      /\ now \in 0 .. MaxTime /\ now \in Nat /\ ops \in 0 .. MaxOps
      /\ steady \in [Callers -> SUBSET Keys] /\ k \in op[c].left
      /\ mem[k] \in Object \cup {NoObj} /\ op[c].got \subseteq Item
    BY StorageAssumption DEF StorageInv, StorageTyped, ScanKey, Operation
<1>1. found => item \in Item /\ mem[k] # NoObj
    BY <1>0 DEF Item, Finds
<1>2. got \subseteq Item
    BY <1>0, <1>1
<1>3. op' = [op EXCEPT ![c] = r] /\ UNCHANGED <<mem, now, ops, birth, slipped, steady>>
    BY <1>0 DEF ScanKey
<1>4. /\ item.key = k /\ item.obj = mem[k]
      /\ \A i \in got : i \in op[c].got \/ (found /\ i = item)
      /\ op[c].got \subseteq got /\ (found => item \in got)
    OBVIOUS
<1> HIDE DEF got
<1>5. /\ r \in Operation /\ r.pc = "scan" /\ r.left = op[c].left \ {k} /\ r.got = got
      /\ r.range = op[c].range /\ r.path = op[c].path /\ r.limit = op[c].limit
    BY <1>0, <1>2 DEF Operation
<1> HIDE DEF r
<1>6. /\ op' \in [Callers -> Operation] /\ op'[c] = r
      /\ \A d \in Callers \ {c} : op'[d] = op[d]
    BY <1>0, <1>3, <1>5, OpUpdate
<1>7. /\ Fitting(c) /\ op[c].left \subseteq Covers(op[c].path)
      /\ \A i \in op[c].got : i.key \notin op[c].left
      /\ \A j \in steady[c] \ op[c].left :
            IF ~Finds(c, j) THEN \A i \in op[c].got : i.key # j
            ELSE /\ [key |-> j, obj |-> mem[j]] \in op[c].got
                 /\ \A i \in op[c].got : i.key = j => i.obj = mem[j]
    BY <1>0 DEF StorageInv, Passed
<1>f. found => k \in op[c].range /\ (op[c].limit > 0 => mem[k].kind # "text")
    BY DEF Finds
<1> HIDE DEF item, found
<1>8. ASSUME NEW i \in got PROVE i.key \notin r.left
    BY <1>4, <1>5, <1>7
<1>9. ASSUME NEW j \in steady[c] \ r.left
      PROVE  IF ~Finds(c, j) THEN \A i \in got : i.key # j
             ELSE /\ [key |-> j, obj |-> mem[j]] \in got
                  /\ \A i \in got : i.key = j => i.obj = mem[j]
    <2>1. CASE j = k
        <3>1. \A i \in op[c].got : i.key # k
            BY <1>0, <1>7
        <3>2. CASE found
            <4>1. \A i \in got : i.key = k => i = item
                BY <1>4, <3>1
            <4>2. [key |-> k, obj |-> mem[k]] \in got
                BY <1>4, <3>2 DEF item
            <4> QED
                BY <1>4, <2>1, <3>2, <4>1, <4>2 DEF found
        <3>3. CASE ~found
            <4>1. \A i \in got : i.key # k
                BY <1>4, <3>1, <3>3
            <4> QED
                BY <2>1, <3>3, <4>1 DEF found
        <3> QED
            BY <3>2, <3>3
    <2>2. CASE j # k
        <3>1. j \in steady[c] \ op[c].left
            BY <1>5, <2>2
        <3> QED
            BY <1>4, <1>7, <2>2, <3>1
    <2> QED
        BY <2>1, <2>2
<1>p. Passed(c)'
    <2>1. \A j : Finds(c, j)' <=> Finds(c, j)
        BY <1>3, <1>5, <1>6 DEF Finds
    <2>2. \A i \in got : /\ i.key \in Covers(op[c].path) \cap op[c].range
                         /\ op[c].limit > 0 => i.obj.kind # "text"
        BY <1>0, <1>4, <1>7, <1>f DEF Fitting
    <2>3. Fitting(c)' /\ r.left \subseteq Covers(r.path)
        BY <1>5, <1>6, <1>7, <2>2 DEF Fitting, Covers
    <2> QED
        BY <1>3, <1>5, <1>6, <1>8, <1>9, <2>1, <2>3 DEF Passed, Covers
<1>10. CallerOK(c)'
    BY <1>5, <1>6, <1>p DEF CallerOK, Stamped, NewestPage
<1>11. now' \in 0 .. MaxTime /\ now <= now' /\ ops' \in 0 .. MaxOps
    BY <1>0, <1>3
<1>12. steady' \in [Callers -> SUBSET Keys] /\ \A d \in Callers \ {c} : steady'[d] = steady[d]
    BY <1>0, <1>3
<1> QED
    BY <1>3, <1>5, <1>6, <1>10, <1>11, <1>12, QuietStep

\* What is cut from a list is not newer than what is left of it.
LEMMA FirstsCut ==
    ASSUME NEW items, NEW limit \in Nat, NEW f \in Firsts(items, limit)
    PROVE  /\ f \subseteq items
           /\ \/ f = items
              \/ /\ limit > 0 /\ Cardinality(f) = limit
                 /\ \A i \in f, j \in items \ f : Newest(i.obj) >= Newest(j.obj)
<1>1. CASE limit = 0 \/ Cardinality(items) <= limit
    BY <1>1 DEF Firsts
<1>2. CASE ~(limit = 0 \/ Cardinality(items) <= limit)
    <2>1. /\ f \subseteq items /\ Cardinality(f) = limit
          /\ \A i \in f, j \in items \ f : Newest(i.obj) >= Newest(j.obj)
        BY <1>2 DEF Firsts
    <2> QED
        BY <1>2, <2>1
<1> QED
    BY <1>1, <1>2

LEMMA ScanDonePreserves ==
    ASSUME StorageInv, NEW c \in Callers, ScanDone(c)
    PROVE  StorageInv'
<1>0. /\ op \in [Callers -> Operation] /\ op[c] \in Operation /\ op[c].pc = "scan"
      /\ op[c].left = {} /\ op[c].limit \in Nat /\ op[c].got \subseteq Item
      /\ now \in 0 .. MaxTime /\ now \in Nat /\ ops \in 0 .. MaxOps
      /\ mem \in [Keys -> Object \cup {NoObj}]
      /\ steady \in [Callers -> SUBSET Keys]
    BY StorageAssumption DEF StorageInv, StorageTyped, ScanDone, Operation
<1>1. PICK page \in Firsts(op[c].got, op[c].limit) :
         op' = [op EXCEPT ![c] = [op[c] EXCEPT !.pc = "paged", !.got = page]]
    BY <1>0 DEF ScanDone
<1> DEFINE r == [op[c] EXCEPT !.pc = "paged", !.got = page]
<1>2. /\ page \subseteq op[c].got
      /\ \/ page = op[c].got
         \/ /\ op[c].limit > 0 /\ Cardinality(page) = op[c].limit
            /\ \A i \in page, j \in op[c].got \ page : Newest(i.obj) >= Newest(j.obj)
    BY <1>0, FirstsCut
<1>3. page \subseteq Item
    BY <1>0, <1>2
<1>4. /\ r \in Operation /\ r.pc = "paged" /\ r.got = page
      /\ r.limit = op[c].limit /\ r.range = op[c].range /\ r.path = op[c].path
    BY <1>0, <1>3 DEF Operation
<1>5. op' = [op EXCEPT ![c] = r] /\ UNCHANGED <<mem, now, ops, birth, slipped, steady>>
    BY <1>1 DEF ScanDone
<1> HIDE DEF r
<1>6. /\ op' \in [Callers -> Operation] /\ op'[c] = r
      /\ \A d \in Callers \ {c} : op'[d] = op[d]
    BY <1>0, <1>4, <1>5, OpUpdate
<1>7. ASSUME NEW k \in steady[c]
      PROVE  IF ~Finds(c, k) THEN \A i \in page : i.key # k
             ELSE \/ /\ [key |-> k, obj |-> mem[k]] \in page
                     /\ \A i \in page : i.key = k => i.obj = mem[k]
                  \/ /\ r.limit > 0 /\ Cardinality(page) = r.limit
                     /\ \A i \in page : i.key # k /\ Newest(i.obj) >= Newest(mem[k])
    <2>1. IF ~Finds(c, k) THEN \A i \in op[c].got : i.key # k
          ELSE /\ [key |-> k, obj |-> mem[k]] \in op[c].got
               /\ \A i \in op[c].got : i.key = k => i.obj = mem[k]
        BY <1>0 DEF StorageInv, Passed
    <2>2. CASE ~Finds(c, k)
        BY <1>2, <2>1, <2>2
    <2>3. CASE Finds(c, k)
        <3> DEFINE item == [key |-> k, obj |-> mem[k]]
        <3>1. item \in op[c].got /\ \A i \in op[c].got : i.key = k => i.obj = mem[k]
            BY <2>1, <2>3
        <3>2. \A i \in Item : i.key = k /\ i.obj = mem[k] => i = item
            BY DEF Item
        <3>3. item.obj = mem[k]
            OBVIOUS
        <3> HIDE DEF item
        <3>4. CASE item \notin page
            <4>1. \A i \in page : i.key # k
                BY <1>2, <1>3, <3>1, <3>2, <3>4
            <4>2. /\ op[c].limit > 0 /\ Cardinality(page) = op[c].limit
                  /\ \A i \in page : Newest(i.obj) >= Newest(mem[k])
                BY <1>2, <3>1, <3>3, <3>4
            <4> QED
                BY <1>4, <2>3, <4>1, <4>2
        <3>5. CASE item \in page
            BY <1>2, <2>3, <3>1, <3>5 DEF item
        <3> QED
            BY <3>4, <3>5
    <2> QED
        BY <2>2, <2>3
<1>p. NewestPage(c)'
    <2>1. \A k : Finds(c, k)' <=> Finds(c, k)
        BY <1>4, <1>5, <1>6 DEF Finds
    <2>2. Fitting(c)
        BY <1>0 DEF StorageInv, Passed
    <2>3. Fitting(c)'
        BY <1>2, <1>4, <1>6, <2>2 DEF Fitting, Covers
    <2> QED
        BY <1>4, <1>5, <1>6, <1>7, <2>1, <2>3 DEF NewestPage
<1>8. CallerOK(c)'
    BY <1>4, <1>6, <1>p DEF CallerOK, Stamped, Passed
<1>9. now' \in 0 .. MaxTime /\ now <= now' /\ ops' \in 0 .. MaxOps
    BY <1>0, <1>5
<1>10. steady' \in [Callers -> SUBSET Keys] /\ \A d \in Callers \ {c} : steady'[d] = steady[d]
    BY <1>0, <1>5
<1> QED
    BY <1>4, <1>5, <1>6, <1>8, <1>9, <1>10, QuietStep

-----------------------------------------------------------------------------
LEMMA StorageInitInv == StorageInit => StorageInv
<1> SUFFICES ASSUME StorageInit PROVE StorageInv
    OBVIOUS
<1>1. StorageTyped
    <2>1. op \in [Callers -> Operation]
        BY IdleTyped DEF StorageInit
    <2>2. now \in 0 .. MaxTime /\ ops \in 0 .. MaxOps
        BY StorageAssumption DEF StorageInit
    <2>3. mem \in [Keys -> Object \cup {NoObj}] /\ steady \in [Callers -> SUBSET Keys]
        BY DEF StorageInit
    <2>4. birth \in [Keys -> Nat] /\ slipped \in [Keys -> BOOLEAN]
        BY DEF StorageInit
    <2> QED
        BY <2>1, <2>2, <2>3, <2>4 DEF StorageTyped
<1>2. \A k \in Keys : TrueStamps(k) /\ InTime(k)
    BY DEF StorageInit, TrueStamps, InTime
<1>3. \A c \in Callers : op[c].pc = "idle"
    BY DEF StorageInit, IdleOp
<1> QED
    BY <1>1, <1>2, <1>3 DEF StorageInv, Stamped, Passed, NewestPage

\* Every step that a caller may take keeps the invariant.
LEMMA StepPreserves ==
    ASSUME StorageInv, NEW c \in Callers, StorageStep(c)
    PROVE  StorageInv'
<1>1. CASE Call(c, Kinds, Kinds)
    <2>1. ASSUME NEW k \in Keys, NotFound(c, k) \/ \E kind \in Kinds : Set(c, k, kind)
          PROVE  StorageInv'
        BY <2>1, SetPreserves, NotFoundPreserves
    <2>2. ASSUME NEW k \in Keys, NEW kind \in Kinds, NEW s \in PivotStamps,
                 Pivot(c, k, kind, s[1], s[2])
          PROVE  StorageInv'
        <3>1. s[1] \in Nat /\ s[2] \in Nat
            BY StorageAssumption
        <3> QED
            BY <2>2, <3>1, PivotPreserves
    <2>3. ASSUME NEW p \in Paths, Del(c, p) \/ Scan(c, p, 0, Keys) PROVE StorageInv'
        BY <2>3, DelPreserves, ScanPreserves
    <2>4. ASSUME NEW g \in Globs, NEW limit \in Limits \cup {0}, NEW range \in Ranges,
                 Scan(c, g, limit, range)
          PROVE  StorageInv'
        <3>1. limit \in Nat /\ range \in SUBSET Keys /\ g \in Paths \cup {None}
            BY StorageAssumption DEF Paths
        <3> QED
            BY <2>4, <3>1, ScanPreserves
    <2>5. ASSUME Scan(c, None, 0, Keys) \/ Clear(c) PROVE StorageInv'
        BY <2>5, ScanPreserves, ClearPreserves
    <2> QED
        BY <1>1, <2>1, <2>2, <2>3, <2>4, <2>5 DEF Call
<1>2. CASE Inside(c)
    BY <1>2, PeekPreserves, StorePreserves, DeleteKeyPreserves, ScanKeyPreserves,
       EndingPreserves, ScanDonePreserves DEF Inside
<1>3. CASE Return(c)
    BY <1>3, EndingPreserves
<1> QED
    BY <1>1, <1>2, <1>3 DEF StorageStep

LEMMA StutterPreserves ==
    ASSUME StorageInv, UNCHANGED storageVars
    PROVE  StorageInv'
BY DEF StorageInv, storageVars, StorageTyped, TrueStamps, InTime, Stamped, Passed, NewestPage, Fitting, Finds

\* However its callers interleave and whatever data they store, the storage keeps
\* the invariant: its types, the true stamps, and the newest pages of what stood
\* still and, under a limit, decodes (memory.go:54-299).
THEOREM StorageCorrect == StorageSpec => []StorageInv
<1>1. StorageInv /\ [\E c \in Callers : StorageStep(c)]_storageVars => StorageInv'
    BY StepPreserves, StutterPreserves
<1> QED
    BY <1>1, StorageInitInv, PTL DEF StorageSpec

=============================================================================
