------------------------------ MODULE RestProofs ------------------------------
(***************************************************************************)
(* Theorems about Rest and, in its last part, Io: for any number of        *)
(* requests and callers, any filters and any number of operations.         *)
(***************************************************************************)
EXTENDS Io, StorageProofs, WellFoundedInduction

(***************************************************************************)
(* The filters.                                                            *)
(***************************************************************************)
LEMMA SetHasLeast ==
    ASSUME NEW T \in SUBSET Nat, T # {}
    PROVE  \E x \in T : \A y \in T : x <= y
<1> DEFINE R == {ss \in Nat \X Nat : ss[1] < ss[2]}
<1>1. IsWellFoundedOn(R, Nat)
    BY NatLessThanWellFounded DEF OpToRel
<1>2. PICK x \in T : \A y \in T : ~(<<y, x>> \in R)
    BY <1>1, WFMin
<1>3. ASSUME NEW y \in T PROVE x <= y
    <2>1. x \in Nat /\ y \in Nat /\ ~(<<y, x>> \in R)
        BY <1>2
    <2>2. ~(y < x)
        BY <2>1
    <2> QED
        BY <2>1, <2>2
<1> QED
    BY <1>3

\* Check gives what the first filter that applies says.
LEMMA CheckAllows ==
    ASSUME NEW filters \in Seq([path : Paths, allow : BOOLEAN]), NEW path, Check(filters, path)
    PROVE  Allowed(filters, path)
<1> DEFINE matches == {i \in DOMAIN filters : Applies(filters[i], path)}
<1>1. CASE matches = {}
    BY <1>1 DEF Check, Allowed
<1>2. CASE matches # {}
    <2> DEFINE first == CHOOSE i \in matches : \A j \in matches : i <= j
    <2>1. DOMAIN filters = 1 .. Len(filters) /\ Len(filters) \in Nat
        OBVIOUS
    <2>2. matches \in SUBSET Nat
        BY <2>1
    <2>3. first \in matches /\ \A j \in matches : first <= j
        BY <1>2, <2>2, SetHasLeast
    <2>4. filters[first].allow
        BY <1>2 DEF Check
    <2> HIDE DEF first
    <2>5. first \in DOMAIN filters /\ Applies(filters[first], path) /\ first \in Nat
        BY <2>2, <2>3
    <2>6. ASSUME NEW j \in 1 .. first - 1 PROVE ~Applies(filters[j], path)
        <3>1. j \in DOMAIN filters /\ ~(first <= j)
            BY <2>1, <2>5
        <3> QED
            BY <2>3, <3>1
    <2> QED
        BY <2>4, <2>5, <2>6 DEF Allowed, FirstOf
<1> QED
    BY <1>1, <1>2

-----------------------------------------------------------------------------
(***************************************************************************)
(* The handlers and the application use the storage as its callers do.     *)
(***************************************************************************)
LEMMA BodiesKinds == ASSUME NEW k PROVE Bodies(k) \subseteq Kinds
BY RestAssumption DEF Bodies

LEMMA AppCalls ==
    ASSUME NEW c, Call(c, SetKinds, PivotKinds)
    PROVE  Call(c, Kinds, Kinds)
<1>1. SetKinds \subseteq Kinds /\ PivotKinds \subseteq Kinds
    BY RestAssumption
<1> QED
    BY <1>1 DEF Call

LEMMA StepUsesStorage ==
    ASSUME [Next]_vars
    PROVE  [\E c \in Callers : StorageStep(c)]_storageVars
<1>1. ASSUME NEW h \in Handlers, HandlerStep(h)
      PROVE  StorageStep(h) \/ UNCHANGED storageVars
    <2>1. CASE Refuse(h) \/ Deadline(h)
        BY <2>1 DEF Refuse, Deadline
    <2>2. CASE Publish(h)
        <3>1. PICK path \in Paths : \E k \in Built(path) : \E kind \in Bodies(k) : Set(h, k, kind)
            BY <2>2 DEF Publish
        <3>2. Built(path) \subseteq Keys /\ \A k : Bodies(k) \subseteq Kinds
            BY CoversKeys, BodiesKinds DEF Built
        <3> QED
            BY <3>1, <3>2 DEF StorageStep, Call
    <2>3. CASE Unpublish(h)
        BY <2>3 DEF Unpublish, StorageStep, Call
    <2>4. CASE ReadPath(h) \/ GetStats(h)
        BY <2>4 DEF ReadPath, GetStats, StorageStep, Call
    <2>5. CASE Work(h)
        BY <2>5 DEF Work, StorageStep, Inside
    <2>6. CASE Finish(h)
        BY <2>6 DEF Finish, StorageStep
    <2> QED
        BY <1>1, <2>1, <2>2, <2>3, <2>4, <2>5, <2>6 DEF HandlerStep
<1>2. ASSUME NEW c \in Apps, AppStep(c) PROVE StorageStep(c)
    BY <1>2, AppCalls DEF AppStep, StorageStep
<1>3. Handlers \subseteq Callers /\ Apps \subseteq Callers
    BY RestAssumption DEF Apps
<1>4. UNCHANGED vars => UNCHANGED storageVars
    BY DEF vars, storageVars
<1> QED
    BY <1>1, <1>2, <1>3, <1>4 DEF Next, Idle

\* The handlers, the filters and the deadline leave the storage what it is: all
\* that happens to it is what its callers may do (rest.go, memory.go).
THEOREM RestUsesStorage == Spec => StorageSpec
<1>1. Init => StorageInit
    BY DEF Init
<1> QED
    BY <1>1, StepUsesStorage, PTL DEF Spec, StorageSpec

\* In every state of every request, the stamps of an object that did not slip
\* are the times of the Sets that made it and that stored its data
\* (memory.go:218-248).
THEOREM StampsAlwaysTrue == Spec => []StampsTrue
<1>1. StorageInv => StampsTrue
    BY DEF StorageInv, StampsTrue
<1> QED
    BY <1>1, RestUsesStorage, StorageCorrect, PTL

\* In every state, a list that was read while others wrote has the objects of its
\* range that did not change, as they are; with a limit those of them that decode,
\* or else only newer ones up to the limit (memory.go:109-137, 150-170, 184-214).
THEOREM PagesAreNewest == Spec => []PageIsNewest
<1>1. StorageInv => PageIsNewest
    BY DEF StorageInv, PageIsNewest
<1> QED
    BY <1>1, RestUsesStorage, StorageCorrect, PTL

-----------------------------------------------------------------------------
(***************************************************************************)
(* What a request does, as sequences.                                      *)
(***************************************************************************)
LEMMA AppendOnly ==
    ASSUME NEW s \in Seq(Effect), NEW e \in Effect
    PROVE  /\ Append(s, e) \in Seq(Effect)
           /\ Begins(<<>>, s) /\ Begins(s, s) /\ Begins(s, Append(s, e))
<1>1. /\ Append(s, e) \in Seq(Effect) /\ Len(s) \in Nat /\ Len(Append(s, e)) = Len(s) + 1
      /\ \A i \in 1 .. Len(s) : Append(s, e)[i] = s[i]
    OBVIOUS
<1>2. Len(<<>>) = 0
    OBVIOUS
<1> QED
    BY <1>1, <1>2 DEF Begins

LEMMA ChangeFacts ==
    ASSUME NEW req
    PROVE  /\ <<>> \in Seq(Effect) /\ <<Changed(req)>> \in Seq(Effect) /\ Change(req) \in Seq(Effect)
           /\ Silent(req.path) => Change(req) = <<Changed(req)>>
           /\ ~Silent(req.path) => Change(req) = Append(<<Changed(req)>>, "sent")
           /\ Begins(<<Changed(req)>>, Change(req))
<1>1. Changed(req) \in Effect /\ "sent" \in Effect
    BY DEF Changed, Effect
<1> DEFINE e == Changed(req)
<1> HIDE DEF e
<1>2. e \in Effect
    BY <1>1 DEF e
<1>3. <<e>> \in Seq(Effect) /\ <<e, "sent">> = Append(<<e>>, "sent") /\ <<>> \in Seq(Effect)
    BY <1>2
<1>4. /\ Append(<<e>>, "sent") \in Seq(Effect)
      /\ Begins(<<e>>, <<e>>) /\ Begins(<<e>>, Append(<<e>>, "sent"))
    BY <1>1, <1>3, AppendOnly
<1> QED
    BY <1>3, <1>4 DEF Change, e

LEMMA EffectsFacts ==
    ASSUME NEW req
    PROVE  /\ Effects(req) \in Seq(Effect)
           /\ Begins(<<>>, Effects(req)) /\ Begins(Effects(req), Effects(req))
           /\ req.kind = "publish" =>
                 Effects(req) = IF Watched(req.path) THEN Append(Change(req), "after")
                                                     ELSE Change(req)
           /\ req.kind = "unpublish" => Effects(req) = Change(req)
           /\ req.kind \in {"publish", "unpublish"} =>
                 Begins(<<Changed(req)>>, Effects(req)) /\ Begins(Change(req), Effects(req))
<1> DEFINE s == Change(req)
           t == <<Changed(req)>>
<1>1. s \in Seq(Effect) /\ t \in Seq(Effect) /\ <<>> \in Seq(Effect) /\ Begins(t, s)
    BY ChangeFacts
<1>2. "after" \in Effect
    BY DEF Effect
<1>3. /\ req.kind = "publish" =>
            Effects(req) = IF Watched(req.path) THEN Append(s, "after") ELSE s
      /\ req.kind = "unpublish" => Effects(req) = s
      /\ req.kind \notin {"publish", "unpublish"} => Effects(req) = <<>>
    BY DEF Effects
<1> HIDE DEF s, t
<1>4. Append(s, "after") \in Seq(Effect) /\ Begins(s, Append(s, "after")) /\ Begins(s, s)
    BY <1>1, <1>2, AppendOnly
<1>5. Begins(t, Append(s, "after"))
    <2>1. /\ Len(s) \in Nat /\ Len(Append(s, "after")) = Len(s) + 1 /\ Len(t) \in Nat
          /\ \A i \in 1 .. Len(s) : Append(s, "after")[i] = s[i]
        BY <1>1, <1>2
    <2>2. Len(t) <= Len(s) /\ \A i \in 1 .. Len(t) : t[i] = s[i]
        BY <1>1 DEF Begins
    <2> QED
        BY <2>1, <2>2 DEF Begins
<1>6. Effects(req) \in Seq(Effect)
    BY <1>1, <1>3, <1>4
<1>7. Begins(<<>>, Effects(req)) /\ Begins(Effects(req), Effects(req))
    BY <1>2, <1>6, AppendOnly
<1> QED
    BY <1>1, <1>3, <1>4, <1>5, <1>6, <1>7 DEF s, t

-----------------------------------------------------------------------------
(***************************************************************************)
(* What a step of the storage makes of its caller's operation.             *)
(***************************************************************************)
LEMMA StepIsOwn ==
    ASSUME StorageTyped, NEW c \in Callers, StorageStep(c), NEW d \in Callers, d # c
    PROVE  op'[d] = op[d]
<1>0. op \in [Callers -> Operation]
    BY DEF StorageTyped
<1>1. CASE Call(c, Kinds, Kinds)
    BY <1>0, <1>1 DEF Call, Set, NotFound, Pivot, Del, Scan, Clear, Begin
<1>2. CASE Inside(c)
    BY <1>0, <1>2 DEF Inside, Peek, Store, DeleteKey, ScanKey, DeleteDone, ScanDone, Take
<1>3. CASE Return(c)
    BY <1>0, <1>3 DEF Return
<1> QED
    BY <1>1, <1>2, <1>3 DEF StorageStep

LEMMA CallGoes ==
    ASSUME StorageTyped, NEW c \in Callers
    PROVE  /\ \A k \in Keys, kind \in Kinds :
                 Set(c, k, kind) => op'[c].pc = "peek" /\ op'[c].path = k
           /\ \A k \in Keys : NotFound(c, k) => op'[c].pc = "missing" /\ op'[c].path = k
           /\ \A p \in Paths : Del(c, p) => op'[c].pc = "del" /\ op'[c].path = p
           /\ \A p \in Paths \cup {None} : Scan(c, p, 0, Keys) => op'[c].pc = "scan"
<1>0. op \in [Callers -> Operation]
    BY DEF StorageTyped
<1>1. ASSUME NEW k \in Keys, NEW kind \in Kinds, Set(c, k, kind)
      PROVE  op'[c].pc = "peek" /\ op'[c].path = k
    BY <1>0, <1>1 DEF Set, Begin, IdleOp
<1>2. ASSUME NEW k \in Keys, NotFound(c, k) PROVE op'[c].pc = "missing" /\ op'[c].path = k
    BY <1>0, <1>2 DEF NotFound, Begin, IdleOp
<1>3. ASSUME NEW p \in Paths, Del(c, p) PROVE op'[c].pc = "del" /\ op'[c].path = p
    BY <1>0, <1>3 DEF Del, Begin, IdleOp
<1>4. ASSUME NEW p \in Paths \cup {None}, Scan(c, p, 0, Keys) PROVE op'[c].pc = "scan"
    BY <1>0, <1>4 DEF Scan, Begin, IdleOp
<1> QED
    BY <1>1, <1>2, <1>3, <1>4

LEMMA InsideGoes ==
    ASSUME StorageTyped, NEW c \in Callers
    PROVE  /\ Peek(c) => op[c].pc = "peek" /\ op'[c].pc = "store" /\ op'[c].path = op[c].path
           /\ Store(c) => /\ op[c].pc = "store" /\ op'[c].path = op[c].path
                          /\ op'[c].pc = Notify(op[c].path)
           /\ \A k \in Keys : DeleteKey(c, k) =>
                 op[c].pc \in {"del", "clear"} /\ op'[c].pc = op[c].pc /\ op'[c].path = op[c].path
           /\ DeleteDone(c) => op'[c].pc = Notify(op[c].path) /\ op'[c].path = op[c].path
           /\ Take(c) => op[c].pc = "send" /\ op'[c].pc = "done" /\ op'[c].path = op[c].path
           /\ \A k \in Keys : ScanKey(c, k) => op[c].pc = "scan" /\ op'[c].pc = "scan"
           /\ ScanDone(c) => op[c].pc = "scan" /\ op'[c].pc = "paged"
           /\ Return(c) => Ended(c) /\ op'[c] = IdleOp
<1>0. op \in [Callers -> Operation] /\ op[c] \in Operation
    BY DEF StorageTyped
<1>1. Peek(c) => op[c].pc = "peek" /\ op'[c].pc = "store" /\ op'[c].path = op[c].path
    BY <1>0 DEF Peek, Operation
<1>2. Store(c) => /\ op[c].pc = "store" /\ op'[c].path = op[c].path
                  /\ op'[c].pc = Notify(op[c].path)
    BY <1>0 DEF Store, IdleOp
<1>3. ASSUME NEW k \in Keys, DeleteKey(c, k)
      PROVE  op[c].pc \in {"del", "clear"} /\ op'[c].pc = op[c].pc /\ op'[c].path = op[c].path
    BY <1>0, <1>3 DEF DeleteKey, Operation
<1>4. DeleteDone(c) => op'[c].pc = Notify(op[c].path) /\ op'[c].path = op[c].path
    BY <1>0 DEF DeleteDone, Operation
<1>5. Take(c) => op[c].pc = "send" /\ op'[c].pc = "done" /\ op'[c].path = op[c].path
    BY <1>0 DEF Take, Operation
<1>6. ASSUME NEW k \in Keys, ScanKey(c, k) PROVE op[c].pc = "scan" /\ op'[c].pc = "scan"
    BY <1>0, <1>6 DEF ScanKey, Operation
<1>7. ScanDone(c) => op[c].pc = "scan" /\ op'[c].pc = "paged"
    BY <1>0 DEF ScanDone, Operation
<1>8. Return(c) => Ended(c) /\ op'[c] = IdleOp
    BY <1>0 DEF Return
<1> QED
    BY <1>1, <1>2, <1>3, <1>4, <1>5, <1>6, <1>7, <1>8

-----------------------------------------------------------------------------
(***************************************************************************)
(* Every request: its place and that of its operation agree, its answer is *)
(* true.                                                                   *)
(***************************************************************************)
Paired(h) ==
    /\ hand[h].pc # "busy" <=> op[h].pc = "idle"
    /\ hand[h].pc = "done" => answer[h] # "none"

HandOK(h) == Paired(h) /\ TrueAnswer(h) /\ Serving(h)

HandTyped ==
    /\ hand \in [Handlers -> Request]
    /\ answer \in [Handlers -> Answer]
    /\ did \in [Handlers -> Seq(Effect)]

LEMMA RestInvParts ==
    RestInv <=> StorageTyped /\ HandTyped /\ \A h \in Handlers : HandOK(h)
BY DEF RestInv, TypeOK, HandTyped, HandOK, Paired

LEMMA HandFrame ==
    ASSUME NEW h, HandOK(h),
           op'[h] = op[h], hand'[h] = hand[h], answer'[h] = answer[h], did'[h] = did[h]
    PROVE  HandOK(h)'
<1>1. Paired(h)'
    BY DEF HandOK, Paired
<1>2. TrueAnswer(h)'
    BY DEF HandOK, TrueAnswer
<1>3. Serving(h)'
    BY DEF HandOK, Serving, SoFar
<1> QED
    BY <1>1, <1>2, <1>3 DEF HandOK

\* A step of one request.
LEMMA RequestFrame ==
    ASSUME RestInv, StorageTyped', NEW h \in Handlers,
           UNCHANGED op \/ StorageStep(h),
           NEW q \in Request, hand' = [hand EXCEPT ![h] = q],
           NEW a \in Answer, answer' = [answer EXCEPT ![h] = a],
           NEW s \in Seq(Effect), did' = [did EXCEPT ![h] = s],
           HandOK(h)'
    PROVE  RestInv'
<1>0. StorageTyped /\ HandTyped /\ \A g \in Handlers : HandOK(g)
    BY RestInvParts
<1>1. HandTyped'
    BY <1>0 DEF HandTyped
<1>2. ASSUME NEW g \in Handlers, g # h PROVE HandOK(g)'
    <2>1. op'[g] = op[g]
        BY <1>0, <1>2, StepIsOwn, RestAssumption
    <2>2. hand'[g] = hand[g] /\ answer'[g] = answer[g] /\ did'[g] = did[g]
        BY <1>0, <1>2 DEF HandTyped
    <2> QED
        BY <1>0, <2>1, <2>2, HandFrame
<1>3. \A g \in Handlers : HandOK(g)'
    BY <1>2
<1> QED
    BY <1>1, <1>3 DEF RestInv, TypeOK, HandTyped, HandOK, Paired

\* Values of this request.
LEMMA RequestTyped ==
    ASSUME RestInv, NEW h \in Handlers
    PROVE  /\ h \in Callers /\ hand[h] \in Request /\ answer[h] \in Answer /\ did[h] \in Seq(Effect)
           /\ op[h] \in Operation /\ StorageTyped /\ HandTyped /\ HandOK(h)
           /\ hand = [hand EXCEPT ![h] = hand[h]]
           /\ answer = [answer EXCEPT ![h] = answer[h]]
           /\ did = [did EXCEPT ![h] = did[h]]
<1>1. StorageTyped /\ HandTyped /\ HandOK(h) /\ h \in Callers
    BY RestInvParts, RestAssumption
<1> QED
    BY <1>1 DEF HandTyped, StorageTyped

LEMMA RefusePreserves ==
    ASSUME RestInv, StorageTyped', NEW h \in Handlers, Refuse(h)
    PROVE  RestInv'
<1> DEFINE q == [hand[h] EXCEPT !.pc = "done"]
<1>0. /\ hand[h] \in Request /\ did[h] \in Seq(Effect) /\ HandTyped /\ HandOK(h)
      /\ did = [did EXCEPT ![h] = did[h]]
    BY RequestTyped
<1>1. /\ hand[h].pc = "idle" /\ hand[h].kind = "none" /\ answer[h] = "none" /\ did[h] = <<>>
      /\ op[h].pc = "idle"
    BY <1>0 DEF Refuse, HandOK, Serving, Paired
<1>2. q \in Request /\ q.pc = "done" /\ q.kind = "none"
    BY <1>0, <1>1 DEF Request
<1>3. /\ hand' = [hand EXCEPT ![h] = q] /\ answer' = [answer EXCEPT ![h] = "refused"]
      /\ did' = [did EXCEPT ![h] = did[h]] /\ UNCHANGED op
    BY <1>0 DEF Refuse, storageVars
<1> HIDE DEF q
<1>4. hand'[h] = q /\ answer'[h] = "refused" /\ did'[h] = <<>> /\ op'[h].pc = "idle"
    BY <1>0, <1>1, <1>3 DEF HandTyped
<1>5. Begins(<<>>, Effects(q))
    BY EffectsFacts
<1>6. HandOK(h)'
    BY <1>2, <1>4, <1>5 DEF HandOK, Paired, TrueAnswer, Serving
<1> QED
    BY <1>0, <1>2, <1>3, <1>6, RequestFrame DEF Answer

\* A request is accepted, and its operation is under way.
LEMMA ServePreserves ==
    ASSUME RestInv, StorageTyped', NEW h \in Handlers,
           NEW kind \in {"publish", "unpublish", "read", "stats"}, NEW path \in Paths \cup {None},
           Serve(h, kind, path), StorageStep(h),
           op'[h].pc \in {"peek", "del", "missing", "scan"},
           kind = "publish" => /\ op'[h].pc = "peek" /\ op'[h].path = path
                               /\ Allowed(Write, path),
           kind = "unpublish" => /\ op'[h].pc \in {"del", "missing"} /\ op'[h].path = path
                                 /\ Allowed(Delete, path),
           kind \in {"read", "stats"} => op'[h].pc = "scan"
    PROVE  RestInv'
<1> DEFINE q == [pc |-> "busy", path |-> path, kind |-> kind]
<1>0. /\ answer[h] \in Answer /\ did[h] \in Seq(Effect) /\ HandTyped /\ HandOK(h)
      /\ answer = [answer EXCEPT ![h] = answer[h]] /\ did = [did EXCEPT ![h] = did[h]]
    BY RequestTyped
<1>1. hand[h].pc = "idle" /\ answer[h] = "none" /\ did[h] = <<>>
    BY <1>0 DEF Serve, HandOK, Serving
<1>2. q \in Request /\ q.pc = "busy" /\ q.path = path /\ q.kind = kind
    BY DEF Request
<1>3. /\ hand' = [hand EXCEPT ![h] = q] /\ answer' = [answer EXCEPT ![h] = answer[h]]
      /\ did' = [did EXCEPT ![h] = did[h]]
    BY <1>0 DEF Serve
<1> HIDE DEF q
<1>4. hand'[h] = q /\ answer'[h] = "none" /\ did'[h] = <<>>
    BY <1>0, <1>1, <1>3 DEF HandTyped
<1>5. Begins(<<>>, Effects(q))
    BY EffectsFacts
<1>6. Paired(h)' /\ TrueAnswer(h)'
    BY <1>2, <1>4, <1>5 DEF Paired, TrueAnswer
<1>7. Serving(h)'
    BY <1>2, <1>4 DEF Serving, SoFar
<1>8. HandOK(h)'
    BY <1>6, <1>7 DEF HandOK
<1> QED
    BY <1>0, <1>2, <1>3, <1>8, RequestFrame

LEMMA AcceptPreserves ==
    ASSUME RestInv, StorageTyped', NEW h \in Handlers,
           Publish(h) \/ Unpublish(h) \/ ReadPath(h) \/ GetStats(h)
    PROVE  RestInv'
<1>0. StorageTyped /\ h \in Callers
    BY RequestTyped
<1>1. CASE Publish(h)
    <2>1. PICK path \in Paths : \E k \in Built(path) : \E kind \in Bodies(k) :
             Check(Write, k) /\ Serve(h, "publish", k) /\ Set(h, k, kind)
        BY <1>1 DEF Publish
    <2>2. PICK k \in Built(path) : \E kind \in Bodies(k) :
             Check(Write, k) /\ Serve(h, "publish", k) /\ Set(h, k, kind)
        BY <2>1
    <2>3. /\ k \in Keys /\ k \in Paths \cup {None}
          /\ \E kind \in Kinds : Set(h, k, kind)
        BY <2>2, CoversKeys, BodiesKinds DEF Built, Paths
    <2>4. op'[h].pc = "peek" /\ op'[h].path = k
        BY <1>0, <2>2, <2>3, CallGoes
    <2>5. Allowed(Write, k)
        BY <2>2, CheckAllows, RestAssumption
    <2>6. StorageStep(h)
        BY <2>3 DEF StorageStep, Call
    <2> QED
        BY <2>2, <2>3, <2>4, <2>5, <2>6, ServePreserves
<1>2. CASE Unpublish(h)
    <2>1. PICK path \in Paths :
             /\ Check(Delete, path) /\ Serve(h, "unpublish", path)
             /\ Del(h, path) \/ (path \in Keys /\ NotFound(h, path))
        BY <1>2 DEF Unpublish
    <2>2. op'[h].pc \in {"del", "missing"} /\ op'[h].path = path
        BY <1>0, <2>1, CallGoes
    <2>3. Allowed(Delete, path)
        BY <2>1, CheckAllows, RestAssumption
    <2>4. StorageStep(h)
        BY <2>1 DEF StorageStep, Call
    <2> QED
        BY <2>1, <2>2, <2>3, <2>4, ServePreserves
<1>3. CASE ReadPath(h)
    <2>1. PICK path \in Paths : Serve(h, "read", path) /\ Scan(h, path, 0, Keys)
        BY <1>3 DEF ReadPath
    <2>2. op'[h].pc = "scan" /\ StorageStep(h)
        BY <1>0, <2>1, CallGoes DEF StorageStep, Call
    <2> QED
        BY <2>1, <2>2, ServePreserves
<1>4. CASE GetStats(h)
    <2>1. Serve(h, "stats", None) /\ Scan(h, None, 0, Keys)
        BY <1>4 DEF GetStats
    <2>2. op'[h].pc = "scan" /\ StorageStep(h)
        BY <1>0, <2>1, CallGoes DEF StorageStep, Call
    <2> QED
        BY <2>1, <2>2, ServePreserves
<1> QED
    BY <1>1, <1>2, <1>3, <1>4

-----------------------------------------------------------------------------
\* A request goes on: what it has done is what its operation says.
LEMMA GoOnPreserves ==
    ASSUME RestInv, StorageTyped', NEW h \in Handlers, hand[h].pc = "busy",
           StorageStep(h), UNCHANGED <<hand, answer>>,
           op'[h].path = op[h].path \/ hand[h].kind \in {"read", "stats"},
           op'[h].pc # "idle",
           hand[h].kind = "publish" => op'[h].pc \in {"store", "send", "done"},
           hand[h].kind = "unpublish" => op'[h].pc \in {"del", "send", "done"},
           hand[h].kind \in {"read", "stats"} => op'[h].pc \in {"scan", "paged"},
           op'[h].pc = "send" => ~Silent(op'[h].path),
           NEW s \in Seq(Effect), did' = [did EXCEPT ![h] = s],
           s = IF op'[h].pc = "send" THEN <<Changed(hand[h])>>
               ELSE IF op'[h].pc = "done" THEN Change(hand[h]) ELSE <<>>
    PROVE  RestInv'
<1>0. /\ hand[h] \in Request /\ answer[h] \in Answer /\ HandTyped /\ HandOK(h)
      /\ hand = [hand EXCEPT ![h] = hand[h]] /\ answer = [answer EXCEPT ![h] = answer[h]]
    BY RequestTyped
<1>1. /\ hand'[h] = hand[h] /\ answer'[h] = answer[h] /\ did'[h] = s
    BY <1>0 DEF HandTyped
<1>2. hand[h].kind \in {"publish", "unpublish", "read", "stats"}
    BY <1>0 DEF HandOK, Serving, Request
<1>3. Begins(s, Effects(hand[h])) /\ (s # <<>> => hand[h].kind \in {"publish", "unpublish"})
    BY <1>2, EffectsFacts
<1>4. answer[h] \in {"none", "late"}
    BY <1>0, <1>2 DEF HandOK, Serving
<1>5. hand[h].kind = "publish" => Allowed(Write, hand[h].path)
    BY <1>0 DEF HandOK, Serving
<1>6. hand[h].kind = "unpublish" => Allowed(Delete, hand[h].path)
    BY <1>0 DEF HandOK, Serving
<1>7. TrueAnswer(h)'
    BY <1>1, <1>3, <1>4, <1>5, <1>6 DEF TrueAnswer
<1>8. Serving(h)'
    BY <1>0, <1>1, <1>2 DEF HandOK, Serving, SoFar
<1>9. Paired(h)'
    BY <1>1 DEF Paired
<1>10. HandOK(h)'
    BY <1>7, <1>8, <1>9 DEF HandOK
<1> QED
    BY <1>0, <1>10, RequestFrame

LEMMA WorkPreserves ==
    ASSUME RestInv, StorageTyped', NEW h \in Handlers, Work(h)
    PROVE  RestInv'
<1>0. /\ h \in Callers /\ hand[h] \in Request /\ did[h] \in Seq(Effect) /\ op[h] \in Operation
      /\ StorageTyped /\ HandTyped /\ HandOK(h) /\ did = [did EXCEPT ![h] = did[h]]
    BY RequestTyped
<1>1. hand[h].pc = "busy" /\ UNCHANGED <<hand, answer>>
    BY DEF Work
<1>2. /\ hand[h].kind \in {"publish", "unpublish", "read", "stats"}
      /\ hand[h].kind = "publish" => op[h].pc \in {"peek", "store", "send", "done"}
      /\ hand[h].kind = "unpublish" => op[h].pc \in {"del", "send", "done", "missing"}
      /\ hand[h].kind \in {"read", "stats"} => op[h].pc \in {"scan", "paged"}
      /\ hand[h].kind \in {"publish", "unpublish"} => op[h].path = hand[h].path
      /\ did[h] = SoFar(h) /\ (op[h].pc = "send" => ~Silent(op[h].path))
    BY <1>0, <1>1 DEF HandOK, Serving, Request
<1>3. /\ <<Changed(hand[h])>> \in Seq(Effect) /\ Change(hand[h]) \in Seq(Effect) /\ <<>> \in Seq(Effect)
      /\ Silent(hand[h].path) => Change(hand[h]) = <<Changed(hand[h])>>
      /\ ~Silent(hand[h].path) => Change(hand[h]) = Append(<<Changed(hand[h])>>, "sent")
    BY ChangeFacts
<1>4. /\ Notify(op[h].path) = "send" => ~Silent(op[h].path)
      /\ Notify(op[h].path) = "done" => Silent(op[h].path)
      /\ Notify(op[h].path) \in {"send", "done"}
    BY DEF Notify
<1>5. CASE Store(h) /\ did' = [did EXCEPT ![h] = Append(@, "stored")]
    <2>1. /\ op[h].pc = "store" /\ op'[h].path = op[h].path /\ op'[h].pc = Notify(op[h].path)
        BY <1>0, <1>5, InsideGoes
    <2>2. hand[h].kind = "publish" /\ did[h] = <<>> /\ Changed(hand[h]) = "stored"
        BY <1>2, <2>1 DEF SoFar, Changed
    <2> DEFINE s == <<Changed(hand[h])>>
    <2>3. did' = [did EXCEPT ![h] = s] /\ s \in Seq(Effect)
        <3>1. Append(<<>>, "stored") = <<"stored">>
            OBVIOUS
        <3> QED
            BY <1>0, <1>3, <1>5, <2>2, <3>1
    <2>4. s = IF op'[h].pc = "send" THEN <<Changed(hand[h])>>
              ELSE IF op'[h].pc = "done" THEN Change(hand[h]) ELSE <<>>
        BY <1>2, <1>3, <1>4, <2>1, <2>2
    <2>5. StorageStep(h)
        BY <1>5 DEF StorageStep, Inside
    <2> HIDE DEF s
    <2> QED
        BY <1>1, <1>4, <2>1, <2>2, <2>3, <2>4, <2>5, GoOnPreserves
<1>6. CASE op[h].pc = "del" /\ DeleteDone(h) /\ did' = [did EXCEPT ![h] = Append(@, "deleted")]
    <2>1. op'[h].path = op[h].path /\ op'[h].pc = Notify(op[h].path)
        BY <1>0, <1>6, InsideGoes
    <2>2. hand[h].kind = "unpublish" /\ did[h] = <<>> /\ Changed(hand[h]) = "deleted"
        BY <1>2, <1>6 DEF SoFar, Changed
    <2> DEFINE s == <<Changed(hand[h])>>
    <2>3. did' = [did EXCEPT ![h] = s] /\ s \in Seq(Effect)
        <3>1. Append(<<>>, "deleted") = <<"deleted">>
            OBVIOUS
        <3> QED
            BY <1>0, <1>3, <1>6, <2>2, <3>1
    <2>4. s = IF op'[h].pc = "send" THEN <<Changed(hand[h])>>
              ELSE IF op'[h].pc = "done" THEN Change(hand[h]) ELSE <<>>
        BY <1>2, <1>3, <1>4, <2>1, <2>2
    <2>5. StorageStep(h)
        BY <1>6 DEF StorageStep, Inside
    <2> HIDE DEF s
    <2> QED
        BY <1>1, <1>4, <2>1, <2>2, <2>3, <2>4, <2>5, GoOnPreserves
<1>7. CASE Take(h) /\ did' = [did EXCEPT ![h] = Append(@, "sent")]
    <2>1. op[h].pc = "send" /\ op'[h].pc = "done" /\ op'[h].path = op[h].path
        BY <1>0, <1>7, InsideGoes
    <2>2. hand[h].kind \in {"publish", "unpublish"} /\ did[h] = <<Changed(hand[h])>>
        BY <1>2, <2>1 DEF SoFar
    <2>3. Append(did[h], "sent") = Change(hand[h])
        BY <1>2, <1>3, <2>1, <2>2
    <2>4. did' = [did EXCEPT ![h] = Change(hand[h])]
        BY <1>0, <1>7, <2>3
    <2>5. StorageStep(h)
        BY <1>7 DEF StorageStep, Inside
    <2> QED
        BY <1>1, <1>3, <2>1, <2>2, <2>4, <2>5, GoOnPreserves
<1>8. CASE /\ Peek(h) \/ ScanDone(h) \/ \E k \in Keys : DeleteKey(h, k) \/ ScanKey(h, k)
           /\ did' = did
    <2>1. /\ op[h].pc \in {"peek", "scan", "del", "clear"}
          /\ op'[h].path = op[h].path \/ op[h].pc = "scan"
          /\ op[h].pc = "peek" => op'[h].pc = "store"
          /\ op[h].pc \in {"del", "clear"} => op'[h].pc = op[h].pc
          /\ op[h].pc = "scan" => op'[h].pc \in {"scan", "paged"}
        BY <1>0, <1>8, InsideGoes
    <2>2. did[h] = <<>> /\ op[h].pc # "clear"
        BY <1>2, <2>1 DEF SoFar
    <2>3. /\ hand[h].kind = "publish" => op'[h].pc = "store"
          /\ hand[h].kind = "unpublish" => op'[h].pc = "del"
          /\ hand[h].kind \in {"read", "stats"} <=> op[h].pc = "scan"
          /\ op'[h].pc \in {"store", "del", "scan", "paged"}
        BY <1>2, <2>1, <2>2
    <2>4. did' = [did EXCEPT ![h] = <<>>]
        BY <1>0, <1>8, <2>2
    <2>5. StorageStep(h)
        BY <1>8 DEF StorageStep, Inside
    <2>6. /\ op'[h].path = op[h].path \/ hand[h].kind \in {"read", "stats"}
          /\ hand[h].kind \in {"read", "stats"} => op'[h].pc \in {"scan", "paged"}
        BY <2>1, <2>3
    <2> QED
        BY <1>1, <1>3, <2>3, <2>4, <2>5, <2>6, GoOnPreserves
<1> QED
    BY <1>5, <1>6, <1>7, <1>8 DEF Work

LEMMA FinishPreserves ==
    ASSUME RestInv, StorageTyped', NEW h \in Handlers, Finish(h)
    PROVE  RestInv'
<1> DEFINE q == [hand[h] EXCEPT !.pc = "done"]
           a == IF answer[h] = "none" THEN Outcome(h) ELSE answer[h]
           s == IF hand[h].kind = "publish" /\ Watched(hand[h].path)
                THEN Append(did[h], "after") ELSE did[h]
<1>0. /\ h \in Callers /\ hand[h] \in Request /\ answer[h] \in Answer /\ did[h] \in Seq(Effect)
      /\ StorageTyped /\ HandTyped /\ HandOK(h)
    BY RequestTyped
<1>1. hand[h].pc = "busy" /\ Ended(h) /\ op'[h] = IdleOp /\ StorageStep(h)
    BY <1>0, InsideGoes DEF Finish, StorageStep
<1>2. /\ hand' = [hand EXCEPT ![h] = q] /\ answer' = [answer EXCEPT ![h] = a]
      /\ did' = [did EXCEPT ![h] = s]
    BY <1>0 DEF Finish, HandTyped
<1>3. /\ hand[h].kind \in {"publish", "unpublish", "read", "stats"}
      /\ hand[h].kind = "publish" => op[h].pc = "done"
      /\ hand[h].kind = "unpublish" => op[h].pc \in {"done", "missing"}
      /\ hand[h].kind \in {"read", "stats"} => op[h].pc = "paged" /\ answer[h] = "none"
      /\ hand[h].kind \in {"publish", "unpublish"} => answer[h] \in {"none", "late"}
      /\ did[h] = SoFar(h)
    BY <1>0, <1>1 DEF HandOK, Serving, Request, Ended
<1>4. q \in Request /\ q.pc = "done" /\ q.kind = hand[h].kind /\ q.path = hand[h].path
    BY <1>0 DEF Request
<1>5. Outcome(h) \in {"ok", "refused", "missing"} /\ a \in Answer /\ a # "none"
    BY <1>0 DEF Outcome, Answer
<1>6. Append(did[h], "after") \in Seq(Effect) /\ s \in Seq(Effect)
    BY <1>0, AppendOnly DEF Effect
<1>7. /\ Begins(<<>>, Effects(q)) /\ Begins(Effects(q), Effects(q))
      /\ q.kind = "publish" =>
            Effects(q) = IF Watched(q.path) THEN Append(Change(q), "after") ELSE Change(q)
      /\ q.kind = "unpublish" => Effects(q) = Change(q)
    BY EffectsFacts
<1>8. Change(q) = Change(hand[h])
    BY <1>4 DEF Change, Changed
<1> HIDE DEF q
\* What it has done in the end.
<1>9. /\ hand[h].kind = "publish" => s = Effects(q) /\ (answer[h] = "none" => a = "ok")
      /\ hand[h].kind = "unpublish" => \/ s = Effects(q) /\ (answer[h] = "none" => a = "ok")
                                       \/ s = <<>> /\ (answer[h] = "none" => a = "missing")
      /\ hand[h].kind \in {"read", "stats"} => s = <<>>
    <2>1. CASE hand[h].kind = "publish"
        <3>1. did[h] = Change(q)
            BY <1>3, <1>8, <2>1 DEF SoFar
        <3>2. Outcome(h) = "ok"
            BY <1>3, <2>1 DEF Outcome
        <3> QED
            BY <1>4, <1>7, <2>1, <3>1, <3>2
    <2>2. CASE hand[h].kind = "unpublish"
        <3>1. IF op[h].pc = "done" THEN did[h] = Change(q) ELSE did[h] = <<>>
            BY <1>3, <1>8, <2>2 DEF SoFar
        <3>2. Outcome(h) = IF op[h].pc = "done" THEN "ok" ELSE "missing"
            BY <1>3, <2>2 DEF Outcome
        <3> QED
            BY <1>4, <1>7, <2>2, <3>1, <3>2
    <2>3. CASE hand[h].kind \in {"read", "stats"}
        BY <1>3, <2>3 DEF SoFar
    <2> QED
        BY <1>3, <2>1, <2>2, <2>3
<1>10. hand[h].kind = "read" /\ a = "ok" => Allowed(Read, q.path)
    <2>1. hand[h].kind = "read" /\ a = "ok" => Check(Read, hand[h].path)
        BY <1>3 DEF Outcome
    <2> QED
        BY <1>4, <2>1, CheckAllows, RestAssumption
<1>11. /\ hand[h].kind = "publish" => Allowed(Write, q.path)
       /\ hand[h].kind = "unpublish" => Allowed(Delete, q.path)
    BY <1>0, <1>1, <1>4 DEF HandOK, Serving
<1> HIDE DEF a, s
<1>12. a \in {"ok", "refused", "missing", "late"}
    BY <1>5 DEF Answer
<1>13. hand'[h] = q /\ answer'[h] = a /\ did'[h] = s /\ op'[h].pc = "idle"
    BY <1>0, <1>1, <1>2 DEF HandTyped, IdleOp
<1>14. TrueAnswer(h)'
    <2>1. s \in {<<>>, Effects(q)} /\ Begins(s, Effects(q))
        BY <1>3, <1>7, <1>9
    <2>2. a = "ok" => s = Effects(q)
        BY <1>3, <1>4, <1>7, <1>9, <1>12 DEF Effects, a
    <2>3. a \in {"refused", "missing"} => s = <<>>
        BY <1>3, <1>9, <1>12 DEF a
    <2>4. s # <<>> => Allowed(IF q.kind = "publish" THEN Write ELSE Delete, q.path)
        BY <1>3, <1>4, <1>9, <1>11
    <2> QED
        BY <1>4, <1>10, <1>13, <2>1, <2>2, <2>3, <2>4 DEF TrueAnswer
<1>15. Serving(h)' /\ Paired(h)'
    BY <1>4, <1>5, <1>13 DEF Serving, Paired
<1>16. HandOK(h)'
    BY <1>14, <1>15 DEF HandOK
<1> QED
    BY <1>1, <1>2, <1>4, <1>5, <1>6, <1>16, RequestFrame

LEMMA DeadlinePreserves ==
    ASSUME RestInv, StorageTyped', NEW h \in Handlers, Deadline(h)
    PROVE  RestInv'
<1>0. /\ hand[h] \in Request /\ did[h] \in Seq(Effect) /\ HandTyped /\ HandOK(h)
      /\ hand = [hand EXCEPT ![h] = hand[h]] /\ did = [did EXCEPT ![h] = did[h]]
    BY RequestTyped
<1>1. /\ hand[h].pc = "busy" /\ hand[h].kind \in {"publish", "unpublish"}
      /\ answer' = [answer EXCEPT ![h] = "late"] /\ UNCHANGED <<op, hand, did>>
    BY DEF Deadline, storageVars
<1>2. answer'[h] = "late" /\ "late" \in Answer
    BY <1>0, <1>1 DEF HandTyped, Answer
<1>3. TrueAnswer(h)'
    BY <1>0, <1>1, <1>2 DEF HandOK, TrueAnswer
<1>4. Serving(h)' /\ Paired(h)'
    BY <1>0, <1>1, <1>2 DEF HandOK, Serving, SoFar, Paired
<1>5. HandOK(h)'
    BY <1>3, <1>4 DEF HandOK
<1> QED
    BY <1>0, <1>1, <1>2, <1>5, RequestFrame

-----------------------------------------------------------------------------
LEMMA RestInitInv == Init => RestInv
<1> SUFFICES ASSUME Init PROVE RestInv
    OBVIOUS
<1> DEFINE q == [pc |-> "idle", path |-> None, kind |-> "none"]
<1>1. StorageTyped
    BY StorageInitInv DEF Init, StorageInv
<1>2. q \in Request /\ "none" \in Answer /\ <<>> \in Seq(Effect)
    BY DEF Request, Answer
<1>3. HandTyped
    BY <1>2 DEF Init, HandTyped
<1>4. ASSUME NEW h \in Handlers PROVE HandOK(h)
    <2>1. hand[h] = q /\ answer[h] = "none" /\ did[h] = <<>>
        BY DEF Init
    <2>2. op[h].pc = "idle"
        BY RestAssumption DEF Init, StorageInit, IdleOp
    <2>3. Begins(<<>>, Effects(hand[h]))
        BY EffectsFacts
    <2> QED
        BY <2>1, <2>2, <2>3 DEF HandOK, Paired, TrueAnswer, Serving
<1> QED
    BY <1>1, <1>3, <1>4, RestInvParts

LEMMA RestStepPreserves ==
    ASSUME RestInv, StorageTyped', [Next]_vars
    PROVE  RestInv'
<1>0. StorageTyped /\ HandTyped /\ \A h \in Handlers : HandOK(h)
    BY RestInvParts
<1>1. ASSUME NEW h \in Handlers, HandlerStep(h) PROVE RestInv'
    BY <1>1, RefusePreserves, AcceptPreserves, WorkPreserves, FinishPreserves,
       DeadlinePreserves DEF HandlerStep
<1>2. ASSUME \A h \in Handlers : op'[h] = op[h], UNCHANGED <<hand, answer, did>> PROVE RestInv'
    <2>1. HandTyped'
        BY <1>0, <1>2 DEF HandTyped
    <2>2. ASSUME NEW h \in Handlers PROVE HandOK(h)'
        BY <1>0, <1>2, HandFrame
    <2> QED
        BY <2>1, <2>2 DEF RestInv, TypeOK, HandTyped, HandOK, Paired
<1>3. ASSUME NEW c \in Apps, AppStep(c) PROVE RestInv'
    <2>1. StorageStep(c) /\ UNCHANGED <<hand, answer, did>>
        BY <1>3, AppCalls DEF AppStep, StorageStep
    <2>2. \A h \in Handlers : op'[h] = op[h]
        BY <1>0, <2>1, StepIsOwn, RestAssumption DEF Apps
    <2> QED
        BY <1>2, <2>1, <2>2
<1>4. CASE UNCHANGED vars
    BY <1>2, <1>4 DEF vars
<1> QED
    BY <1>1, <1>3, <1>4 DEF Next, Idle

LEMMA RestInvariant == Spec => []RestInv
<1>1. StorageInv => StorageTyped
    BY DEF StorageInv
<1>2. RestInv /\ StorageInv' /\ [Next]_vars => RestInv'
    <2> SUFFICES ASSUME RestInv, StorageInv', [Next]_vars PROVE RestInv'
        OBVIOUS
    <2>1. StorageTyped'
        BY DEF StorageInv
    <2> QED
        BY <2>1, RestStepPreserves
<1> QED
    BY <1>2, RestInitInv, RestUsesStorage, StorageCorrect, PTL DEF Spec

\* The storage, the requests and the operations under way keep their types; a
\* handler is busy exactly while it has an operation, and one that ended has
\* answered (rest.go).
THEOREM RestTyped == Spec => []TypeOK
<1>1. RestInv => TypeOK
    BY DEF RestInv
<1> QED
    BY <1>1, RestInvariant, PTL

\* Whatever is deleted, stored and read meanwhile and whether or not the
\* deadline passes, what a client was answered is what its request does
\* (rest.go:38-169, katamari.go:339-342).
THEOREM AnswersAreTrue == Spec => []AnswerIsTrue
<1>1. RestInv => AnswerIsTrue
    BY DEF RestInv, AnswerIsTrue
<1> QED
    BY <1>1, RestInvariant, PTL

(***************************************************************************)
(* The helpers of package io.                                              *)
(***************************************************************************)
LEMMA BuiltKeys == ASSUME NEW g PROVE Built(g) \subseteq Keys
BY DEF Built, Covers

\* One step per part of the module.
LEMMA StepUsesRest == [IoNext]_ioVars => [Next]_vars
<1> SUFFICES ASSUME [IoNext]_ioVars PROVE [Next]_vars
    OBVIOUS
<1>1. ASSUME NEW c \in Apps, LocalStep(c) PROVE [Next]_vars
    <2>1. ASSUME NEW k \in Keys, LocalSet(c, k) \/ LocalGet(c, k)
          PROVE  Call(c, SetKinds, PivotKinds)
        BY <2>1, IoAssumption DEF LocalSet, LocalGet, Call, Paths
    <2>2. ASSUME NEW g \in Globs, LocalPush(c, g) \/ LocalGetList(c, g)
          PROVE  Call(c, SetKinds, PivotKinds)
        BY <2>2, BuiltKeys, IoAssumption DEF LocalPush, LocalGetList, Call, Paths
    <2>3. LocalReturns(c) => Return(c)
        BY DEF LocalReturns
    <2>4. AppStep(c)
        BY <1>1, <2>1, <2>2, <2>3 DEF LocalStep, AppStep
    <2> QED
        BY <2>4 DEF Next
<1>2. ASSUME NEW c \in Apps, AppTurn(c) PROVE [Next]_vars
    BY <1>2 DEF AppTurn, Next
<1>3. ASSUME NEW h \in Handlers, RemoteStep(h) PROVE [Next]_vars
    BY <1>3 DEF RemoteStep
<1>4. ASSUME NEW h \in Handlers, HandlerTurn(h) PROVE [Next]_vars
    BY <1>4 DEF HandlerTurn, Next
<1>5. IoIdle \/ UNCHANGED ioVars => UNCHANGED vars
    BY DEF IoIdle, Idle, ioVars
<1> QED
    BY <1>1, <1>2, <1>3, <1>4, <1>5 DEF IoNext

\* The helpers of io, through whichever of the two ways, add nothing to what the
\* application and the clients may do: what is proved of Rest, and of Storage
\* below it, holds with them.
THEOREM IoUsesRest == IoSpec => Spec
<1>1. IoInit => Init
    BY DEF IoInit
<1> QED
    BY <1>1, StepUsesRest, PTL DEF IoSpec, Spec

-----------------------------------------------------------------------------
(***************************************************************************)
(* The storage: no two Sets have the same time, so an object that does not *)
(* look changed has not changed.                                           *)
(***************************************************************************)
LEMMA Fields ==
    ASSUME StorageTyped, NEW c \in Callers
    PROVE  /\ op[c] \in Operation /\ op \in [Callers -> Operation]
           /\ mem \in [Keys -> Object \cup {NoObj}] /\ steady \in [Callers -> SUBSET Keys]
           /\ now \in Nat
BY StorageAssumption DEF StorageTyped

LEMMA DistinctKept ==
    ASSUME StorageInv, NEW d \in Callers, StorageStep(d), \A c \in Callers : Distinct(c)
    PROVE  \A c \in Callers : Distinct(c)'
<1>0. StorageTyped /\ \A c \in Callers : op[c] \in Operation
    BY Fields DEF StorageInv
<1>1. \A c \in Callers \ {d} : op'[c] = op[c]
    BY <1>0, StepIsOwn
<1>2. \A c \in Callers : op[c].pc \in {"peek", "store"} => op[c].stamp \in 1 .. now
    BY DEF StorageInv, Stamped
<1>3. op \in [Callers -> Operation] /\ now \in Nat /\ mem \in [Keys -> Object \cup {NoObj}]
    BY <1>0, Fields
<1>4. ASSUME UNCHANGED mem, op'[d].pc \in {"peek", "store"} => op[d].pc \in {"peek", "store"},
             op'[d].stamp = op[d].stamp \/ op'[d].pc \notin {"peek", "store"}
      PROVE  \A c \in Callers : Distinct(c)'
    BY <1>1, <1>4 DEF Distinct
<1>5. ASSUME NEW k \in Keys, NEW kind \in Kinds, Set(d, k, kind)
      PROVE  \A c \in Callers : Distinct(c)'
    <2>1. UNCHANGED mem /\ op'[d].pc = "peek" /\ op'[d].stamp = now + 1
        BY <1>3, <1>5 DEF Set, Begin, IdleOp
    <2>2. \A j \in Keys : mem[j] # NoObj => mem[j].data <= now /\ mem[j].data \in Nat
        BY <1>3 DEF StorageInv, InTime, Object
    <2>3. \A c \in Callers \ {d} : Distinct(c)'
        BY <1>1, <1>2, <1>3, <2>1 DEF Distinct
    <2>4. Distinct(d)'
        BY <1>1, <1>2, <1>3, <2>1, <2>2 DEF Distinct
    <2> QED
        BY <2>3, <2>4
<1>6. ASSUME NEW k \in Keys, NEW o \in Object \cup {NoObj}, Put(k, o),
             op'[d].pc \notin {"peek", "store"},
             o = NoObj \/ o.data = 0 \/ (op[d].pc = "store" /\ o.data = op[d].stamp)
      PROVE  \A c \in Callers : Distinct(c)'
    <2>1. mem'[k] = o /\ \A j \in Keys \ {k} : mem'[j] = mem[j]
        BY <1>3, <1>6 DEF Put
    <2> SUFFICES ASSUME NEW c \in Callers, c # d, op[c].pc \in {"peek", "store"}
                 PROVE  Distinct(c)'
        BY <1>1, <1>6 DEF Distinct
    <2>2. \A j \in Keys : mem'[j] # NoObj => mem'[j].data # op[c].stamp
        BY <1>2, <1>3, <1>6, <2>1 DEF Distinct
    <2>3. \A e \in Callers \ {c} : op'[e].pc \in {"peek", "store"} => op'[e].stamp # op[c].stamp
        BY <1>1, <1>6 DEF Distinct
    <2> QED
        BY <1>1, <2>2, <2>3 DEF Distinct
<1>7. CASE Call(d, Kinds, Kinds)
    <2>1. ASSUME NEW k \in Keys, NotFound(d, k) PROVE \A c \in Callers : Distinct(c)'
        BY <1>3, <1>4, <2>1 DEF NotFound, Begin, IdleOp
    <2>2. ASSUME NEW k \in Keys, NEW kind \in Kinds, NEW s \in PivotStamps,
                 Pivot(d, k, kind, s[1], s[2])
          PROVE  \A c \in Callers : Distinct(c)'
        <3> DEFINE o == [created |-> s[1], updated |-> s[2], data |-> 0, kind |-> kind]
        <3>1. s[1] \in Nat /\ s[2] \in Nat
            BY StorageAssumption
        <3>2. o \in Object /\ o.data = 0 /\ Put(k, o)
            BY <2>2, <3>1 DEF Pivot, Object
        <3>3. op'[d].pc \notin {"peek", "store"}
            BY <1>3, <2>2, NotifyTyped DEF Pivot, Begin, IdleOp
        <3> QED
            BY <1>6, <3>2, <3>3
    <2>3. ASSUME NEW q, Del(d, q) PROVE \A c \in Callers : Distinct(c)'
        BY <1>3, <1>4, <2>3 DEF Del, Begin, IdleOp
    <2>4. ASSUME NEW q, NEW limit, NEW range, Scan(d, q, limit, range)
          PROVE  \A c \in Callers : Distinct(c)'
        BY <1>3, <1>4, <2>4 DEF Scan, Begin, IdleOp
    <2>5. ASSUME Clear(d) PROVE \A c \in Callers : Distinct(c)'
        BY <1>3, <1>4, <2>5 DEF Clear, Begin, IdleOp
    <2> QED
        BY <1>5, <1>7, <2>1, <2>2, <2>3, <2>4, <2>5 DEF Call
<1>8. CASE Inside(d)
    <2>1. ASSUME Peek(d) PROVE \A c \in Callers : Distinct(c)'
        BY <1>0, <1>3, <1>4, <2>1 DEF Peek, Operation
    <2>2. ASSUME Store(d) PROVE \A c \in Callers : Distinct(c)'
        <3> DEFINE o == [created |-> op[d].created, updated |-> op[d].updated,
                         data |-> op[d].stamp, kind |-> op[d].kind]
        <3>1. op[d].pc = "store" /\ op[d].path \in Keys
            BY <2>2 DEF Store, StorageInv, Stamped
        <3>2. o \in Object /\ o.data = op[d].stamp /\ Put(op[d].path, o)
            BY <1>0, <2>2 DEF Store, Object, Operation
        <3>3. op'[d].pc \notin {"peek", "store"}
            BY <1>0, <2>2, InsideGoes, NotifyTyped
        <3> QED
            BY <1>6, <3>1, <3>2, <3>3
    <2>3. ASSUME NEW k \in Keys, DeleteKey(d, k) PROVE \A c \in Callers : Distinct(c)'
        <3>1. Put(k, NoObj) /\ op'[d].pc \notin {"peek", "store"}
            BY <1>0, <2>3, InsideGoes DEF DeleteKey
        <3> QED
            BY <1>6, <3>1
    <2>4. ASSUME NEW k \in Keys, ScanKey(d, k) PROVE \A c \in Callers : Distinct(c)'
        BY <1>0, <1>4, <2>4, InsideGoes DEF ScanKey
    <2>5. ASSUME DeleteDone(d) \/ ScanDone(d) \/ Take(d) PROVE \A c \in Callers : Distinct(c)'
        <3>1. UNCHANGED mem /\ op'[d].pc \notin {"peek", "store"}
            BY <1>0, <2>5, InsideGoes, NotifyTyped DEF DeleteDone, ScanDone, Take
        <3> QED
            BY <1>4, <3>1
    <2> QED
        BY <1>8, <2>1, <2>2, <2>3, <2>4, <2>5 DEF Inside
<1>9. CASE Return(d)
    BY <1>0, <1>4, <1>9, InsideGoes DEF Return, IdleOp
<1> QED
    BY <1>7, <1>8, <1>9 DEF StorageStep

\* A key of the program's own that is as it was, is steady for a range that saw it.
LEMMA Steadfast ==
    ASSUME StorageInv, NEW d \in Callers, StorageStep(d), Distinct(d),
           NEW c \in Callers, c # d \/ Inside(d),
           NEW k \in steady[c], Own(k), mem'[k] = mem[k]
    PROVE  k \in steady'[c]
<1>0. /\ StorageTyped /\ op[d] \in Operation /\ k \in Keys
      /\ mem \in [Keys -> Object \cup {NoObj}] /\ steady \in [Callers -> SUBSET Keys]
    BY Fields DEF StorageInv
<1>1. ASSUME NEW j \in Keys, NEW o, Put(j, o), o = NoObj \/ o.data = 0 \/ o.data # mem[k].data
      PROVE  k \in steady'[c]
    BY <1>0, <1>1 DEF Put, Own
<1>2. CASE Inside(d)
    <2>1. ASSUME Store(d) PROVE k \in steady'[c]
        <3>1. op[d].pc = "store" /\ op[d].path \in Keys
            BY <2>1 DEF Store, StorageInv, Stamped
        <3>2. mem[k].data # op[d].stamp
            BY <1>0, <3>1 DEF Distinct, Own
        <3> QED
            BY <1>1, <2>1, <3>1, <3>2 DEF Store
    <2>2. ASSUME NEW j \in Keys, DeleteKey(d, j) PROVE k \in steady'[c]
        BY <1>1, <2>2 DEF DeleteKey
    <2> QED
        BY <1>2, <2>1, <2>2 DEF Inside, Peek, ScanKey, DeleteDone, ScanDone, Take
<1>3. CASE Call(d, Kinds, Kinds)
    <2>1. c # d
        BY <1>0, <1>3 DEF Call, Set, NotFound, Pivot, Del, Scan, Clear, Begin, Inside, Peek, Store,
           DeleteKey, ScanKey, DeleteDone, ScanDone, Take
    <2>2. ASSUME NEW j \in Keys, NEW kind \in Kinds, NEW s \in PivotStamps,
                 Pivot(d, j, kind, s[1], s[2])
          PROVE  k \in steady'[c]
        BY <1>1, <2>2 DEF Pivot
    <2>3. ASSUME NEW q, NEW limit, NEW range, Scan(d, q, limit, range) PROVE k \in steady'[c]
        BY <1>0, <2>1, <2>3 DEF Scan
    <2> QED
        BY <1>3, <2>2, <2>3 DEF Call, Set, NotFound, Del, Clear
<1>4. CASE Return(d)
    <2>1. c # d
        BY <1>0, <1>4 DEF Return, Ended, Inside, Peek, Store, DeleteKey, ScanKey, DeleteDone,
           ScanDone, Take
    <2> QED
        BY <1>0, <1>4, <2>1 DEF Return
<1> QED
    BY <1>2, <1>3, <1>4 DEF StorageStep

-----------------------------------------------------------------------------
(***************************************************************************)
(* A call that goes on while one caller of the storage takes a step.       *)
(***************************************************************************)
LEMMA CallFields ==
    ASSUME IoInv
    PROVE  /\ call \in CallRecord /\ mine \subseteq Keys
           /\ call.pc = "begun" => call.kind # "none" /\ call.via \in Callers /\ call.path \in Paths
           /\ \A c \in Callers : Distinct(c) /\ (Under(c) => Asked(c))
           /\ \A k \in mine : Own(k)
           /\ \A c \in Callers : c \in Apps \/ c \in Handlers
           /\ \A h \in Handlers : h \in Callers /\ h \notin Apps
BY RestAssumption DEF IoInv, CallTyped, Apps

\* A caller whose operation has begun is the application's, or a busy handler.
LEMMA AtWork ==
    ASSUME RestInv, NEW c \in Callers, op[c].pc # "idle"
    PROVE  c \in Apps \/ (c \in Handlers /\ hand[c].pc = "busy")
BY DEF RestInv, TypeOK, Apps

LEMMA StoreMakesOwn ==
    ASSUME StorageInv, NEW d \in Callers, Store(d), op[d].kind = "item"
    PROVE  op[d].path \in Keys /\ \A k \in Keys : k = op[d].path => Own(k)'
<1>0. op[d] \in Operation /\ mem \in [Keys -> Object \cup {NoObj}]
    BY Fields DEF StorageInv
<1>1. op[d].path \in Keys /\ op[d].stamp \in 1 .. now /\ now \in Nat
    BY Fields DEF Store, StorageInv, Stamped
<1> DEFINE o == [created |-> op[d].created, updated |-> op[d].updated, data |-> op[d].stamp,
                 kind |-> op[d].kind]
<1>2. o \in Object /\ o.data # 0 /\ o.kind = "item"
    BY <1>0, <1>1 DEF Object, Operation
<1>3. mem'[op[d].path] = o
    BY <1>0, <1>1 DEF Store, Put
<1>4. mem'[op[d].path] # NoObj /\ mem'[op[d].path].data # 0
      /\ mem'[op[d].path].kind = "item"
    BY <1>2, <1>3, NoObjAssumption
<1> QED
    BY <1>1, <1>4 DEF Own

\* Only Store leads out of the place before it.
LEMMA StoreLeaves ==
    ASSUME StorageInv, NEW d \in Callers, StorageStep(d), op[d].pc = "store"
    PROVE  Store(d)
BY DEF StorageStep, Call, Set, NotFound, Pivot, Del, Scan, Clear, Begin, Inside, Peek,
   DeleteKey, DeleteDone, ScanKey, ScanDone, Take, Return, Ended

LEMMA GoesOnKeeps ==
    ASSUME IoInv, RestInv, StorageInv, NEW d \in Callers,
           StorageStep(d) \/ UNCHANGED storageVars, GoesOn,
           NEW found \in SUBSET Item,
           call' = call \/ (Under(d) /\ call' = [call EXCEPT !.found = found]),
           \A h \in Handlers \ {d} : hand'[h] = hand[h] /\ answer'[h] = answer[h],
           Under(d) => Asked(d)'
    PROVE  IoInv'
<1>0. StorageTyped
    BY DEF StorageInv
<1>1. /\ call'.pc = call.pc /\ call'.kind = call.kind /\ call'.via = call.via
      /\ call'.path = call.path /\ call' \in CallRecord
    BY CallFields DEF CallRecord
<1>2. mine' \subseteq mine /\ \A k \in mine' : mem'[k] = mem[k] /\ Own(k) /\ Own(k)'
    BY CallFields DEF GoesOn, Own
<1>3. \A c \in Callers \ {d} : op'[c] = op[c]
    BY <1>0, StepIsOwn DEF storageVars
<1>4. keep' => Writes /\ call.path \in Keys /\ Own(call.path)'
    <2>1. ASSUME NEW c \in Callers, Under(c), op[c].kind = "item",
                 op[c].pc = "store", op'[c].pc # "store"
          PROVE  Writes /\ call.path \in Keys /\ Own(call.path)'
        <3>1. c = d /\ StorageStep(d)
            BY <1>3, <2>1 DEF storageVars
        <3>2. Store(d) /\ (d \in Apps \/ hand[d].pc = "busy") /\ Asked(d)
            BY <2>1, <3>1, StoreLeaves, AtWork, CallFields
        <3>3. Writes /\ call.path = op[d].path
            BY <2>1, <3>1, <3>2 DEF Asked
        <3>4. call.path \in Keys /\ \A k \in Keys : k = call.path => Own(k)'
            BY <2>1, <3>1, <3>2, <3>3, StoreMakesOwn
        <3> QED
            BY <1>1, <3>3, <3>4 DEF Own
    <2>2. ASSUME keep, mem'[call.path] = mem[call.path]
          PROVE  Writes /\ call.path \in Keys /\ Own(call.path)'
        BY <1>1, <2>2 DEF IoInv, CallTyped, Own
    <2> QED
        BY <2>1, <2>2 DEF GoesOn
<1>5. CallTyped'
    BY <1>1, <1>2, <1>4, CallFields DEF CallTyped, GoesOn
<1>6. \A c \in Callers : Distinct(c)'
    <2>1. CASE StorageStep(d)
        BY <2>1, CallFields, DistinctKept
    <2>2. CASE UNCHANGED storageVars
        BY <2>2, CallFields DEF Distinct, storageVars
    <2> QED
        BY <2>1, <2>2
<1>7. ASSUME call' = call, FoundOwn PROVE FoundOwn'
    BY <1>2, <1>7 DEF FoundOwn
<1>8. ASSUME NEW c \in Callers, Under(c)' PROVE Asked(c)'
    <2>0. Under(c) /\ Asked(c)
        BY <1>1, <1>8, CallFields DEF Under
    <2>1. CASE c = d
        BY <2>0, <2>1
    <2>2. CASE c # d
        <3>1. call' = call
            BY <2>0, <2>2 DEF Under
        <3>2. c \in Handlers => hand'[c] = hand[c] /\ answer'[c] = answer[c]
            BY <2>2
        <3>3. c \in Apps \/ hand'[c].pc = "busy" => c \in Apps \/ hand[c].pc = "busy"
            BY <3>2, CallFields
        <3>4. ASSUME mine \cap Covers(call.path) \subseteq steady[c]
              PROVE  mine' \cap Covers(call.path) \subseteq steady'[c]
            <4>1. CASE StorageStep(d)
                BY <1>2, <2>2, <3>4, <4>1, Steadfast, CallFields
            <4>2. CASE UNCHANGED storageVars
                BY <1>2, <3>4, <4>2 DEF storageVars
            <4> QED
                BY <4>1, <4>2
        <3>5. c \in Apps \/ hand'[c].pc = "busy" =>
                 /\ op'[c].path = call.path
                 /\ IF Writes
                    THEN op'[c].pc \in {"peek", "store", "send", "done"}
                    ELSE /\ op'[c].pc \in {"scan", "paged"}
                         /\ op'[c].limit = 0 /\ op'[c].range = Keys
                         /\ mine' \cap Covers(call.path) \subseteq steady'[c]
            BY <1>3, <2>0, <2>2, <3>3, <3>4 DEF Asked
        <3>6. c \in Handlers /\ ~Writes /\ answer'[c] \in {"ok", "missing"} => FoundOwn'
            BY <1>7, <2>0, <3>1, <3>2 DEF Asked
        <3> QED
            BY <3>1, <3>5, <3>6 DEF Asked, Writes
    <2> QED
        BY <2>1, <2>2
<1>9. ReadsOwn'
    <2>1. CASE call' = call
        <3> SUFFICES ASSUME call.pc = "returned", call.kind \in {"Get", "GetList"}
                     PROVE  IF call.err THEN FailsForOthers' ELSE HasOwn'
            BY <2>1 DEF ReadsOwn
        <3>1. IF call.err THEN FailsForOthers ELSE HasOwn
            BY DEF IoInv, ReadsOwn
        <3>2. CASE call.err
            BY <1>2, <2>1, <3>1, <3>2 DEF FailsForOthers
        <3>3. CASE ~call.err
            BY <1>2, <2>1, <3>1, <3>3 DEF HasOwn
        <3> QED
            BY <3>2, <3>3
    <2>2. CASE Under(d)
        BY <1>1, <2>2 DEF ReadsOwn, Under
    <2> QED
        BY <2>1, <2>2
<1> QED
    BY <1>1, <1>2, <1>4, <1>5, <1>6, <1>8, <1>9 DEF IoInv, Writes

\* A step of the storage inside the call.
LEMMA InsideAsked ==
    ASSUME IoInv, RestInv, StorageInv, NEW d \in Callers, Inside(d), Under(d), GoesOn, call' = call,
           d \in Handlers => hand'[d] = hand[d] /\ answer'[d] = answer[d]
    PROVE  Asked(d)'
<1>0. StorageTyped /\ op[d] \in Operation /\ op \in [Callers -> Operation] /\ StorageStep(d)
    BY Fields DEF StorageInv, StorageStep
<1>1. mine' \subseteq mine /\ \A k \in mine' : mem'[k] = mem[k] /\ Own(k)
    BY CallFields DEF GoesOn
<1>2. op[d].pc # "idle"
    BY DEF Inside, Peek, Store, DeleteKey, DeleteDone, ScanKey, ScanDone, Take
<1>3. /\ op[d].path = call.path
      /\ IF Writes
         THEN op[d].pc \in {"peek", "store", "send", "done"}
         ELSE /\ op[d].pc \in {"scan", "paged"}
              /\ op[d].limit = 0 /\ op[d].range = Keys
              /\ mine \cap Covers(call.path) \subseteq steady[d]
    BY <1>2, AtWork, CallFields DEF Asked
<1>4. CASE Writes
    <2>1. Peek(d) \/ Store(d) \/ Take(d)
        BY <1>3, <1>4 DEF Inside, DeleteKey, DeleteDone, ScanKey, ScanDone
    <2>2. op'[d].path = op[d].path /\ op'[d].pc \in {"store", "send", "done"}
        BY <1>0, <2>1, InsideGoes, NotifyTyped
    <2> QED
        BY <1>3, <1>4, <2>2 DEF Asked, Writes
<1>5. CASE ~Writes
    <2>1. (\E k \in Keys : ScanKey(d, k)) \/ ScanDone(d)
        BY <1>3, <1>5 DEF Inside, Peek, Store, Take, DeleteKey, DeleteDone
    <2>2. /\ op'[d].path = op[d].path /\ op'[d].pc \in {"scan", "paged"}
          /\ op'[d].limit = op[d].limit /\ op'[d].range = op[d].range
        <3>1. ASSUME NEW k \in Keys, ScanKey(d, k)
              PROVE  /\ op'[d].path = op[d].path /\ op'[d].pc \in {"scan", "paged"}
                     /\ op'[d].limit = op[d].limit /\ op'[d].range = op[d].range
            BY <1>0, <3>1 DEF ScanKey, Operation
        <3>2. ASSUME ScanDone(d)
              PROVE  /\ op'[d].path = op[d].path /\ op'[d].pc \in {"scan", "paged"}
                     /\ op'[d].limit = op[d].limit /\ op'[d].range = op[d].range
            BY <1>0, <3>2 DEF ScanDone, Operation
        <3> QED
            BY <2>1, <3>1, <3>2
    <2>3. mine' \cap Covers(call.path) \subseteq steady'[d]
        BY <1>0, <1>1, <1>3, <1>5, Steadfast, CallFields
    <2>4. ASSUME d \in Handlers, answer[d] \in {"ok", "missing"} PROVE FoundOwn'
        <3>1. FoundOwn
            BY <1>5, <2>4, CallFields DEF Asked
        <3> QED
            BY <1>1, <3>1 DEF FoundOwn
    <2> QED
        BY <1>3, <1>5, <2>2, <2>3, <2>4 DEF Asked, Writes
<1> QED
    BY <1>4, <1>5

-----------------------------------------------------------------------------
(***************************************************************************)
(* The steps of the program.                                               *)
(***************************************************************************)
\* What a new operation of a caller is.
LEMMA NewOperation ==
    ASSUME StorageTyped, NEW c \in Callers
    PROVE  /\ \A k \in Keys, kind \in Kinds : Set(c, k, kind) =>
                 op'[c].pc = "peek" /\ op'[c].path = k /\ mem' = mem
           /\ \A p \in Paths : Scan(c, p, 0, Keys) =>
                 /\ op'[c].pc = "scan" /\ op'[c].path = p /\ mem' = mem
                 /\ op'[c].limit = 0 /\ op'[c].range = Keys /\ steady'[c] = Covers(p)
<1>0. op \in [Callers -> Operation] /\ steady \in [Callers -> SUBSET Keys]
    BY Fields
<1>1. ASSUME NEW k \in Keys, NEW kind \in Kinds, Set(c, k, kind)
      PROVE  op'[c].pc = "peek" /\ op'[c].path = k /\ mem' = mem
    BY <1>0, <1>1 DEF Set, Begin, IdleOp
<1>2. ASSUME NEW p \in Paths, Scan(c, p, 0, Keys)
      PROVE  /\ op'[c].pc = "scan" /\ op'[c].path = p /\ mem' = mem
             /\ op'[c].limit = 0 /\ op'[c].range = Keys /\ steady'[c] = Covers(p)
    BY <1>0, <1>2 DEF Scan, Begin, IdleOp
<1> QED
    BY <1>1, <1>2

\* A call that begins, once its operation is the one that was asked for.
LEMMA CallsKeeps ==
    ASSUME IoInv, StorageInv, NEW c \in Callers, StorageStep(c) \/ UNCHANGED storageVars,
           mem' = mem, NEW kind \in {"Set", "Push", "Get", "GetList"}, NEW path \in Paths,
           kind \in {"Set", "Push"} => path \in Keys,
           Calls(kind, c, path), Asked(c)'
    PROVE  IoInv'
<1>1. call' \in CallRecord /\ ~keep' /\ mine' = mine /\ call'.pc = "begun" /\ call'.via = c
    BY DEF Calls, CallRecord
<1>2. CallTyped'
    BY <1>1, CallFields DEF CallTyped, Calls
<1>3. \A d \in Callers : Distinct(d)'
    <2>1. CASE StorageStep(c)
        BY <2>1, CallFields, DistinctKept
    <2>2. CASE UNCHANGED storageVars
        BY <2>2, CallFields DEF Distinct, storageVars
    <2> QED
        BY <2>1, <2>2
<1>4. \A k \in mine' : Own(k)'
    BY <1>1, CallFields DEF Own
<1>5. ReadsOwn' /\ (Writes' => call'.path \in Keys)
    BY <1>1 DEF ReadsOwn, Writes, Calls
<1> QED
    BY <1>1, <1>2, <1>3, <1>4, <1>5 DEF IoInv, Under

\* A call that returns: a read that gives no error has the program's own, and
\* one that gives an error does so for others.
LEMMA ReturnsKeeps ==
    ASSUME IoInv, StorageInv, NEW c \in Callers, StorageStep(c) \/ UNCHANGED storageVars,
           mem' = mem, Under(c), NEW found \in SUBSET Item, NEW lost \in BOOLEAN,
           NEW stored \in BOOLEAN, stored => Writes, Returns(found, lost, stored),
           ~Writes =>
              \/ lost
              \/ IF Fails(found)
                 THEN \/ /\ call.kind = "GetList"
                         /\ \E i \in found : i.obj.kind = "text" /\ i.key \notin mine
                      \/ call.kind = "Get" /\ call.path \notin mine
                 ELSE \A k \in mine \cap Covers(call.path) :
                         [key |-> k, obj |-> mem[k]] \in Decoded(found)
    PROVE  IoInv'
<1> DEFINE err == lost \/ (~Writes /\ Fails(found))
           items == IF err THEN {} ELSE Decoded(found)
<1>0. items \in SUBSET Item /\ err \in BOOLEAN
    BY DEF Decoded
<1>1. /\ call' = [call EXCEPT !.pc = "returned", !.found = found, !.lost = lost, !.err = err,
                              !.items = items]
      /\ call \in CallRecord /\ call.via = c /\ keep' = FALSE
    BY CallFields DEF Returns, Under
<1>2. ~Writes => (err <=> lost \/ Fails(found)) /\ (~err => items = Decoded(found))
    OBVIOUS
<1> HIDE DEF items, err
<1>3. /\ call' \in CallRecord /\ call'.pc = "returned" /\ call'.kind = call.kind /\ call'.via = c
      /\ call'.path = call.path /\ call'.found = found /\ call'.items = items /\ call'.err = err
      /\ call'.lost = lost
    BY <1>0, <1>1 DEF CallRecord
<1>4. mine' \subseteq mine \cup {call.path} /\ (~Writes => mine' = mine)
    BY DEF Returns
<1>5. \A k \in mine' : k \in Keys /\ Own(k)'
    <2>1. ASSUME NEW k \in mine PROVE k \in Keys /\ Own(k)'
        BY <2>1, CallFields DEF Own
    <2>2. ASSUME keep PROVE call.path \in Keys /\ Own(call.path)
        BY <2>2 DEF IoInv, CallTyped
    <2>3. ASSUME NEW k \in mine', k \notin mine PROVE k \in Keys /\ Own(k)'
        <3>1. k = call.path /\ keep
            BY <2>3 DEF Returns
        <3> QED
            BY <2>2, <3>1 DEF Own
    <2> QED
        BY <2>1, <2>3
<1>6. CallTyped'
    BY <1>1, <1>3, <1>5, CallFields DEF CallTyped
<1>7. \A d \in Callers : Distinct(d)'
    <2>1. CASE StorageStep(c)
        BY <2>1, CallFields, DistinctKept
    <2>2. CASE UNCHANGED storageVars
        BY <2>2, CallFields DEF Distinct, storageVars
    <2> QED
        BY <2>1, <2>2
<1>8. ReadsOwn'
    <2> SUFFICES ASSUME call'.kind \in {"Get", "GetList"}
                 PROVE  IF err THEN FailsForOthers' ELSE HasOwn'
        BY <1>3 DEF ReadsOwn
    <2>1. ~Writes /\ mine' = mine
        BY <1>3, <1>4 DEF Writes
    <2>2. CASE err
        BY <1>2, <1>3, <2>1, <2>2 DEF FailsForOthers
    <2>3. CASE ~err
        BY <1>2, <1>3, <2>1, <2>3 DEF HasOwn
    <2> QED
        BY <2>2, <2>3
<1>9. Writes' => call'.path \in Keys
    BY <1>3 DEF IoInv, Writes
<1> QED
    BY <1>1, <1>3, <1>5, <1>6, <1>7, <1>8, <1>9 DEF IoInv, Under

\* What a page has, what is found has too.
LEMMA PageHasOwn ==
    ASSUME IoInv, StorageInv, NEW c \in Callers, op[c].pc = "paged", op[c].limit = 0,
           op[c].range = Keys, op[c].path = call.path,
           mine \cap Covers(call.path) \subseteq steady[c]
    PROVE  /\ op[c].got \in SUBSET Item
           /\ \A k \in mine \cap Covers(call.path) : [key |-> k, obj |-> mem[k]] \in op[c].got
           /\ \A i \in op[c].got : i.key \in mine => i.obj = mem[i.key]
<1>1. op[c].got \in SUBSET Item
    BY Fields DEF StorageInv, Operation
<1>2. NewestPage(c)
    BY DEF StorageInv
<1>3. ASSUME NEW k \in mine \cap Covers(call.path)
      PROVE  /\ [key |-> k, obj |-> mem[k]] \in op[c].got
             /\ \A i \in op[c].got : i.key = k => i.obj = mem[k]
    <2>1. k \in steady[c] /\ k \in Keys /\ Own(k)
        BY CallFields
    <2>2. Finds(c, k)
        BY <2>1 DEF Finds, Own
    <2> QED
        BY <1>2, <2>1, <2>2 DEF NewestPage
<1>4. ASSUME NEW i \in op[c].got, i.key \in mine PROVE i.obj = mem[i.key]
    <2>1. i.key \in Covers(call.path)
        BY <1>2, <1>4 DEF NewestPage, Fitting
    <2> QED
        BY <1>3, <1>4, <2>1
<1> QED
    BY <1>1, <1>3, <1>4

\* What a read makes of what it found.
LEMMA FoundIsRead ==
    ASSUME IoInv, ~Writes, call.kind # "none", call.path \in Paths,
           NEW found \in SUBSET Item,
           \A k \in mine \cap Covers(call.path) : [key |-> k, obj |-> mem[k]] \in found,
           \A i \in found : i.key \in mine => i.obj = mem[i.key]
    PROVE  /\ Fails(found) \in BOOLEAN
           /\ IF Fails(found)
              THEN \/ /\ call.kind = "GetList"
                      /\ \E i \in found : i.obj.kind = "text" /\ i.key \notin mine
                   \/ call.kind = "Get" /\ call.path \notin mine
              ELSE \A k \in mine \cap Covers(call.path) :
                      [key |-> k, obj |-> mem[k]] \in Decoded(found)
<1>0. call.kind \in {"Get", "GetList"}
    BY CallFields DEF CallRecord, Writes
<1>1. ASSUME NEW k \in mine \cap Covers(call.path)
      PROVE  [key |-> k, obj |-> mem[k]] \in Decoded(found)
    <2>1. Own(k)
        BY CallFields
    <2> QED
        BY <2>1 DEF Decoded, Own
<1>2. ASSUME call.kind = "GetList", Fails(found)
      PROVE  \E i \in found : i.obj.kind = "text" /\ i.key \notin mine
    <2>1. PICK i \in found : i.obj.kind = "text"
        BY <1>2 DEF Fails, ListDecodes
    <2>2. ASSUME i.key \in mine PROVE FALSE
        <3>1. Own(i.key) /\ i.obj = mem[i.key]
            BY <2>2, CallFields
        <3> QED
            BY <2>1, <3>1 DEF Own
    <2> QED
        BY <2>1, <2>2
<1>3. ASSUME call.kind = "Get", Fails(found) PROVE call.path \notin mine
    <2>1. Decoded(found) = {}
        BY <1>3 DEF Fails
    <2>2. call.path \in mine => call.path \in Covers(call.path)
        BY CallFields, StorageAssumption
    <2> QED
        BY <1>1, <2>1, <2>2
<1>4. Fails(found) \in BOOLEAN
    BY DEF Fails, ListDecodes
<1> QED
    BY <1>0, <1>1, <1>2, <1>3, <1>4

-----------------------------------------------------------------------------
(***************************************************************************)
(* The steps of IoNext, one lemma per kind.                                *)
(***************************************************************************)
\* The operation that begins is the one of the call.
LEMMA Begun ==
    ASSUME StorageTyped, NEW c \in Callers,
           IF Writes' THEN call'.path \in Keys /\ \E kind \in Kinds : Set(c, call'.path, kind)
                      ELSE call'.path \in Paths /\ Scan(c, call'.path, 0, Keys),
           c \in Handlers => answer'[c] \notin {"ok", "missing"}
    PROVE  Asked(c)' /\ mem' = mem
<1>1. CASE Writes'
    <2>1. op'[c].pc = "peek" /\ op'[c].path = call'.path /\ mem' = mem
        BY <1>1, NewOperation
    <2> QED
        BY <1>1, <2>1 DEF Asked
<1>2. CASE ~Writes'
    <2>1. /\ op'[c].pc = "scan" /\ op'[c].path = call'.path /\ mem' = mem
          /\ op'[c].limit = 0 /\ op'[c].range = Keys /\ steady'[c] = Covers(call'.path)
        BY <1>2, NewOperation
    <2> QED
        BY <1>2, <2>1 DEF Asked, Covers
<1> QED
    BY <1>1, <1>2

LEMMA LocalKeeps ==
    ASSUME IoInv, RestInv, StorageInv, NEW c \in Apps, LocalStep(c)
    PROVE  IoInv'
<1>0. c \in Callers /\ c \notin Handlers /\ StorageTyped
    BY DEF Apps, StorageInv
<1>1. ASSUME NEW kind \in {"Set", "Push"}, NEW k \in Keys, Calls(kind, c, k),
             Set(c, k, "item")
      PROVE  IoInv'
    <2>1. call'.path = k /\ call'.kind = kind /\ k \in Paths
        BY <1>1 DEF Calls, Paths
    <2>2. Writes' /\ "item" \in Kinds
        BY <2>1 DEF Writes, Kinds
    <2>3. Asked(c)' /\ mem' = mem
        BY <1>0, <1>1, <2>1, <2>2, Begun
    <2>4. StorageStep(c)
        BY <1>1, <2>2 DEF StorageStep, Call
    <2> QED
        BY <1>0, <1>1, <2>1, <2>3, <2>4, CallsKeeps
<1>2. ASSUME NEW kind \in {"Get", "GetList"}, NEW p \in Paths, Calls(kind, c, p),
             Scan(c, p, 0, Keys)
      PROVE  IoInv'
    <2>1. call'.path = p /\ call'.kind = kind
        BY <1>2 DEF Calls
    <2>2. ~Writes'
        BY <2>1 DEF Writes
    <2>3. Asked(c)' /\ mem' = mem
        BY <1>0, <1>2, <2>1, <2>2, Begun
    <2>4. StorageStep(c)
        BY <1>2 DEF StorageStep, Call
    <2> QED
        BY <1>0, <1>2, <2>3, <2>4, CallsKeeps
<1>3. ASSUME LocalReturns(c) PROVE IoInv'
    <2>1. Under(c) /\ Return(c) /\ Ended(c) /\ mem' = mem /\ StorageStep(c)
        BY <1>3 DEF LocalReturns, Return, StorageStep
    <2>2. CASE Writes
        BY <1>0, <1>3, <2>1, <2>2, ReturnsKeeps DEF LocalReturns
    <2>3. CASE ~Writes
        <3>1. /\ op[c].pc = "paged" /\ op[c].limit = 0 /\ op[c].range = Keys
              /\ op[c].path = call.path /\ mine \cap Covers(call.path) \subseteq steady[c]
              /\ call.kind # "none" /\ call.path \in Paths
            BY <1>0, <2>1, <2>3, CallFields DEF Asked, Ended, Under
        <3> DEFINE found == op[c].got
        <3>2. /\ found \in SUBSET Item
              /\ \A k \in mine \cap Covers(call.path) : [key |-> k, obj |-> mem[k]] \in found
              /\ \A i \in found : i.key \in mine => i.obj = mem[i.key]
            BY <1>0, <3>1, PageHasOwn
        <3>3. Returns(found, FALSE, FALSE)
            BY <1>3, <2>3 DEF LocalReturns
        <3> HIDE DEF found
        <3> QED
            BY <1>0, <2>1, <2>3, <3>1, <3>2, <3>3, FoundIsRead, ReturnsKeeps
    <2> QED
        BY <2>2, <2>3
<1> QED
    BY <1>1, <1>2, <1>3, BuiltKeys
    DEF LocalStep, LocalSet, LocalGet, LocalPush, LocalGetList, Paths

LEMMA AppKeeps ==
    ASSUME IoInv, RestInv, StorageInv, NEW c \in Apps, AppTurn(c)
    PROVE  IoInv'
<1>0. c \in Callers /\ c \notin Handlers /\ StorageTyped /\ op[c] \in Operation
    BY Fields DEF Apps, StorageInv
<1>1. /\ StorageStep(c) /\ GoesOn /\ call' = call /\ UNCHANGED <<hand, answer>>
      /\ {} \in SUBSET Item
    BY AppCalls DEF AppTurn, AppStep, StorageStep
<1>2. ASSUME Under(c) PROVE Asked(c)'
    <2>1. op[c].pc # "idle" /\ op'[c].pc # "idle"
        BY <1>0, <1>2, CallFields DEF AppTurn, Asked
    <2>2. Inside(c)
        <3>1. ~Call(c, Kinds, Kinds)
            BY <2>1 DEF Call, Set, NotFound, Pivot, Del, Scan, Clear, Begin
        <3>2. op \in [Callers -> Operation]
            BY <1>0, Fields
        <3>3. ~Return(c)
            BY <1>0, <2>1, <3>2 DEF Return, IdleOp
        <3> QED
            BY <1>1, <3>1, <3>3 DEF StorageStep
    <2> QED
        BY <1>0, <1>1, <1>2, <2>2, InsideAsked
<1> QED
    BY <1>0, <1>1, <1>2, GoesOnKeeps

LEMMA RemoteKeeps ==
    ASSUME IoInv, RestInv, StorageInv, NEW h \in Handlers, RemoteStep(h)
    PROVE  IoInv'
<1>0. h \in Callers /\ h \notin Apps
    BY CallFields
<1>1. UNCHANGED storageVars /\ mem' = mem /\ UNCHANGED <<hand, answer>>
    BY DEF RemoteStep, vars, storageVars
<1>2. ASSUME hand[h].pc = "idle" PROVE Asked(h)'
    <2>1. answer'[h] = "none" /\ hand'[h].pc = "idle"
        BY <1>1, <1>2 DEF RestInv, Serving
    <2> QED
        BY <1>0, <2>1 DEF Asked
<1>3. ASSUME NEW kind \in {"Set", "Push", "Get", "GetList"}, NEW path \in Paths,
             kind \in {"Set", "Push"} => path \in Keys, hand[h].pc = "idle", Calls(kind, h, path)
      PROVE  IoInv'
    BY <1>0, <1>1, <1>2, <1>3, CallsKeeps
<1>4. ASSUME RemoteReturns(h) PROVE IoInv'
    <2>1. /\ Under(h) /\ answer[h] # "none" /\ call.found \in SUBSET Item
          /\ call.kind # "none" /\ call.path \in Paths
        BY <1>4, CallFields DEF RemoteReturns, CallRecord, Under
    <2>2. CASE Writes
        <3>1. Returns({}, FALSE, answer[h] = "ok")
            BY <1>4, <2>2 DEF RemoteReturns
        <3> QED
            BY <1>0, <1>1, <2>1, <2>2, <3>1, ReturnsKeeps
    <2>3. CASE ~Writes /\ answer[h] \notin {"ok", "missing"}
        <3>1. Returns({}, TRUE, FALSE)
            BY <1>4, <2>3 DEF RemoteReturns
        <3> QED
            BY <1>0, <1>1, <2>1, <2>3, <3>1, ReturnsKeeps
    <2>4. CASE ~Writes /\ answer[h] \in {"ok", "missing"}
        <3> DEFINE found == call.found
        <3>1. Returns(found, FALSE, FALSE)
            BY <1>4, <2>4 DEF RemoteReturns
        <3>2. /\ \A k \in mine \cap Covers(call.path) : [key |-> k, obj |-> mem[k]] \in found
              /\ \A i \in found : i.key \in mine => i.obj = mem[i.key]
            BY <1>0, <2>1, <2>4, CallFields DEF Asked, FoundOwn
        <3>3. found \in SUBSET Item
            BY <2>1
        <3> HIDE DEF found
        <3> QED
            BY <1>0, <1>1, <2>1, <2>4, <3>1, <3>2, <3>3, FoundIsRead, ReturnsKeeps
    <2> QED
        BY <2>2, <2>3, <2>4
<1>5. ASSUME RemoteFails(h) PROVE IoInv'
    <2>1. Under(h) /\ Returns({}, TRUE, FALSE)
        BY <1>5 DEF RemoteFails
    <2> QED
        BY <1>0, <1>1, <2>1, ReturnsKeeps
<1> QED
    BY <1>3, <1>4, <1>5, BuiltKeys
    DEF RemoteStep, RemoteSet, RemoteGet, RemotePush, RemoteGetList, Paths

LEMMA HandlerKeeps ==
    ASSUME IoInv, RestInv, StorageInv, NEW h \in Handlers, HandlerTurn(h)
    PROVE  IoInv'
<1>0. /\ h \in Callers /\ h \notin Apps /\ StorageTyped /\ op[h] \in Operation
      /\ GoesOn /\ {} \in SUBSET Item
      /\ hand \in [Handlers -> Request] /\ answer \in [Handlers -> Answer]
    BY CallFields, Fields DEF HandlerTurn, StorageInv, RestInv, TypeOK
<1>1. hand[h].pc = "idle" => answer[h] = "none"
    BY DEF RestInv, Serving
<1>2. CASE Refuse(h)
    <2>1. /\ hand'[h].pc = "done" /\ answer'[h] = "refused" /\ UNCHANGED storageVars
          /\ hand[h].pc = "idle"
          /\ \A g \in Handlers \ {h} : hand'[g] = hand[g] /\ answer'[g] = answer[g]
        BY <1>0, <1>2 DEF Refuse
    <2>2. call' = call
        BY <2>1 DEF HandlerTurn
    <2>3. Asked(h)'
        BY <1>0, <2>1 DEF Asked
    <2> QED
        BY <1>0, <2>1, <2>2, <2>3, GoesOnKeeps
<1>3. ASSUME NEW kind \in {"publish", "unpublish", "read", "stats"}, NEW path,
             Serve(h, kind, path), StorageStep(h),
             kind = "publish" => path \in Keys /\ \E data \in Kinds : Set(h, path, data),
             kind = "read" => path \in Paths /\ Scan(h, path, 0, Keys)
      PROVE  IoInv'
    <2>1. /\ hand[h].pc = "idle" /\ hand'[h].pc = "busy" /\ answer' = answer
          /\ hand'[h].path = path /\ hand'[h].kind = kind
          /\ \A g \in Handlers \ {h} : hand'[g] = hand[g] /\ answer'[g] = answer[g]
        BY <1>0, <1>3 DEF Serve
    <2>2. call' = call
        BY <2>1 DEF HandlerTurn
    <2>3. ASSUME Under(h) PROVE Asked(h)'
        <3>1. path = call.path /\ kind = IF Writes THEN "publish" ELSE "read"
            BY <2>1, <2>3 DEF HandlerTurn
        <3>2. Writes' <=> Writes
            BY <2>2 DEF Writes
        <3>3. answer'[h] \notin {"ok", "missing"}
            BY <1>1, <2>1
        <3> QED
            BY <1>0, <1>3, <2>2, <3>1, <3>2, <3>3, Begun
    <2> QED
        BY <1>0, <1>3, <2>1, <2>2, <2>3, GoesOnKeeps
<1>4. CASE Publish(h)
    <2>1. PICK k \in Keys : Serve(h, "publish", k) /\ \E data \in Kinds : Set(h, k, data)
        BY <1>4, BuiltKeys, BodiesKinds DEF Publish
    <2> QED
        BY <1>3, <2>1 DEF StorageStep, Call
<1>5. CASE Unpublish(h)
    BY <1>3, <1>5 DEF Unpublish, StorageStep, Call
<1>6. CASE ReadPath(h)
    BY <1>3, <1>6 DEF ReadPath, StorageStep, Call
<1>7. CASE GetStats(h)
    BY <1>3, <1>7 DEF GetStats, StorageStep, Call
<1>8. CASE Work(h)
    <2>1. hand[h].pc = "busy" /\ Inside(h) /\ UNCHANGED <<hand, answer>> /\ StorageStep(h)
        BY <1>8 DEF Work, Inside, StorageStep
    <2>2. call' = call
        BY <2>1 DEF HandlerTurn
    <2>3. Under(h) => Asked(h)'
        BY <1>0, <2>1, <2>2, InsideAsked
    <2> QED
        BY <1>0, <2>1, <2>2, <2>3, GoesOnKeeps
<1>9. CASE Deadline(h)
    <2>1. /\ UNCHANGED storageVars /\ hand' = hand /\ answer'[h] = "late"
          /\ hand[h].pc = "busy"
          /\ \A g \in Handlers \ {h} : hand'[g] = hand[g] /\ answer'[g] = answer[g]
        BY <1>0, <1>9 DEF Deadline
    <2>2. call' = call
        BY <2>1 DEF HandlerTurn
    <2>3. ASSUME Under(h) PROVE Asked(h)'
        <3>1. mine' \subseteq mine
            BY <1>0 DEF GoesOn
        <3> QED
            BY <1>0, <2>1, <2>2, <2>3, <3>1, CallFields DEF Asked, Writes, storageVars
    <2> QED
        BY <1>0, <2>1, <2>2, <2>3, GoesOnKeeps
<1>10. CASE Finish(h)
    <2>1. /\ hand[h].pc = "busy" /\ hand'[h].pc = "done" /\ Return(h) /\ Ended(h) /\ mem' = mem
          /\ StorageStep(h)
          /\ \A g \in Handlers \ {h} : hand'[g] = hand[g] /\ answer'[g] = answer[g]
        BY <1>0, <1>10 DEF Finish, Return, StorageStep
    <2>2. CASE Under(h) /\ ~Writes
        <3> DEFINE found == op[h].got
        <3>1. call' = [call EXCEPT !.found = found]
            BY <2>1, <2>2 DEF HandlerTurn
        <3>2. /\ op[h].pc = "paged" /\ op[h].limit = 0 /\ op[h].range = Keys
              /\ op[h].path = call.path /\ mine \cap Covers(call.path) \subseteq steady[h]
            BY <1>0, <2>1, <2>2, CallFields DEF Asked, Ended
        <3>3. /\ found \in SUBSET Item
              /\ \A k \in mine \cap Covers(call.path) : [key |-> k, obj |-> mem[k]] \in found
              /\ \A i \in found : i.key \in mine => i.obj = mem[i.key]
            BY <1>0, <3>2, PageHasOwn
        <3> HIDE DEF found
        <3>4. call'.found = found /\ call'.path = call.path
            BY <3>1, CallFields DEF CallRecord
        <3>5. mine' \subseteq mine
            BY <1>0 DEF GoesOn
        <3>6. FoundOwn'
            BY <2>1, <3>3, <3>4, <3>5 DEF FoundOwn
        <3>7. Asked(h)'
            BY <1>0, <2>1, <3>6 DEF Asked
        <3> QED
            BY <1>0, <2>1, <2>2, <3>1, <3>3, <3>7, GoesOnKeeps
    <2>3. CASE ~(Under(h) /\ ~Writes)
        <3>1. call' = call
            BY <2>3 DEF HandlerTurn
        <3>2. ASSUME Under(h) PROVE Asked(h)'
            <4>1. Writes'
                BY <2>3, <3>1, <3>2 DEF Writes
            <4> QED
                BY <1>0, <2>1, <4>1 DEF Asked
        <3> QED
            BY <1>0, <2>1, <3>1, <3>2, GoesOnKeeps
    <2> QED
        BY <2>2, <2>3
<1> QED
    BY <1>2, <1>4, <1>5, <1>6, <1>7, <1>8, <1>9, <1>10 DEF HandlerTurn, HandlerStep

-----------------------------------------------------------------------------
LEMMA IoInitInv == IoInit => IoInv
<1> SUFFICES ASSUME IoInit PROVE IoInv
    OBVIOUS
<1>1. call.pc = "returned" /\ call.kind = "none" /\ call \in CallRecord
    BY DEF IoInit, CallRecord
<1>2. CallTyped
    BY <1>1 DEF IoInit, CallTyped
<1>3. \A c \in Callers : Distinct(c)
    BY DEF IoInit, Init, StorageInit, IdleOp, Distinct
<1> QED
    BY <1>1, <1>2, <1>3 DEF IoInit, IoInv, Under, ReadsOwn, Writes

LEMMA IoInvariant == IoSpec => [](IoInv /\ RestInv)
<1>1. IoInv /\ RestInv /\ StorageInv /\ [IoNext]_ioVars => IoInv'
    <2> SUFFICES ASSUME IoInv, RestInv, StorageInv, [IoNext]_ioVars PROVE IoInv'
        OBVIOUS
    <2>1. CASE IoNext
        <3>1. CASE IoIdle
            BY <3>1 DEF IoIdle, ioVars, vars, IoInv, CallTyped, Writes, Own, Distinct, Under,
               Asked, HasOwn, FoundOwn, FailsForOthers, ReadsOwn
        <3> QED
            BY <2>1, <3>1, LocalKeeps, AppKeeps, RemoteKeeps, HandlerKeeps DEF IoNext
    <2>2. CASE UNCHANGED ioVars
        BY <2>2 DEF ioVars, vars, IoInv, CallTyped, Writes, Own, Distinct, Under,
           Asked, HasOwn, FoundOwn, FailsForOthers, ReadsOwn
    <2> QED
        BY <2>1, <2>2
<1> QED
    BY <1>1, IoInitInv, IoUsesRest, RestInvariant, RestUsesStorage, StorageCorrect,
       PTL DEF IoSpec

\* The program's call, what it was given and what it holds for its own keep
\* their types, with those of the handlers and the storage (local.go, remote.go).
THEOREM IoAlwaysTyped == IoSpec => []IoTyped
<1>1. IoInv /\ RestInv => IoTyped
    BY DEF IoInv, RestInv, IoTyped
<1> QED
    BY <1>1, IoInvariant, PTL

\* What the program was told is stored and nobody has changed, every later list
\* that gives no error has, whoever else writes meanwhile and whatever the
\* deadline and the connection do; and a read that gives one was lost or refused,
\* is a list with somebody else's item that does not decode, or is a Get of what
\* is not the program's own (local.go, remote.go, objects.go:115-127).
THEOREM OwnIsRead == IoSpec => []ReadsOwn
<1>1. IoInv => ReadsOwn
    BY DEF IoInv
<1> QED
    BY <1>1, IoInvariant, PTL

=============================================================================
