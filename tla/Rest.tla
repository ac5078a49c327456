-------------------------------- MODULE Rest --------------------------------
(***************************************************************************)
(* The REST handlers (rest.go) with the filters (filters.go), on top of    *)
(* the storage that they share with the application's own calls.           *)
(*                                                                         *)
(* Each handler serves one request.  A request that is refused before it   *)
(* comes to the storage (a path that is not valid, Audit, a body that is   *)
(* not JSON, a filter) is one step, since nothing is shared until then.    *)
(* POST and DELETE run under http.TimeoutHandler (katamari.go:339-342):    *)
(* when the deadline passes the client is answered, and the handler goes   *)
(* on in a goroutine of its own.                                           *)
(***************************************************************************)
EXTENDS Storage, Sequences

CONSTANTS
    Handlers,           \* the callers that are handlers, one request each
    Write, Delete, Read, \* filters: sequences of [path, allow]
    SetKinds,           \* the kinds of data in a body, and of the application's Sets
    PivotKinds,         \* those of the application's Pivots
    FilterKinds,        \* what the write filters make of a body
    After,              \* the paths of the after filters
    Static              \* Server.Static

ASSUME RestAssumption ==
    /\ Handlers \subseteq Callers
    /\ Static \in BOOLEAN
    /\ {Write, Delete, Read} \subseteq Seq([path : Paths, allow : BOOLEAN])
    /\ SetKinds \subseteq Kinds /\ PivotKinds \subseteq Kinds /\ FilterKinds \subseteq Kinds
    /\ After \subseteq Paths

Apps == Callers \ Handlers

VARIABLES
    hand,               \* the request each handler serves
    answer,             \* what its client was answered
    did                 \* history: the effects of the request, in order

vars == <<mem, now, ops, op, birth, slipped, steady, hand, answer, did>>

Request == [pc : {"idle", "busy", "done"}, path : Paths \cup {None},
            kind : {"none", "publish", "unpublish", "read", "stats"}]
Answer  == {"none", "ok", "refused", "missing", "late"}
Effect  == {"stored", "deleted", "sent", "after"}

TypeOK ==
    /\ StorageTyped
    /\ hand \in [Handlers -> Request]
    /\ answer \in [Handlers -> Answer]
    /\ did \in [Handlers -> Seq(Effect)]
    /\ \A h \in Handlers :
          /\ hand[h].pc # "busy" <=> op[h].pc = "idle"
          /\ hand[h].pc = "done" => answer[h] # "none"

Init ==
    /\ StorageInit
    /\ hand = [h \in Handlers |-> [pc |-> "idle", path |-> None, kind |-> "none"]]
    /\ answer = [h \in Handlers |-> "none"]
    /\ did = [h \in Handlers |-> <<>>]

-----------------------------------------------------------------------------
Applies(filter, path) == filter.path = path \/ Match(filter.path, path)

\* check of router and hooks: the first filter that matches decides, and
\* without one the path is open unless the server is static.
Check(filters, path) ==
    LET matches == {i \in DOMAIN filters : Applies(filters[i], path)}
    IN  IF matches = {}
        THEN ~Static
        ELSE filters[CHOOSE i \in matches : \A j \in matches : i <= j].allow

\* checkStatic, which looks only whether there is a filter.
CheckStatic(filters, path) ==
    Static => \E i \in DOMAIN filters : Applies(filters[i], path)

\* check of watchers.
Watched(k) == \E p \in After : p = k \/ Match(p, k)

\* The request of h is this one; its storage operation is under way.
Serve(h, kind, path) ==
    /\ hand[h].pc = "idle"
    /\ hand' = [hand EXCEPT ![h] = [pc |-> "busy", path |-> path, kind |-> kind]]
    /\ UNCHANGED <<answer, did>>

Refuse(h) ==
    /\ hand[h].pc = "idle"
    /\ hand' = [hand EXCEPT ![h].pc = "done"]
    /\ answer' = [answer EXCEPT ![h] = "refused"]
    /\ UNCHANGED <<storageVars, did>>

\* Build: a path with a glob gets the time as index, so a key that no request
\* and no call has named.
Fresh(k) ==
    /\ mem[k] = NoObj /\ birth[k] = 0
    /\ \A c \in Callers : op[c].path # k
    /\ \A h \in Handlers : hand[h].path # k

Built(path) == IF path \in Keys THEN {path} ELSE {k \in Covers(path) : Fresh(k)}

\* What publish may store: the body is base64 (DecodeReader), but a filter may
\* put anything in its place.
Filtered(k) == \E i \in DOMAIN Write : Applies(Write[i], k)

Bodies(k) == (SetKinds \ {"text"}) \cup (IF Filtered(k) THEN FilterKinds ELSE {})

Publish(h) ==
    \E path \in Paths : \E k \in Built(path) : \E kind \in Bodies(k) :
       /\ Serve(h, "publish", k)
       /\ Check(Write, k)
       /\ Set(h, k, kind)

Unpublish(h) ==
    \E path \in Paths :
       /\ Serve(h, "unpublish", path)
       /\ Check(Delete, path)
       /\ Del(h, path) \/ (path \in Keys /\ NotFound(h, path))

\* read and its fetch; the cache of the stream is left to Stream.
ReadPath(h) ==
    \E path \in Paths :
       /\ Serve(h, "read", path)
       /\ CheckStatic(Read, path)
       /\ Scan(h, path, 0, Keys)

GetStats(h) ==
    /\ Serve(h, "stats", None)
    /\ Scan(h, None, 0, Keys)

\* A step of the storage inside the request, noted when it is an effect.
Work(h) ==
    /\ hand[h].pc = "busy"
    /\ \/ Store(h) /\ did' = [did EXCEPT ![h] = Append(@, "stored")]
       \/ op[h].pc = "del" /\ DeleteDone(h) /\ did' = [did EXCEPT ![h] = Append(@, "deleted")]
       \/ Take(h) /\ did' = [did EXCEPT ![h] = Append(@, "sent")]
       \/ /\ \/ Peek(h) \/ ScanDone(h)
             \/ \E k \in Keys : DeleteKey(h, k) \/ ScanKey(h, k)
          /\ did' = did
    /\ UNCHANGED <<hand, answer>>

\* What a request is answered when its operation has returned.  An empty Get
\* of a key is "{}" to the read filter and not found to the client.
Outcome(h) ==
    LET path == hand[h].path
        read == hand[h].kind = "read"
    IN  IF read /\ ~Check(Read, path) THEN "refused"
        ELSE IF op[h].pc = "missing" \/ (read /\ path \in Keys /\ op[h].got = {}) THEN "missing"
        ELSE "ok"

\* Mutant of Finish: the after filter runs whether or not one matches, for
\* deletes too.
FinishNotifiesMutant(h) ==
    /\ hand[h].pc = "busy"
    /\ Return(h)
    /\ did' = [did EXCEPT ![h] = IF Watched(hand[h].path) THEN Append(@, "after") ELSE @]
    /\ answer' = [answer EXCEPT ![h] = IF @ = "none" THEN Outcome(h) ELSE @]
    /\ hand' = [hand EXCEPT ![h].pc = "done"]

\* The end of a handler.  publish runs the after filter first; an answer that
\* comes after the deadline is discarded.
Finish(h) ==
    /\ hand[h].pc = "busy"
    /\ Return(h)
    /\ did' = [did EXCEPT ![h] = IF hand[h].kind = "publish" /\ Watched(hand[h].path)
                                 THEN Append(@, "after") ELSE @]
    /\ answer' = [answer EXCEPT ![h] = IF @ = "none" THEN Outcome(h) ELSE @]
    /\ hand' = [hand EXCEPT ![h].pc = "done"]

\* Mutant of Deadline: it ends the request, not only the wait of the client.
DeadlineEndsMutant(h) ==
    /\ hand[h].pc = "busy"
    /\ hand[h].kind \in {"publish", "unpublish"}
    /\ answer[h] = "none"
    /\ answer' = [answer EXCEPT ![h] = "late"]
    /\ hand' = [hand EXCEPT ![h].pc = "done"]
    /\ UNCHANGED <<storageVars, did>>

\* http.TimeoutHandler: the client is told that the deadline was reached.
Deadline(h) ==
    /\ hand[h].pc = "busy"
    /\ hand[h].kind \in {"publish", "unpublish"}
    /\ answer[h] = "none"
    /\ answer' = [answer EXCEPT ![h] = "late"]
    /\ UNCHANGED <<storageVars, hand, did>>

HandlerStep(h) ==
    \/ Refuse(h) \/ Publish(h) \/ Unpublish(h) \/ ReadPath(h) \/ GetStats(h)
    \/ Work(h) \/ Finish(h) \/ Deadline(h)

AppStep(c) ==
    /\ Call(c, SetKinds, PivotKinds) \/ Inside(c) \/ Return(c)
    /\ UNCHANGED <<hand, answer, did>>

\* The operations are used up.
Idle ==
    /\ \A c \in Callers : op[c].pc = "idle"
    /\ UNCHANGED vars

Next ==
    \/ \E h \in Handlers : HandlerStep(h)
    \/ \E c \in Apps : AppStep(c)
    \/ Idle

Spec == Init /\ [][Next]_vars

-----------------------------------------------------------------------------
\* The first filter of the list that applies to path.
FirstOf(filters, path, i) ==
    /\ i \in DOMAIN filters /\ Applies(filters[i], path)
    /\ \A j \in 1 .. i - 1 : ~Applies(filters[j], path)

Allowed(filters, path) ==
    IF \E i \in DOMAIN filters : Applies(filters[i], path)
    THEN \E i \in DOMAIN filters : FirstOf(filters, path, i) /\ filters[i].allow
    ELSE ~Static

\* The change that a request makes, and the event that a worker has received.
Changed(req) == IF req.kind = "publish" THEN "stored" ELSE "deleted"

Change(req) == IF Silent(req.path) THEN <<Changed(req)>> ELSE <<Changed(req), "sent">>

\* All that a request does when nothing refuses it, in order.
Effects(req) ==
    CASE req.kind = "publish" /\ Watched(req.path) -> Append(Change(req), "after")
      [] req.kind = "publish" /\ ~Watched(req.path) -> Change(req)
      [] req.kind = "unpublish" -> Change(req)
      [] OTHER -> <<>>

Begins(s, t) == Len(s) <= Len(t) /\ \A i \in 1 .. Len(s) : s[i] = t[i]

TrueAnswer(h) ==
    /\ Begins(did[h], Effects(hand[h]))
    /\ answer[h] = "ok" => did[h] = Effects(hand[h])
    /\ answer[h] \in {"refused", "missing"} => did[h] = <<>>
    /\ hand[h].pc = "done" => did[h] \in {<<>>, Effects(hand[h])}
    /\ did[h] # <<>> =>
          Allowed(IF hand[h].kind = "publish" THEN Write ELSE Delete, hand[h].path)
    /\ hand[h].kind = "read" /\ answer[h] = "ok" => Allowed(Read, hand[h].path)

\* What a client was answered is what the request does: an accepted one all of
\* it, each effect once and in order, before it is answered; a refused one or
\* one whose key was not found nothing, ever; and one that was told that the
\* deadline was reached everything or nothing.  Only what the first matching
\* filter allows, or in static mode some filter, has an effect or is read
\* (rest.go:38-169, filters.go:106-180).
AnswerIsTrue == \A h \in Handlers : TrueAnswer(h)

\* What it rests on: how far the operation of a request is says what it has
\* done, and no client is answered by its handler before the end.
SoFar(h) ==
    CASE op[h].pc = "send" -> <<Changed(hand[h])>>
      [] op[h].pc = "done" -> Change(hand[h])
      [] OTHER -> <<>>

Serving(h) ==
    /\ hand[h].pc = "idle" => hand[h].kind = "none" /\ answer[h] = "none" /\ did[h] = <<>>
    /\ hand[h].pc = "busy" => did[h] = SoFar(h)
    /\ hand[h].pc = "busy" /\ hand[h].kind = "publish" =>
          /\ op[h].pc \in {"peek", "store", "send", "done"} /\ op[h].path = hand[h].path
          /\ answer[h] \in {"none", "late"} /\ Allowed(Write, hand[h].path)
    /\ hand[h].pc = "busy" /\ hand[h].kind = "unpublish" =>
          /\ op[h].pc \in {"del", "send", "done", "missing"} /\ op[h].path = hand[h].path
          /\ answer[h] \in {"none", "late"} /\ Allowed(Delete, hand[h].path)
    /\ hand[h].pc = "busy" /\ hand[h].kind \in {"read", "stats"} =>
          op[h].pc \in {"scan", "paged"} /\ answer[h] = "none"
    /\ hand[h].pc = "busy" => hand[h].kind # "none"
    /\ op[h].pc = "send" => ~Silent(op[h].path)

RestInv == TypeOK /\ \A h \in Handlers : TrueAnswer(h) /\ Serving(h)

=============================================================================
