--------------------------------- MODULE Io ---------------------------------
(***************************************************************************)
(* The typed helpers of package io: Set, Push, Get and GetList on the      *)
(* storage of a server in the same process (local.go), and the same four   *)
(* as HTTP requests to its handlers (remote.go).                           *)
(*                                                                         *)
(* One program makes its calls one after another, while the application    *)
(* and other clients use the storage and the handlers as in Rest.  A call  *)
(* with a path of the wrong kind returns an error and does nothing else.   *)
(* The program's items are of one type, the "item" of Storage; others may  *)
(* store what is of another type, or is no base64 and does not decode.     *)
(***************************************************************************)
EXTENDS Rest

ASSUME IoAssumption == "item" \in SetKinds

VARIABLES
    call,               \* the program's last call
    keep,               \* history: what it stored is unchanged
    mine                \* history: the keys it was told are stored, unchanged since

ioVars == <<vars, call, keep, mine>>

CallRecord == [pc : {"begun", "returned"}, kind : {"none", "Set", "Push", "Get", "GetList"},
               via : Callers \cup {None}, path : Paths \cup {None},
               found : SUBSET Item,     \* what the storage or the answer gave it
               items : SUBSET Item, err : BOOLEAN,
               lost : BOOLEAN]          \* no answer came, or one that refuses

CallTyped ==
    /\ call \in CallRecord
    /\ call.pc = "begun" => call.kind # "none" /\ call.via \in Callers /\ call.path \in Paths
    /\ keep \in BOOLEAN /\ (keep => call.path \in Keys)
    /\ mine \subseteq Keys

IoTyped == TypeOK /\ CallTyped

IoInit ==
    /\ Init
    /\ call = [pc |-> "returned", kind |-> "none", via |-> None, path |-> None,
               found |-> {}, items |-> {}, err |-> FALSE, lost |-> FALSE]
    /\ keep = FALSE
    /\ mine = {}

-----------------------------------------------------------------------------
(***************************************************************************)
(* What the calls have in common.                                          *)
(***************************************************************************)
\* A call begins, through the caller or handler c.
Calls(kind, c, path) ==
    /\ call.pc = "returned"
    /\ call' = [pc |-> "begun", kind |-> kind, via |-> c, path |-> path,
                found |-> {}, items |-> {}, err |-> FALSE, lost |-> FALSE]
    /\ keep' = FALSE
    /\ mine' = mine

Under(c) == call.pc = "begun" /\ call.via = c

\* The call goes on, or another goroutine does.  The history: an item that the
\* call has stored is kept until it changes; what a write filter made something
\* else of is not the program's.
GoesOn ==
    /\ mine' = {k \in mine : mem'[k] = mem[k]}
    /\ keep' = \/ \E c \in Callers : /\ Under(c) /\ op[c].kind = "item"
                                      /\ op[c].pc = "store" /\ op'[c].pc # "store"
               \/ keep /\ mem'[call.path] = mem[call.path]

Writes == call.kind \in {"Set", "Push"}

\* Mutant of Decoded: the first item that is not of the type ends the loop.
DecodedStopsMutant(found) ==
    {i \in found : \A j \in found : j.obj.kind # "item" => Newest(j.obj) < Newest(i.obj)}

\* The items of a list that are of the program's type.
Decoded(found) == {i \in found : i.obj.kind = "item"}

\* DecodeListData stops at the first item that is no base64, with an error.
ListDecodes(found) == \A i \in found : i.obj.kind # "text"

\* A list with an item that does not decode is an error and no list; so is one
\* key that is not there, does not decode or is of another type.
Fails(found) == IF call.kind = "GetList" THEN ~ListDecodes(found) ELSE Decoded(found) = {}

\* The call returns.  A program that is told of no error, and was not refused,
\* holds what it has stored for its own.
Returns(found, lost, stored) ==
    /\ LET err == lost \/ (~Writes /\ Fails(found))
       IN  call' = [call EXCEPT !.pc = "returned", !.found = found, !.lost = lost, !.err = err,
                                !.items = IF err THEN {} ELSE Decoded(found)]
    /\ keep' = FALSE
    /\ mine' = IF stored /\ keep THEN mine \cup {call.path} ELSE mine

-----------------------------------------------------------------------------
(***************************************************************************)
(* local.go                                                                *)
(***************************************************************************)
LocalSet(c, k) == Calls("Set", c, k) /\ Set(c, k, "item")

LocalPush(c, g) == \E k \in Built(g) : Calls("Push", c, k) /\ Set(c, k, "item")

LocalGet(c, k) == Calls("Get", c, k) /\ Scan(c, k, 0, Keys)

LocalGetList(c, g) == Calls("GetList", c, g) /\ Scan(c, g, 0, Keys)

LocalReturns(c) ==
    /\ Under(c)
    /\ Return(c)
    /\ IF Writes THEN Returns({}, FALSE, TRUE) ELSE Returns(op[c].got, FALSE, FALSE)

LocalStep(c) ==
    /\ \/ \E k \in Keys : LocalSet(c, k) \/ LocalGet(c, k)
       \/ \E g \in Globs : LocalPush(c, g) \/ LocalGetList(c, g)
       \/ LocalReturns(c)
    /\ UNCHANGED <<hand, answer, did>>

\* A step of the storage inside a call, or of the application's other calls.
AppTurn(c) ==
    /\ AppStep(c)
    /\ Under(c) => op'[c].pc # "idle"
    /\ GoesOn
    /\ UNCHANGED call

-----------------------------------------------------------------------------
(***************************************************************************)
(* remote.go: a request to a handler that has served none.                 *)
(***************************************************************************)
RemoteSet(h, k) == Calls("Set", h, k)

\* The key is built by the program, not by the server.
RemotePush(h, g) == \E k \in Built(g) : Calls("Push", h, k)

RemoteGet(h, k) == Calls("Get", h, k)

RemoteGetList(h, g) == Calls("GetList", h, g)

\* The status of the answer to a POST is not looked at, and the body of an
\* answer that refuses a GET does not decode.  Nor does that of one that finds
\* nothing, which Fails says of an empty answer to Get.
RemoteReturns(h) ==
    /\ Under(h) /\ answer[h] # "none"
    /\ IF Writes THEN Returns({}, FALSE, answer[h] = "ok")
       ELSE IF answer[h] \in {"ok", "missing"} THEN Returns(call.found, FALSE, FALSE)
       ELSE Returns({}, TRUE, FALSE)

\* The connection fails: before the request has come to the handler, while it is
\* served, or when its answer is on the way.
RemoteFails(h) ==
    /\ Under(h)
    /\ Returns({}, TRUE, FALSE)

RemoteStep(h) ==
    /\ \/ /\ hand[h].pc = "idle"
          /\ \/ \E k \in Keys : RemoteSet(h, k) \/ RemoteGet(h, k)
             \/ \E g \in Globs : RemotePush(h, g) \/ RemoteGetList(h, g)
       \/ RemoteReturns(h)
       \/ RemoteFails(h)
    /\ UNCHANGED vars

\* A handler's step, for the program's request or for that of another client.
\* Only a write filter makes something else of the program's item.
HandlerTurn(h) ==
    /\ HandlerStep(h)
    /\ Under(h) /\ hand[h].pc = "idle" /\ hand'[h].pc = "busy" =>
          /\ hand'[h].path = call.path
          /\ hand'[h].kind = IF Writes THEN "publish" ELSE "read"
          /\ Writes /\ ~Filtered(call.path) => op'[h].kind = "item"
    /\ call' = IF Under(h) /\ hand[h].pc = "busy" /\ hand'[h].pc = "done" /\ ~Writes
               THEN [call EXCEPT !.found = op[h].got]
               ELSE call
    /\ GoesOn

IoIdle == Idle /\ call.pc = "returned" /\ UNCHANGED ioVars

IoNext ==
    \/ \E c \in Apps : LocalStep(c) \/ AppTurn(c)
    \/ \E h \in Handlers : RemoteStep(h) \/ HandlerTurn(h)
    \/ IoIdle

IoSpec == IoInit /\ [][IoNext]_ioVars

-----------------------------------------------------------------------------
\* The list has everything of the program's own.
HasOwn == \A k \in mine \cap Covers(call.path) : [key |-> k, obj |-> mem[k]] \in call.items

\* What an error of a read can come from: the connection or an answer that
\* refuses; an item of the list that does not decode and is not the program's
\* own; or, of one key, that it is not the program's own.
FailsForOthers ==
    \/ call.lost
    \/ call.kind = "GetList" /\ \E i \in call.found : i.obj.kind = "text" /\ i.key \notin mine
    \/ call.kind = "Get" /\ call.path \notin mine

\* What the program was told is stored, and nobody has changed since, it reads:
\* every list that gives no error has it, with its data, whatever is of another
\* type in the list; and a read that gives one does so for what is not its own:
\* a Get of its own fails only as the connection or the server's refusal, and a
\* list only as well at somebody else's item that does not decode.  It is told
\* so by no error in the same process, but by an answer that accepts the request
\* elsewhere, and unless a write filter made something else of the item
\* (local.go, remote.go, objects.go:115-127).
ReadsOwn ==
    call.pc = "returned" /\ call.kind \in {"Get", "GetList"} =>
       IF call.err THEN FailsForOthers ELSE HasOwn

\* What it rests on: no two Sets have the same time, so that an object that is
\* replaced is another; and the operation of a call is the one that was asked for
\* and has not lost sight of the program's own.
Distinct(c) ==
    op[c].pc \in {"peek", "store"} =>
       /\ \A k \in Keys : mem[k] # NoObj => mem[k].data # op[c].stamp
       /\ \A d \in Callers \ {c} : op[d].pc \in {"peek", "store"} => op[d].stamp # op[c].stamp

Own(k) == mem[k] # NoObj /\ mem[k].data # 0 /\ mem[k].kind = "item"

\* The program's own is in what the answer brings, and no older item in its place.
FoundOwn ==
    /\ \A k \in mine \cap Covers(call.path) : [key |-> k, obj |-> mem[k]] \in call.found
    /\ \A i \in call.found : i.key \in mine => i.obj = mem[i.key]

Asked(c) ==
    /\ c \in Apps \/ hand[c].pc = "busy" =>
          /\ op[c].path = call.path
          /\ IF Writes
             THEN op[c].pc \in {"peek", "store", "send", "done"}
             ELSE /\ op[c].pc \in {"scan", "paged"}
                  /\ op[c].limit = 0 /\ op[c].range = Keys
                  /\ mine \cap Covers(call.path) \subseteq steady[c]
    /\ c \in Handlers /\ ~Writes /\ answer[c] \in {"ok", "missing"} => FoundOwn

IoInv ==
    /\ CallTyped
    /\ Writes => call.path \in Keys
    /\ keep => Writes /\ Own(call.path)
    /\ \A k \in mine : Own(k)
    /\ \A c \in Callers : Distinct(c) /\ (Under(c) => Asked(c))
    /\ ReadsOwn

=============================================================================
