# A verification development of katamari

katamari is a small server in Go that keeps JSON values under slash-separated
keys, serves them over REST and pushes every change to websocket subscribers.
A path such as `devices/*` (a *glob*) names a list of keys and can be read,
deleted and subscribed to like a key.  This directory holds TLA+ modules that
model it, TLC configurations that check them on small instances, and TLAPS
proofs for every value of the constants.

    tlasany Stream.tla                              # parse
    tlc -config StreamBroadcast.cfg MCStream.tla    # model-check
    tlapm StreamProofs.tla                          # prove

`PROJECT.json` lists the components, the runs, the mutants (a plausible bug in a
definition, which breaks the property named with it), the source lines of each
definition, the findings, the hazards and the theorems.

## 1. Inventory

### The parts, their state and their operations

| part | source | state | operations |
| --- | --- | --- | --- |
| keys | `key/key.go` | none | `IsValid`, `Match`, `Peer`, `Contains`, `LastIndex`, `Build` |
| storage | `memory.go`, `storage.go` | `mem` (a `sync.Map`), `storage.Active`, `watcher` (an unbuffered channel), `noBroadcastKeys` | `Start`, `Close`, `Active`, `Get`, `GetN`, `GetNRange`, `Keys`, `KeysRange`, `Peek`, `Set`, `Pivot`, `Del`, `Clear`, `Watch` |
| stream | `stream/stream.go`, `stream/clock.go` | `pools`: per path a key, a mutex, a cache (version, data) and a list of connections; `mutex` over the list | `New`, `Close`, `Broadcast`, `Patch`, `Write`, `Read`, `setCache`, `GetCacheVersion`, `Refresh`, `BroadcastClock`, `WriteClock` |
| server | `katamari.go` | atomics `active` and `closing`, the http server, the configuration | `Start`, `waitListen`, `waitStart`, `watch`, `fetch`, `Active`, `Close`, `WaitClose` |
| handlers | `rest.go`, `ws.go` | none | `publish`, `read`, `unpublish`, `getStats`, `ws` |
| filters | `filters.go` | lists of path and function | `WriteFilter`, `ReadFilter`, `DeleteFilter`, `AfterFilter`, and the `check` of each |
| clock | `clock.go` | a ticker | `tick`, `clock` |
| messages | `messages/messages.go` | none | `Encode`, `Decode*`, `PatchCache`, `Patch`, `PatchList` |
| client | `client/subscribe.go` | `closingTime`, `wsClient`, `muWsClient`, the cache of the patches | `Subscribe`: a loop and a goroutine that closes |
| joined clients | `client/subscribeMultiple.go` | buffered channels, the last state of each path | `SubscribeMultiple2` to `4` |
| io | `io/local.go`, `io/remote.go` | none | `Get`, `GetList`, `Set`, `Push` on a server in the process, and the same as requests |
| objects | `objects/objects.go` | none | conversions and the order of lists |

### How they interact

A `POST` or `DELETE` ends in `Storage.Set` or `Storage.Del`, which changes the
map and then *sends the path on the watch channel*, and so returns only when a
worker has received it.  `Server.Workers` goroutines run `watch`: receive a
path, call `Stream.Broadcast`, receive again.  `Broadcast` takes the stream's
mutex for reading and visits each pool whose key is a *peer* of the path: under
the pool's mutex it reads the pool's data from the storage through the read
filter, makes a JSON patch from the pool's cache, replaces the cache and writes
the patch, or the whole data if that is shorter, to every connection.

A subscriber's handler (`ws`) upgrades the connection, puts it in the pool of its
path (`Stream.New`, under the stream's mutex), then reads the data and asks for
the version of the pool's cache (`Refresh`, which fills an empty cache with what
it has read), then writes that as a first message in a goroutine of its own,
unless the client said that it has that version, and then reads until the
connection ends and takes it out of its pool.  A plain `GET` goes through the
same `Refresh`, and so may create pools and fill their caches too.

`Start` launches `waitListen` (opens the storage, listens, serves), waits until
it listens, starts the workers on the storage's channel of that moment and the
ticker.  `Close` sets `closing`, clears `active`, closes the storage and its
channel, and shuts the http server down.

The Go client keeps one connection: it dials under a mutex, reads messages until
one fails and dials again; a second goroutine waits for the context and closes
the connection there is at that moment.  The cache on which patches are applied belongs
to the subscription and not to a connection, so it survives every reconnection.

The typed helpers of `io` are what a program calls: in the server's process they end in
`Storage.Set` and `Storage.Get`, elsewhere in a `POST` or `GET`.

### What is hard

* Concurrency: many writers, several workers and handlers on shared maps, pools
  and caches, with six kinds of critical section and a channel between them.
* Values read at one time and used at another: the data and the version of a
  fetch, the storage's `Active` and its channel, the range over a map.
* Order of messages on a connection: two goroutines write to it.
* Closing while operations are under way, starting again, closing twice.
* Failure: connections end at any time, dials fail, filters refuse, messages do
  not parse, an answer is lost after its request took effect.
* Liveness: every write waits for a worker, and every worker for locks.

`PROJECT.json` lists these at the line where each bites, with the property that
covers it or the reason why none does.

### What makes each part correct

* keys: `Match` decides what a glob denotes; `Build` makes a key of the list;
  operations and pools that share data find one another.
* stream and workers: no update is lost, nothing older is broadcast after
  something newer, two broadcasts of a pool exclude each other, every write
  returns and is broadcast.
* handlers: a subscriber holds the base of its next patch and, at rest, what the
  storage holds; it is registered exactly while it is served.
* lifecycle: an active server is whole, a closed one is closed entirely, no
  goroutine stays, and only operations under way may fail.
* storage: an object keeps the time it was made at, its newest stamp is the time
  of its data, and a list read during writes misses nothing that stood still
  but, under a limit, what does not decode.
* REST and filters: what a client is answered is what its request does, and
  nothing that the filters forbid is done.
* io: a program reads what it was told is stored, whatever is of another type in the
  list; a read that fails does so for the connection, the server's refusal, or data that
  is somebody else's.
* client: no connection is leaked, the closing goroutine misses none, the loop
  ends; a patch is applied only to what it was made from, the callback is not told
  something older than before, and in the end what the path holds; joined subscriptions lose no message, tell none twice and leave nobody
  waiting.

## 2. Modules

| module | models | proofs |
| --- | --- | --- |
| `Key` | operators of `key.go` on sequences of characters | `KeyProofs` |
| `KeyCases` | every input of up to two short paths, as states; the reference definitions | `KeyProofs` |
| `Stream` | writers, workers and handlers around the storage and the pools | `StreamProofs` |
| `BroadcastBus` | the abstract promise of the stream: every pool mirrors the storage | |
| `StreamBus` | the refinement mapping: `Stream` implements `BroadcastBus` | `StreamProofs` |
| `MCStream` | instances of `Stream`; `key.Match` of `Key` decides which paths match | |
| `Clock` | the clock's subscription: ticks, greetings, events | `ClockProofs` |
| `Lifecycle` | `Start`, `Close`, the channel, and the goroutines over several runs | `LifecycleProofs` |
| `ClientSubscribe` | the client's loop and the goroutine of its context | `ClientProofs` |
| `SubscribeSession` | `ClientSubscribe` on a server: what the callback is told | `ClientProofs` |
| `SubscribeMultiple` | the fan-in of several subscriptions | `SubscribeMultipleProofs` |
| `Storage` | the storage under concurrent callers: stamps, ranges, limits | `StorageProofs` |
| `Rest` | the REST handlers with the filters and the deadline, on `Storage` | `RestProofs` |
| `Io` | a program's typed calls, in process and as requests, on `Rest` | `RestProofs` |
| `MCIo` | an instance of `Io` | |

### Key and KeyCases

A key is a sequence of characters: only `/` and `*` matter, the others are
`Letters`.  `FilepathMatch` stands for `filepath.Match`: `Suffixes` is a recursive
function that says, of two positions, whether the rest of the pattern matches the rest
of the name.  `KeyCases` draws up to two valid paths, one after the
other, so that every state is one input.  `Denotes` is the reference: the key can
be cut into pieces, one for each character of the path.

### Stream

The module has one action for every step that another goroutine can observe.

| state | code |
| --- | --- |
| `store` | `MemoryStorage.mem`; a value is the number of the write that stored it |
| `req[w]` | the `Set` or `Del` a request is in: `del` (between the look at the map and the last deletion), `send` (blocked on the channel) |
| `work[v]` | a worker: `recv`, `lock` (has a path, not yet the `RLock`), `loop` (over the pools), `get` (holds a pool's mutex, reads key by key) |
| `pools`, `cache`, `connections` | `Stream.pools` from index 1; pool 0 is the clock's |
| `clock` | the time, as the number of caches set so far |
| `task[t]` | a handler: `get`, `set` (between `GetCacheVersion` and `setCache`), `live` (in `Stream.Read`), `denied`, `closed` |
| `init[c]` | the goroutine that still owes the first message |
| `client[c]` | what the peer of a connection holds when it has read everything |
| `told`, `slip` | history: the data of the last broadcast of a pool; what a handshake met |

`Set` and `DelKey` change one key of the map; `Notify` is the rest of the
operation, and `Deliver` the rendezvous that lets it return.  `RLock`,
`LockPool`, `GetKey`, `Filtered`, `Publish` and `RUnlock` are `Broadcast`.  The
critical sections of `New`, `Close` and `setCache` wait for nothing once entered,
so each is one step that is enabled while no worker is inside its `RLock`.
`Publish` is one step too: nothing can see the pool in its middle, and the writes
to different connections commute.  What a websocket carries is folded into
`client`, since it is FIFO: a snapshot replaces what the client holds, a patch is
right only on its base (`Receive`, from `PatchCache`), and `None` is what a client
holds after a patch on something else.  Whether a patch is longer than the data,
and so a snapshot is sent, is a free choice; with `NoPatch` it always is one, with
`ForcePatch` never.

A version is the time of a `_setCache` in nanoseconds.  With `Coarse` two of them may
read the same time; `twin` records that a cache has the version of the one before it.

### BroadcastBus and StreamBus

`BroadcastBus` has no workers, channel or locks.  It has for each pool the values it was
told last, those being collected for it, and the keys that are *due*: a change makes its
key due in every pool that was told something or is collecting, and only a look at the
key ends that.  `StreamBus` maps the pools that are not filtered, with the keys that they
hear of: `told` to `told`, what the worker that holds the pool's mutex has read to `seen`,
and `Owed` to `due`.  `Collect` is `LockPool`, `Look` is `GetKey`, `Tell` is `Publish`;
`Ask` is a `Del` that begins, and every other step of `Stream` is a stutter or a new debt.

### Clock

`Tick`, `RLock`, `WriteTick` and `RUnlock` are the ticker, which takes the time before
it has the lock and then writes to the connections that it found; `Accept` to `Greet`
the handler of a connection, from `OnSubscribe` to the time it gives to a goroutine of
its own; `WriteInitial` that goroutine; `Close` and `Unsubscribed` the end of `Read`.
`believed` is what the application knows from the events, `told` what each client was
told last, and `backs`, which is history, how often its time went back.

### Lifecycle

`Start` to `ServeEnds` are `Start`, `waitListen` and `waitStart`; `Close`,
`CloseServer`, `StorageClose` and `Shutdown` are the steps of `Close`, in its
order, for each of the `Closers` that may call it.  `CheckActive`, `LoadWatcher`
and the send, which is `Deliver` or `SendPanics`, are the end of `Set`, `Pivot`
and `Del`: the storage is asked under its mutex, the field `watcher` is read
without it, and the send blocks.  Goroutines are indexed by the run that made
them, so those of an earlier run live beside those of the present one.  A channel
is named by the run in which the storage made it.  `crashed` is the end of the
process: `log.Fatal`, or a panic outside a request.

### ClientSubscribe

`Lock`, `Dial`, `DialFails`, `ReadMessage`, `ParseFails`, `ReadFails`, `Bye` and
`Wake` are the loop; `Notice` and `CloseConnection` the goroutine of the context;
`Cancel`, `Arrive` and `Break` the environment.  A message is one that parses or
one that does not.

### SubscribeSession

The client of `ClientSubscribe` on one pool of a server.  `hand[n]` is the handler of the
n-th connection and `wire` what was sent to the connection that the loop reads and has
not been read; `cache` is the variable of the subscription, and `told` the last thing the
callback was given.  `Collect` and `Tell` are the worker, as `BroadcastBus` allows it;
`Join`, `Fetch`, `Version`, `SetCache` and `Initial` the handler, whose steps on a
connection that has ended go on all the same.  `Callback` and `Reject` are the two outcomes
of a message, each a step of `ClientSubscribe` (`ReadMessage`, `ParseFails`) with what
`PatchCache` makes of the cache; `Reject` leaves in the cache what a patch gave that
the type of the callback does not decode.  `clean` says that the present connection
has met none of the windows of `Stream`.

The data of the path is one datum, which `Collect` and `Fetch` read in one step.  That is
so of a key.  A list is read key after key, and what the callback was told of it may be
no state that it was in; what the module says, it says of each key of a list.

### SubscribeMultiple

| state | code |
| --- | --- |
| `read[p]`, `reader[p]` | what the `Subscribe` of a path has read, and whether its callback is in its select |
| `chan[p]` | `ch1`, `ch2`, ...: messages are numbered from 1 |
| `joiner`, `updated` | the goroutine that receives from all, and the paths whose `Updated` is true |
| `state[p]` | `state1`, `state2`, ... |

`Read` is a call of the callback of one `Subscribe`; `Send` and `GiveUp` are the
two cases of its select; `Receive`, `Return` and `Leave` the loop of the joining
goroutine.  The three functions of the source differ in the number of paths.  The
module stands on `ClientSubscribe` only in that a `Subscribe` calls its callback
one message at a time and may end once the context is done (`End`).

### Storage

`mem` is the map; `op[c]` the operation that a caller is in, one step for each
access to the map: `Set` takes the time, `Peek` loads the object that is there,
`Store` stores the new one; a range of `Del`, `Clear` or of a read comes to one key
after another (`DeleteKey`, `ScanKey`).  `Pivot` has one access.  `Scan` begins
`Get`, `Keys`, `KeysRange`, `GetN` and `GetNRange`, which differ in the path, the
limit and the range of times; `Finds` is what a range takes of a key, and `ScanDone` sorts and cuts what was found;
equals come in any order, as with `sort.Slice`.  `Notify` is the end of an operation
that changes the map and `Take` the worker that receives the path.

What is stored has a *kind* (`Kinds`): `item` is base64 of what some program reads,
`other` base64 of something else, `text` no base64 at all.  Only `publish` looks whether a
body is base64; `Set`, `Pivot` and write filters store anything.  `Get` of a list takes
all kinds, `GetN` and `GetNRange` decode each item and skip a `text` (`Finds`).

`Stream` has another abstraction of the same map.  There a `Set` is one step, since
the stamps do not matter to a broadcast; here a broadcast is only a `Take`.

Three variables are history.  `birth` is the time of the `Set` that made a key;
`slipped` says that the stamps met one of the *windows* of `Set`: the object of the
key changed between the time that a `Set` took and its store, or a `Pivot` forced
the stamps; `steady` is the keys that did not change since a read began.

### Rest

A handler serves one request.  Whatever refuses it before it comes to the storage
is one step (`Refuse`); otherwise the filters, which change nothing, are the guard
of the step that begins the storage operation.  The steps of the operation are
those of `Storage` (`Work`), and `Finish` is the end, with the after filter.
`Deadline` is `http.TimeoutHandler` around `POST` and `DELETE`: the client is
answered, the handler goes on.  `did` is history: what the request has done so
far.  `Bodies` is what `publish` may store: base64, or what a write filter makes of it.
`Built` is `key.Build`, which makes a key that nothing has named before.
The callers that are not handlers are the application's own and may call all of
the storage.

### Io

`Calls` begins a typed call and `Returns` ends it; the steps in between are those of
`Rest`.  A local call is an operation of the storage, begun by the same step.  A remote
one asks a handler, whose first step must then be for that request; `RemoteReturns` is
the answer, which a `Set` or `Push` does not look at and which a `Get` decodes, and
`RemoteFails` a connection that fails before, during or after the handler's work.
`Decoded` is the loop that skips what is of another type, and `ListDecodes` is
`DecodeListData`, which comes before the loop: one item that is no base64 and the whole
list is an error (`Fails`), as it is of one key that is absent, does not decode or is of
another type.  `call.lost` says that no answer came, or one that refuses.  Two variables are history:
`keep` says that what the call stored is unchanged, `mine` the keys that the program was
told are stored and nobody has changed.

## 3. Runs

| run | instance | what it shows |
| --- | --- | --- |
| `key` | letters a, b; paths of up to 4 characters; all pairs | `MatchIsDenotation`, `BuildMakesKey` |
| `stream_broadcast` | 2 keys, their glob and another that crosses it, one key refused by its filter; 2 writers, 2 workers, a `GET`; 2 operations | `NoLostUpdate`, `ToldIsCurrent`, `NoStaleBroadcast`, `ImplementsBus` |
| `stream_clients` | a key, refused, and its glob; 1 writer, 1 worker, 2 connections; patches, a coarse clock | `ClientHoldsCache`, `CleanClientCurrent`, `RegisteredWhileServed` |
| `stream_live` | 2 keys apart, one of them not broadcast; 2 writers, 2 workers, a connection; 3 operations; snapshots only; fairness | `WriterReturns`, `ToldEventually`, `DroppedIsClosed` |
| `clock` | 2 clients, 3 times; fairness | `EventsPaired`, `TimeGoesOn`, `HearsTicks` |
| `lifecycle` | 2 closers, 2 writers, 1 worker, 2 runs; fairness | `ActiveIsWhole`, `CloseIsComplete`, `OnlyLateSendersFail`, `ClosedIsLeft`, `SenderIsAnswered` |
| `session` | 2 dials, 3 messages, 2 writes, one of them not of the callback's type; fairness | `PatchesFit`, `NeverGoesBack`, `CaughtUp`, `CatchesUp`, and of the loop `OpenIsCurrent`, `CloserMissesNone`, `CloserComes`, `ClosedReaderEnds` |
| `multiple` | 2 paths, channels of 2, 3 messages each; fairness | `NoneLost`, `ToldOnce`, `Delivered`, `NobodyHangs` |
| `rest` | 2 keys and their glob, one key not broadcast and refused by the filters; a request and an application, either of which may carry the program's typed calls; a write filter that makes data of another type, a `Pivot` of data that does not decode; 2 times, 4 operations | `StampsTrue`, `PageIsNewest`, `AnswerIsTrue`, `ReadsOwn` |
| `stream_late_snapshot`, `lifecycle_restart`, `client_cancel` | the smallest instance | a sentence of the documentation or a test that the code does not keep (section 5) |

### Why the bounds are enough to be worth something

*Writes.*  A lost or reversed update needs two operations on one key, two workers
that carry them, and a pool: `stream_broadcast` has all of these and a glob whose
pool is reached by the operations on both keys.  Two operations can both be range
deletes, or a store and a delete of the same key.  A second glob crosses the first in
one key: a range delete of either does not reach the pool of the other, which does not
hear of that key and hears of the other all the same.  `stream_live` has three
operations, so that a writer may have to wait while both workers are busy; it has no
glob, for which three operations do not fit in the time of a run: that a store finds
the pools of globs is safety, and `NoLostUpdate` and `ImplementsBus` say it.

*Clients.*  The windows of the handshake are between one connection, one
broadcast or one other handler that fills the cache, so two connections and two
operations meet them all; a connection that ended may be resumed by another with
the version that it had.  `stream_clients` has two connections on two paths.  A `GET`,
which sets the cache and has no connection, is in `stream_broadcast`; for the clients
that share a cache with any number of them there are the proofs.

*Lifecycle.*  Two runs are the least in which something of an earlier run is left;
two closers and two writers the least that can race.  One worker per run is
enough for `ClosedIsLeft`, since workers share only the channel; the proofs are
for any number.

*Session.*  Two dials give a connection that was abandoned, whose handler is still under
way, and a current one; with more nothing new meets the one cache of the client, and
the proofs are for any number.  Two writes give three data, of which one does not decode:
a patch from the first to the last and one that must not be applied to what came between.
Three messages are the initial one and a broadcast of each write.  `MaxDials` bounds
successful dials only; failures are free.

*Joined clients.*  A channel that is full needs as many messages as it has places
and one more; with two places the order inside a channel matters too.  The proofs
are for any capacity and any number of paths.

*Rest.*  A stamp goes wrong, or a page, when a second caller comes between two
steps of the first, so two callers, one of them a request, meet every such pair.
Two times are a `Set` that makes a key and one that updates it; that two updates of
one object cross needs a third, which does not fit in the time of a run and is left to
the proof of `StampsTrue`.  Four operations let a program's own item be changed, or deleted and made again,
before or during its read.  A
limit of one on a list of two is the least that cuts.  The first filter of each
list is on a key and refuses, the second on the glob and allows, so that
their order matters.  A `Pivot` brings what does not decode, so that a list read by either
way may fail, and a limited one skip it, with the program's own item beside it; a filter
makes the item of another type that a list in the process skips.

*Clock.*  One tick before a client's greeting, one after it and the greeting are
three times.  Two clients are one that is written to while the other comes or goes.

*Keys.*  Four characters hold every local shape: an empty match, a `*` beside a
letter, two stars, one separator with letters on both sides.  Two stars with letters
on both sides of each need five characters, which do not fit in the time of a run; for
paths of any length there are the proofs.

Deadlock is checked in every run but those of `KeyCases`, which stop by
construction when the input is complete.  `Rest`, `End` and `Idle` are the states in which
the bounded system may stop: everything at rest and the operations used up; the
process ended or the last run closed; both goroutines of the client done; every
channel drained and every caller idle.

### Fairness

`Stream`: each goroutine that can run does, as the Go scheduler guarantees.  A
sender waits in the FIFO queue of its channel, and Go's `RWMutex` lets no new
reader pass a waiting writer, so steps that wait for them stay enabled or come up
in turn; weak fairness of each goroutine's steps is enough on the bounded
instance.  The start of operations, new connections and the loss of connections
have no fairness.  That a write to a connection ends is the deadline that `Write`
sets.

`Clock`: the ticker ticks and each of its writes ends by its deadline.  Handlers and
clients have no fairness.

`Lifecycle`: the same as `Stream`, with strong fairness for a writer, for which several
workers may compete and which may be passed by others before its turn in the
queue.  The tickers tick.  Nothing says that a server is started or closed.

`SubscribeSession`: the server's goroutines run and a connection that is up delivers; they
share one weak fairness, since each of them comes to an end by itself.  The client's loop
runs, and a dial ends within `HandshakeTimeout`.  The closer has strong fairness: it
waits for a mutex that the loop takes again and again, and `sync.Mutex` hands itself
to a waiter that starves.  Writes, the cancellation and failures have no fairness.

`SubscribeMultiple`: the user's callback returns.  A Go `select` draws among the
cases that are ready, so a case that is ready again and again is taken: strong
fairness for the receive of each path, for the exit of the joining goroutine and
for each sender.  Messages and the cancellation have none.

`Io` and `Rest` have only safety properties and no fairness.

### What the weaker properties mean

`ClientHoldsCache` and `CleanClientCurrent` hold outside four *windows*, recorded
in `slip` when they are hit: a broadcast to a connection whose handler has not sent
its first message (`broadcast`), a first message whose data is not the data of the
version it gets (`refresh`), a first message that is left out because the client's
version is also that of an older cache (`version`), and a cache that was empty when a
handler looked and is not when it sets it (`setcache`).  They say that nothing else ever separates a
client from its pool, in particular no end and return of other connections, no
resumption by version, no filter and no range delete; with `NoPatch` the windows
`refresh` and `setcache` do not matter at rest.

`PatchesFit`, `NeverGoesBack`, `CaughtUp` and `CatchesUp` speak of the same windows from the client's
side (`Clean`): they say that what an earlier connection left in the client's cache, or
a handler and broadcasts that are still at work for it, never spoils a clean one.

`ReadsOwn` speaks of what the program was *told* is stored: by the return of a call in the
process, or by an answer that accepts the request.  `RemoteSet` and `RemotePush` do not
look at that answer and tell their caller of no error when a filter refused or the deadline
passed.  Of a list that fails it says only why it may: one item of somebody else that is no
base64 is enough for the program to read nothing of its own there.

`CloseIsComplete` speaks of the storage, its channel and the listener.  `Shutdown` does not
know the websockets, which stay open until their peers or their reads end them.

Some hazards are described and not excluded by the property that is named with them:
`StampsTrue` excuses the keys that met a window of `Set`, `EventsPaired` counts the upgrades
that failed, `OpenIsCurrent` the connections abandoned at a message that does not parse,
`DroppedIsClosed` leaves out the refused ones, and `ClosedIsLeft` lets a `Start` come first.
Each says that nothing else goes wrong; the notes of the hazards say what is excused.

`NoLostUpdate`, `ToldIsCurrent`, `ToldEventually`, `CleanClientCurrent` and the bus speak,
for each pool, of the keys that it *hears* of (`Heard`): no path of the key is kept from
the channel by `NoBroadcastKeys` (`Loud`), and each is a peer of the pool.  A pool that is
a key hears of it if it is loud, and one that is a glob of all its loud keys that are in no
glob that crosses it (`PoolsHear`).  Among the paths that `publish` takes there are none
that cross (`PublishableInstance`); a `DELETE` and a subscription take others, such as
`a/*` and `*/1`, and a range delete of the one is not broadcast to the other
(`CrossedGlobs`).

## 4. Proofs

The theorems hold for every value of the constants that satisfies the assumptions
named with them; nothing else is taken on trust.

### Stream (`StreamProofs`)

* `TypeCorrect` (`TypeOK`) and `BroadcastsExclude` (`PoolsExclusive`), under
  `MatchAssumption`, `ConstantsAssumption` and `NoneAssumption`.
* `NothingLost` (`NoLostUpdate`) and `RestIsCurrent` (`ToldIsCurrent`), of all keys that
  a pool hears of, and `PoolsHear`, which says which these are.  The strengthening is
  `TypeOK /\ PoolsExclusive /\ NoLostUpdate`.  `ToldIsCurrent` speaks of quiet states only; the inductive form
  says of *every* state that a broadcast that is out of date for a key is owed
  another: by the writer that has not handed its path over, by the worker that has
  not come to the pool, or by the one that has not read the key yet (`Owed`); and
  that what a worker has read and not yet published is current or owed again
  (`GotOrOwed`).  The argument then is that each step passes the debt on: a writer
  to the worker that receives from it, the worker to its list of pools (which are the
  peers of its path: this is where `Heard` is used), the list to the pool it locks, and the read of the key
  pays it.  Exclusion is needed where a worker publishes: the debt may not be paid
  with data that another worker has read earlier.
* `NeverStale` (`NoStaleBroadcast`, an action property) rests on `Recent`: what was
  told or read of a key is not newer than the storage, and what a worker has read
  for a pool is not older than what the pool was told.  It needs the pool's mutex
  and holds of every key, heard or not.
* `ServedIsRegistered` (`RegisteredWhileServed`) is inductive beside the types.
* `CleanHoldsCache` (`ClientHoldsCache`) rests on `HoldsInv`: how far a handler is says
  what it has done (`Stage`); no client, handler or message has a version that the cache
  of its pool has not had (`Versions`, `Times`); and a clean client holds the cache, is
  owed a first message with it, or has not got so far (`HoldsOrWill`).  The case that
  needs thought is a client that is gone: the next connection may resume with its
  version and be sent nothing, so that what such a client holds must be the cache as
  long as the cache has its version and no twin (`Resumable`).
* `CleanIsCurrent` (`CleanClientCurrent`) rests on `FreshInv`:
  what a sound client holds, will be sent, or its handler has read so far is current
  for each key, or the pool is owed a broadcast (`Owed`) or is in one.  It is
  `NoLostUpdate` carried on to the client: a broadcast that ends gives every connection
  what `GotOrOwed` says of the worker, and a fetch between two broadcasts
  reads what is there or leaves the debt where it is.  At rest there is no debt.

### The bus (`StreamProofs`)

`StreamIsBus` (`Spec => ImplementsBus`): every initial state of `Stream` maps to one of
`BroadcastBus` and every step to a step or a stutter, under the assumptions above.
The hard steps are those that move a debt (`Deliver`, `RLock`, `LockPool`): the mapped `due`
must not lose a key that the pool hears of; and `Publish`, where the values told are
those that the one worker with the pool's mutex has read (`PoolsExclusive`).

`BusMirrors` is the promise of the bus itself, in its own steps: what a pool was told of a
key that is not due, or is being told, is what is stored (`PoolsMirror`).  The refinement
carries it over to the server (`StreamMirrors`), and it is enough for a subscriber: at rest
nothing is due, and `ToldIsCurrent` follows (`MirrorIsCurrent`).  So the abstraction is one
that the concrete property can be had from, and not only one that the code implements.

### Keys (`KeyProofs`)

For paths of any length over any letters, under `LettersAssumption`:

* `MatchDenotes` and `MatchIsDenotationTheorem`: `Match` decides what a glob denotes.
* `BuiltKey`, `BuildMakesKeyTheorem`, `BuiltKeysDiffer`: what `Build` makes of a publishable
  list is a key of that list, and at another time another key.
* `KeyMatchesItself`, `MatchTransitive`, `PublishableDoNotCross`, and `PublishableInstance`,
  which puts together what `Stream` takes of its paths: a key covers itself alone
  (`MatchAssumption`), and publishable paths with a key in common are peers.
* `CrossedGlobs`: of other paths the latter is false.

`Suffixes` is recursive, and no induction principle can be applied here.  The argument
goes round it.  What a glob denotes, restricted to the rests of two paths, satisfies the
equations of the recursion (`CutsUnfold`), so that a function with these equations exists
and `Suffixes`, which is chosen among them, has them too (`SuffixesUnfold`).  Two functions
with these equations are equal: else there is a pair of positions with the least number of
characters left at which they differ, and the equations at that pair speak of fewer
(`SuffixesAreCuts`, from the well-foundedness of the numbers).  The condition on the number
of separators that `Match` adds is that a glob's pieces cannot hold one, so that the
separators of path and key are in bijection (`DenotedSlashes`).  A publishable path has its
only star at its end (`GlobAtEnd`), so that of two that match one key, the shorter matches
the longer.

### Clock (`ClockProofs`)

`ClockTyped`, `TimeGoesBackOnce` (`TimeGoesOn`) and `EventsTellThePool`
(`EventsPaired`), under `TimeAssumption`.  Ticks alone are in order, so a client's time
goes back only where its greeting is the earlier or the later of two messages.
`TimeInv` says that before the greeting it has not gone back and is not later than
the tick under way, and that afterwards it has gone back once or has still one time to:
if the greeting was later than the tick under way, which may yet come.  `EventsInv`
says of every state who is believed and who is in the pool; they differ between
an event and its effect.

### Lifecycle (`LifecycleProofs`)

`LifecycleTyped`, `ActiveServerIsWhole`, `CloseCompletes` and `OnlyLateFail` follow
from one inductive invariant of five parts beside the types: where a `Start`, its
listener and the shutdowns are with respect to the run (`Phases`), what a `Close`
that is at a given step has done and who of several still owes what (`Closing`),
which channel the storage has and which are closed (`Channels`), the goroutines of
an active server (`Served`), and that the channel a writer saw is that of the run
or has been closed since (`Seen`).  `Channels` is what makes a restart safe for the
new workers: `closed` is always `1 .. run - 1` or `1 .. run`.  The proof has a step
for each action and under it one for each part.

`NobodySendsToNone` (`SendersAreServed`) is what `SenderIsAnswered` needs beside
fairness: no worker leaves a channel that is open, so that once `Start` has returned an
operation that waits on such a channel has every worker of the run to wait for.  A worker
that looks at the storage between a `Close` and the next `Start` leaves, one that looks
later stays on its closed channel; it needs `Manned`, that a worker has the channel of
the storage or a closed one, and `Sent`, the same of the writers.  No run has it among its
properties; it was checked on the instance of `lifecycle`, and with 2 workers and 3 runs,
before it was proved.  Assumption: `ConstantsAssumption` (at least one worker and one run).

### Client (`ClientProofs`)

`SubscribeTyped`, `ReconnectLeaksNone` and `NoDialEscapes`, from `IndInv` of
`ClientSubscribe`: beside the properties it says that outside the read loop only
abandoned connections are open, and that a dial under way after the closer is done began
after it.

`SessionUsesSubscribe` (`SessionSpec => Spec`) says that the server adds nothing to what
the loop may do, so that the three hold of the session too.  `SessionAlwaysTyped`,
`PatchesAlwaysFit` (`PatchesFit`) and `ToldNeverGoesBack` (`NeverGoesBack`) need
`SessionInv`: nobody holds data that the path has not had, and a worker has read no older
data than the cache has (`Known`); a clean connection has got nothing before its first
message, which is the cache (`Opening`), and from then on what is on its way rises, from
what the callback was told to the cache (`Ordered`).

`NothingSwallowed` (`CaughtUp`) is what `CatchesUp` needs beside fairness, and the one
theorem that goes from the write to the callback: when no broadcast is to come, a clean
client that has read what it was sent has told its callback what the path holds.  Its
invariant `Fed` follows the newest data through the places where it could be swallowed:
the worker that has read it, the handler that has read it for the initial message, the
pool's cache, and the client's cache, of which `PatchesFit` says that it is the pool's
once everything is read.  Assumptions: `BoundsAssumption`, `SessionAssumption`.

### Joined clients (`SubscribeMultipleProofs`)

`MultipleTyped`, `NoMessageLost` (`NoneLost`) and `CallbackToldOnce` (`ToldOnce`),
from `IndInv == TypeOK /\ InOrder /\ NoneLost`, under `BoundsAssumption`.
`InOrder` is what is left of `NoneLost` after a cancellation: a channel rises
between the state of its path and the last message that its callback is done with.

### Storage, REST and io (`StorageProofs`, `RestProofs`)

`StorageCorrect` is the invariant `StorageInv` of the storage with any number of
callers.  Beside the properties it says that data is not from the future (`InTime`);
that a `Set` under way found older data than it brings and, if it has not slipped,
has made its stamps from what is still there (`Stamped`); and that a range under way
has found all the keys it passed that stood still, and of those nothing older, or has
skipped them because they do not decode (`Passed`, `Fitting`).  The page is then a
matter of sorting and cutting what was found.

`RestUsesStorage` (`Spec => StorageSpec`) says that the handlers, their filters and
their deadline add nothing to what callers of the storage may do, so that
`StampsAlwaysTrue` and `PagesAreNewest` follow from `StorageCorrect`.  `RestTyped`
and `AnswersAreTrue` (`AnswerIsTrue`) need `RestInv`: how far the operation of a
request is says exactly what it has done (`Serving`).  A lemma shows that the filter
found by `Check` is the first that applies, by well-founded
induction.  Assumptions: `StorageAssumption`, `NoObjAssumption`, `RestAssumption`.

`IoUsesRest` (`IoSpec => Spec`) carries all of these over to the program's calls.
`IoAlwaysTyped` and `OwnIsRead` (`ReadsOwn`) need `IoInv`: the times of different `Set`s
differ, so that an object that was replaced is another (`Distinct`); and the operation
of a call is the one that was asked for, has no limit, and has not lost sight of
the program's own keys, which stood still since it began (`Asked`).  What the answer
brings then has the program's own as they are stored, and nothing older of theirs
(`FoundOwn`), so that an item at which it fails is another's (`FoundIsRead`).  Beside the
assumptions above, `IoAssumption`: a program may store its own type.

### Only model-checked

Liveness (`WriterReturns`, `ToldEventually`, `DroppedIsClosed`, `ClosedIsLeft`,
`SenderIsAnswered`, `CatchesUp`, `CloserComes`, `ClosedReaderEnds`, `Delivered`,
`NobodyHangs`, `HearsTicks`), which the prover cannot treat under fairness.  Every other
property that a run checks is a theorem.  Of four of them the part that is safety is
proved: where there is something to deliver, somebody has it in hand.  `NothingLost` is
that part of `ToldEventually`, `NobodySendsToNone` of `SenderIsAnswered`,
`NothingSwallowed` of `CatchesUp` and `NoMessageLost` of `Delivered`.

## 5. Where the code and its documents differ

* `stream_late_snapshot`: "reflects interactions to real-time subscriptions"
  (`README.md`).  The connection is in its pool before its data is read, and its
  first message is written by a goroutine of its own: a broadcast that comes first
  is overwritten at the client by the older snapshot, until the next change.
* `lifecycle_restart`: `TestRestart` starts, closes and starts a server.  The
  listener of the first run looks at `closing` after `Serve` has returned, when the
  second `Start` may have cleared it, and then calls `log.Fatal`.  The test is
  skipped.
* `client_cancel`: the tests cancel a subscription "while reconnecting in progress"
  and "while trying to connect".  `closingTime` is looked at only after a failed
  read, so a loop that is asleep or whose dials fail goes on for ever, and a later
  connection is never closed.

## 6. Not modelled

The text of messages, JSON and patches; HTTP status codes and bodies, `Audit`,
compression, CORS; what a read filter makes of the data, and the conversions of `objects`
(that an object may not decode, and what each reader does then, is modelled where it
matters, in `SubscribeSession`, `Storage` and `Io`); `WatchStorageNoop`, a helper for storages that are used without a server; an
`OnSubscribe` that refuses, which leaves no trace; the test helpers.  The storage of
`storage.go` is an interface; only `MemoryStorage` is in the repository.

Two stamps of objects that are taken in the same nanosecond are taken to be different;
for versions of caches `Coarse` lets them be the same.  The wall clock is not set back.
`Storage` is active throughout: the operations that meet a `Close` are those of
`Lifecycle`.

Two globs that share keys are peers only if one contains the other, so a broadcast
to one does not reach the pool of the other (`CrossedGlobs`).  `Stream` has such globs;
what it says of a pool leaves out the keys that it does not hear of (section 3).

A read filter that refuses a subscriber after the upgrade leaves its connection in
the pool with nobody reading from it.  `Stream` has that state (`denied`), and
`stream_clients` reaches it; `DroppedIsClosed`, which speaks of connections that
are to be closed in the end, leaves it out.

## 7. Plan

Done, in this order: keys; the stream with writers, workers and handlers, its
safety and liveness, its proofs; the lifecycle and its proofs; the client's loop and
its proofs; the joined clients and their proofs; the storage and the REST handlers
and their proofs; the bus and the refinement of `Stream` to it; the client's session
across connections; the helpers of `io`; the clock; the proofs of what a subscriber
holds; the proofs about keys, and the stream's for globs that cross; the mirror that a
pool is; the safety half of what must eventually happen to senders and to callbacks.

Next:

1. `SubscribeSession` as an instance of the handler and the worker of `Stream`: a
   refinement mapping from the session's server to one pool and one connection.
2. Versions and stamps from one clock: `Storage` with a coarse clock, in which two
   `Set`s of one key, or two pushes to one list, have the same time.
3. `Lifecycle` with the storage's operations in full, so that a write that meets a
   `Close` is followed from the map to the answer of its request.
