# TLA+ models of ARCHKE

ARCHKE is a single-threaded, in-memory key-value server in C: clients speak the
protocol of `protocol/ACSP` (a relative of RESP), an event loop calls handlers, keys
live in a chained hash table with incremental rehashing, and may have a deadline.
This directory holds TLA+ modules of its core, the TLC configurations that check them
on small instances, and proofs for TLAPS. Paths such as `archke_server.c:104` are
relative to the root of the repository.

## 1. The system

| Component | Code | State | Operations | Module |
|---|---|---|---|---|
| hash table | `archke_kvstore_basic_hash.c` | `buckets`, `new`, `used`, `size`, `newSize`, `rehashIdx` | put, get, delete, activate, rehash step | `KVStore` (promise: `KVMap`) |
| scan of a store | same file, `rchkKVStoreScan` | the caller's cursor | one call of the scan, with a callback that may delete | `ScanStep`, `KVScan`, `ReverseCursor`, `ReverseBits` |
| commands and expiry | `archke_commands.c`, `archke_expire.c`, `serverCron` | `server.kvstore`, `server.expire`, `server.cursor`, the clock | SET, SET EX, GET, EXISTS, DEL, active expiry | `Keyspace` (promise: `TTLMap`), `Server`, `Ownership` |
| parser, read handler | `rchkProcessQueryBuffer`, `rchkHandleReadEvent` | query buffer and position, parser state, `argv`, `argi`, `argc` | a read, a byte of each parser state, next command, last command | `ReadHandler` |
| reply list, write handler | `rchkAppendToReply`, `rchkHandleWriteEvent`, `rchkClientReset` | list of blocks, `replyRemaining`, the heap | append, partial write, end of the connection, reset | `ReplyWriter` |
| connections, event dispatch | accept/read/write handlers, `archke_event_loop_epoll.c`, `archke_event_loop_kqueue.c`, `rchkClientNew`, `rchkClientFree` | table of events, watched events, batch, list of clients | wait, accept, register, end | `Connections` |
| query buffer size | `rchkResizeQueryBuffer`, `clientCronShrinkQueryBuffer` | capacity, peak, `argRemaining` | grow, shrink | `QueryBuffer` |
| event loop's timer, server cron | `rchkEventLoopMain`, `serverCron`, `rchkIncrementalRehashing` | `when` of the timer, time limits, shutdown flag, cursor | wait, signal, scan call, rehash, exit | `Server` |
| memory of the stores | `archke_memory.c`, `archke_expire.c`, the commands | the heap, pointers in the two stores | copies made and freed by SET, GET, DEL, active expiry | `Ownership` |
| start-up | `main`, `rchkServerInit` | | | `Init` of `Server` |
| sockets, hash function, logs, tests | the other files | | | not modelled |

How they interact. `main` fills the table of commands, opens the listening socket and
runs the event loop for ever. The loop calls the handler registered for a ready
descriptor; a client has the read handler or the write handler, never both. The read
handler feeds bytes to the parser, executes each complete command at once, and hands
over to the write handler, which hands back when the reply is gone. A command works on
two stores, `server.kvstore` and `server.expire`, which are two instances of the same
hash table with the same keys. Every 200 ms the cron continues a scan over
`server.expire`, deleting what has expired from both stores, then takes rehash steps in
both. Nothing is persisted: a restart is an empty server, so there is no recovery.

What is hard. There is one thread, so the interleavings are between *calls*: rehash steps
between puts and deletes; a scan resumed with a cursor that is 200 ms old on a table that has
doubled; the clock between two commands; the network between two bytes; the handlers of one
batch of events, one of which closes a descriptor and another gets its number; a signal before,
in or after a wait; a `writev` that stops anywhere. `PROJECT.json` lists these hazards with
their lines and the properties aimed at them.

## 2. Modules

All modules are plain state machines: one action per API call, handler, or case of the
parser. A definition whose comment begins with "A slip:" is not part of a
specification: it is the definition below it with a plausible mistake, and shows, put
in its place, that a property can tell the difference.

**KVMap, KVStore.** `KVMap` is what `archke_kvstore.h` promises: a map and the number
of its elements. `KVStore` is the hash table. A table is a function from bucket numbers
to sets of nodes: no caller of these functions sees the order of a chain, and where the
code takes the first node that matches, the model takes any. Freed memory is gone from
the state. `Put`, `Delete`, `RehashActivateIfNeeded` and `RehashStep` are the four
functions, with the calls they end in: a put that inserts and a delete from the primary
table activate a rehash when the load is at least 1, a delete from the new table and a
put during a rehash do not. Sizes need not be powers of two in this module, so the proofs hold
for `hash % size` whatever the size is; the code masks, which is the same for its sizes.
A `malloc` that fails in a put makes it return -1 with nothing changed (a stuttering
step); a `calloc` that fails ends the process.

**ReverseCursor, ScanStep, KVScan, ReverseBits.** `ScanStep` is one call of the scan: what
it reports, the cursor it returns, and the store without the keys its callback deletes.
The cursor counts up with its bits reversed; `RevIncremented` says so in arithmetic.
`ReverseBits` has the operations of the code, the loop of `rev()` with the masking and the
`cursor++`, on words that are sets of the positions of their ones; `CodeIsRevIncremented`
says that both are the same. `KVScan` puts the calls between `ScanPut`, `ScanDelete` and
`ScanRehash`; its callback deletes any of the keys it is given. `seen` and `stable` are
history variables. One piece of undefined behaviour is resolved here: the callback frees a
node whose `next` the scan reads afterwards (`archke_kvstore_basic_hash.c:368`). The model
has the outcome of the platform's malloc, in which that pointer, behind the first two words
of the node, survives.

**TTLMap, Keyspace.** `TTLMap` is what a client may rely on: a map whose entries vanish
when their deadline has passed. `Keyspace` is the code: an expired key stays until a GET
meets it or the cron collects it. The two stores are maps here, which `KVStore` justifies,
and the scan of the cron is a walk over numbered slots, which `KVScan` justifies. A run
of the cron is one action: it scans to the end of the pass, or stops at a multiple
of `Batch` slots when it sees the time limit passed. Deadlines are
computed modulo `Word` (2^64 in the code). `TTLMap` says exactly what a client gets: its
variable `lingering` is the set of keys whose deadline has passed and whose entry nobody has
collected, which are mapped to the expired keys of `Keyspace`. On such a key a SET without
EX is lost, EXISTS answers true and DEL 1; on any other key, one that was never set or is
collected, every answer is that of a map. The run `commands_agree` shows that
`protocol/ACSP` promises otherwise.

**ReadHandler.** A client sends requests, ahead of the answers up to `MaxInFlight`; the network
hands any prefix of the waiting bytes to a read. `crowded` is a history variable: the client
has had more than two requests unanswered at a time, from when on the handler may have lost its
place. Each case of the parser's switch is an action that handles a byte; `Incomplete`,
`NextCommand`, `LastCommand` and `UnknownCommand` are what the handler does after the parser
returns, with the arithmetic on `queryBuffPos` as it is in the code. Command execution is an
entry in `executed`; the write handler delivers everything at once, which `ReplyWriter`
refines. The i-th request of a run is chosen from the i-th set of `Commands`; each is a
`Request`, with at most nine arguments of at most nine characters, so that both numbers in the
protocol have one digit. `Regular` requests name a command that exists and do not end with an
empty argument. The protocol allows others, too: a property that the code breaks for them says
that it is about regular ones, and one that it breaks for a crowded client says so with
`~crowded`. A null pointer that is read (unknown command) and `rchkExitFailure` both end the
process (`"exited"`).

**ReplyWriter.** Blocks and their bytes are allocated separately, so a pointer to bytes is a
chunk and an offset, and `free` of a pointer with an offset ends the process (undefined
behaviour that the C library notices). `Write(n)` is the write handler when `writev` took `n`
bytes: the walk to the cut, the rewriting of the first block, or the reset of the list.
`AppendToReply` links a block, or one of its two mallocs fails: commands ignore the -1 it
returns, the reply goes on without these bytes, and an element whose bytes were refused is
lost; `orphans` counts these. A reply may thus be empty, and the write handler runs all the
same (`executed`). Blocks are numbered in the order in which they are allocated and appended,
so a list ascends; a freed number is not used again. `ConnectionEnds` is everything that frees
the client with the list as it is: an error that `writev` or a read returns, the end of the
stream, a registration that fails. `BrokenPipe` is the error that `writev` does not return
from, because nothing ignores SIGPIPE.

**Connections.** The table of events, what the kernel watches, descriptor
numbers (the lowest free one is handed out) and the list of clients. `backend` is the event
loop of the build: with epoll a registration replaces the watched events, with kqueue it
deletes one filter and adds another. `Poll` returns any
batch in any order; each way out of the three handlers is a disjunct. Clients are
numbered and never reused, so that a stale pointer is visible as such.

**Server.** The composition: two instances of `ScanStep`, hence of `KVStore`, for
`server.kvstore` and `server.expire`, with the event loop around them. `at` follows
`rchkEventLoopMain` and `serverCron`: `poll`, `wait`, `io` (handlers of a batch execute
commands), `timers`, `scan`, `activateDb`, `rehashDb`, `activateEx`, `rehashEx`. Each call
of the scan, each look at the load and each rehash step is an action, because milliseconds
and signals come between them; nothing else can, as there is one thread. A deadline is
`"ahead"` or `"passed"` and passes between commands; one that passes while the cron runs
waits for its end, as the cron reads the clock before its loop. `late` is the answer of the
clock to the time limit, in the sense in which the code compares: `rchkIncrementalRehashing`
goes on *after* the limit and stops before it. Where `Keyspace` has a walk over slots and a
map, `Server` has the tables; where `Keyspace` computes deadlines, `Server` has two values.

**QueryBuffer.** Capacity and peak against the stream of headers and arguments, in units
of 8K: the default size is 2, both limits are 4. `rest` are the unparsed bytes of the
buffer; the read handler and the cron take turns, so the cron meets an empty buffer.

**Ownership.** The pointers in the two stores and the heap. Nodes of the tables are left
out, being freed by the tables alone; so are requests and replies (`ReplyWriter` has the
latter). `Malloc` is what the next malloc may return, given what is allocated: any free
address.

## 3. Runs

`tlc -config X.cfg M`, bounds and what they are for:

| Run | Module, configuration | Bounds | Shows |
|---|---|---|---|
| `store_with_rehash` | `MCKVStore` | 4 keys, 2 values, tables of 1 to 8 buckets | type and shape invariants, placement, uniqueness, drained buckets, `used`; refinement of `KVMap`; `RehashEnds`, `LoadRelieved` |
| `scan_with_rehash` | `MCKVScan` | 4 keys, tables of 1 to 8 buckets; words of 8 bits for the bit operations, tables of 1 to 32 buckets | `CursorInTable`, `ScanComplete`, `StableReportedOnce`, `PassEnds`; the bit operations are the reversed increment |
| `keyspace_expiry` | `MCKeyspace` | 2 keys, 2 values, a clock of 0 to 5, 3 slots, a word of 16 that the larger timeout wraps | a deadline belongs to a stored key; refinement of `TTLMap`; expired keys are collected |
| `whole_server` | `MCServer` | 2 keys that collide in 2 buckets, 1 value, 1 to 4 buckets, a period of 2, a look at the time limit after every scan call | what a client sees of a key changes by commands on it and by its deadline alone; deadlines belong to keys at every step; collection, rehashes and shutdown come to an end |
| `pipelined_requests` | `MCReadHandler` | 3 requests, up to 3 under way, every cut into reads; unknown names, no arguments, empty last arguments among them | until more than two are under way, the parser stays in bounds and executes what was sent, and of regular requests none is lost, the server stays up, every one is answered; between commands no answer is held back, whatever is under way |
| `query_buffer` | `QueryBuffer`, `MCQueryBuffer.cfg` | arguments of 0, 1, 3, 4, 5, 9 and 12 units | an argument of which more than the limit is to come keeps its buffer; a silent client gives its buffer back |
| `reply_delivery` | `ReplyWriter`, `MCReplyWriter.cfg` | 4 blocks of 0, 1 or 3 bytes, every partial write, a failure of either malloc | the list holds exactly the bytes not yet sent; whole writes leave only the elements whose bytes malloc refused; everything is delivered |
| `connections` | `Connections`, `MCConnections.cfg` | 5 clients on 3 descriptors, epoll and kqueue | table of events and kernel agree; handlers meet live clients; nothing leaks |
| `ownership` | `Ownership`, `MCOwnership.cfg` | 2 keys, 12 allocations | no pointer dangles or is held twice; only SET on a stored key and active expiry lose memory |

Why the bounds are enough. One initial bucket and four keys make the table double three times
(1 to 8) and let it fill up again during a rehash; the keys' hashes collide in small tables and
part in large ones. A table that filled up during a rehash is left with a load above 1, which
is what it takes for a delete, of a client or of the callback of a scan, to start a rehash:
three keys and one bucket reach that (three keys put while the table doubles to 2). Two keys do
not, so in `whole_server` no delete starts a rehash; that `KeysAreSafe` and `DeadlinesBelong`
hold then, too, is what `ServerProofs` adds. The scan run sees a cursor that outlives the
doublings. Two keys in the first and the last of three slots, with `Batch` = 2, give the cron
passes that are cut with a key on either side. Two requests under way are the most that the
handler can take in one read (see below), three requests let state carry over from an answered
pair, and three under way show what holds beyond that. Blocks of 0, 1 and 3 bytes give cuts
inside a block, at its border and around an empty one. In the run of the whole server both
tables double twice, the second time also between two calls of one pass of the scan, which the
time limit may cut anywhere (that the limit is looked at after every 16th call only is in the
keyspace run, with 2 for 16); a period of 2 leaves waits that events cut short and waits they
do not. Arguments of 5, 9 and 12 units are big ones that need one resize, and two sizes to
shrink between; those of 4 are the limit itself. Twelve allocations hold two keys with
deadlines and four more: enough to lose memory by every path and to reuse what was freed. Three
descriptors and five clients reuse every number while another entry of the batch waits.

Every value named "bound" in a CONSTANTS section limits the model, not the code:
`MaxTime`, `MaxInFlight`, the length of `Commands`, `MaxBlocks`, `MaxClients`, `HeapSize`;
`MaxBits` limits the arithmetic of the cursor (64 in the code; `MaxBitsAssumption` of `KVScan`
says that no table the keys can fill needs more), `Width` that of the bit operations.

Deadlock is checked where the system never stops (`KVStore`, `KVScan`, `Keyspace`,
`Connections`, `QueryBuffer`). `Server` and `Ownership` stop when the process exits,
`ReadHandler` when the client has sent its last
request or the process has ended, `ReplyWriter` when its blocks are used up.

### Fairness

* `KVStore!Fairness`: weak fairness of activation and of rehash steps. The cron runs
  every 200 ms and takes at least one step of a rehash each time
  (`rchkIncrementalRehashing` looks at its time limit after a step).
* `KVScan!FairScanSpec`: weak fairness of `Scan`; the cron calls it at least once a run.
* `Keyspace!FairSpec`: weak fairness of `Cron`, for the same reason. The clock needs none.
* `ReadHandler!FairSpec`: weak fairness of the server's steps: TCP delivers the bytes and
  epoll, level-triggered, reports a descriptor as long as there is something to do. The
  client sends, or not.
* `ReplyWriter!FairReplySpec`: weak fairness of writing some bytes and of the handover; the
  event loop reports a writable socket again and again. `ConnectionEnds` may still happen.
* `Server!FairSpec`: weak fairness of the loop's own steps and of time. A batch may hold
  any number of commands but comes to an end; clients, signals and deadlines need not come.
  A rehash step of the cron before its time limit ends the loop and one after it does not,
  so no fairness of the clock is needed for rehashes to end.
* `QueryBuffer!FairSpec`: weak fairness of parsing what was read, and of the cron.

### Where the code does not do what its documents say

Three runs expect a violation; each is a finding in `PROJECT.json`.

* `three_in_a_read`: `queryBuffPos += rchkProcessQueryBuffer(client)`
  (`archke_event_handlers.c:104`) adds a position to a position. With two requests in a
  read the result is beyond the buffer, as it should be; with three, bytes of the third
  are skipped. A fourth may then be executed without the third, or the parser meets the
  rest of a request where it expects the beginning of one, and its next byte ends the process.
* `commands_agree`: SET, EXISTS and DEL do not agree with GET about an expired key that has
  not been collected. SET without EX keeps the old deadline, so its value is not found
  afterwards (`protocol/ACSP:73`); EXISTS and DEL look into `server.kvstore` alone and count the
  key (`protocol/ACSP:112`, `:139`). TLC stops at the first; the exact answers of `TTLMap` show
  the others.
* `reply_purged`: after a partial write, the reset of the client frees a pointer into
  the middle of an allocation, or loses the blocks before the cut.

The models contain more such behaviour without a run of its own. A request that ends with
an empty argument sets `DONE` and lets the loop go on (`archke_server.c:371`), which eats
the first byte of a request behind it, and leaves `argRemaining` behind, so that a big
buffer stays. A shrunk buffer gets the default size of 16K where the comment
(`archke_server.c:181`) says `ARCHKE_RESIZE_THRESHOLD`, and so may be smaller than the peak.
A client that resets its connection before the answer ends the process by SIGPIPE, although
`archke_event_handlers.c:31` closes the connection (`BrokenPipe`). A very large EX wraps round
(both levels wrap). An unknown command name or an empty array ends the process (`UnknownCommand`), where
`protocol/ACSP:53` gives an error answer. An argument of which exactly
`ARCHKE_CMD_BIG_ARG` bytes are to come does not grow the buffer (`archke_server.c:154`) and may
not fit into one read, although `archke_server.h:7` calls an argument big that is "bigger than or
equal to" the constant: `RestFits` is about what the code calls big, and would not hold of the
other reading. `clientCount` is
never reduced, so `archke_server.h:66` is wrong about it and 1024 connections, not
clients, fill the array. Memory is lost, against no document, in three places: a SET on a
stored key and the active expiry (`OnlyKnownLosses` says that nothing else in the stores
does), and an append whose second malloc fails (`orphans` of `ReplyWriter`).

## 4. Proofs

`tlapm` checks every theorem of the eight modules named `...Proofs`. What they assume are the
ASSUMEs on constants in `KVStore`, `ScanStep`, `ReverseBits`, `KVScan`, `Keyspace`,
`QueryBuffer`, `ReplyWriter`, `Connections`, `Ownership`, `Server` and `ReadHandler`, which TLC
evaluates for the instances of the runs. TLC finds the invariants of the scan, of the read
handler and of the reply list, which say most beyond the properties, to hold in all states of
their runs. Every safety property of the runs that pass is a theorem.

| Module | For every | Theorems, and the properties they are about |
|---|---|---|
| `KVStoreProofs` | set of keys and values, hash function, initial size | `TypeCorrect`, `RehashIsShaped`, `NodesAreWellPlaced`, `OneNode`, `DrainedBuckets`, `UsedIsExact`; `Refinement` (`RefinesKVMap`) |
| `KVScanProofs` | set of keys, hash function, power of two as initial size and as width of a cursor | `CursorIsInTable`, `ScanIsComplete`, `ReportedOnce` (`StableReportedOnce`), `BitsAreTheIncrement` (`CodeIsRevIncremented`) |
| `KeyspaceProofs` | set of keys and values, timeouts, clock unit, word, assignment of slots | `Invariance` (`DeadlineHasKey`), `TypeCorrect`; `Refinement` (`RefinesTTLMap`) |
| `ServerProofs` | set of keys and values, hash function, sizes, period and batch of the cron | `DeadlinesAreOwned` (`DeadlinesBelong`), `ClientsKeysAreSafe` (`KeysAreSafe`) |
| `OwnershipProofs` | set of keys, size of the heap, choice of addresses | `EachPointerItsOwn` (`OwnedOnce`), `LossesAreKnown` (`OnlyKnownLosses`) |
| `ConnectionsProofs` | set of descriptors, number of clients, both event loops | `TableIsCurrent` (`KernelAgrees`), `HandlersMeetLiveClients` (`DispatchToLive`), `ListIsExact` (`ListHoldsClients`), `NothingIsLost` (`NothingLeaks`) |
| `ReadHandlerProofs` | sequence of sets of requests, cut of the network, buffer size | `WritesInBounds` (`InBounds`), `CommandsAreTheRequests` (`ExecutedAsSent`), `NoRequestIsLost` (`NothingLost`), `StaysUp` (`ServerStaysUp`), `AnswersAreNotHeldBack` (`AnsweredBetweenCommands`) |
| `ClientBuffersProofs` | sizes of buffers and arguments, the default size at most the limits; number and sizes of reply blocks | `BigArgumentFits` (`RestFits`); `NothingLostNorTwice` (`NotYetWritten`), `NothingLeftBehind` (`PurgedUnlessCut`) |

**KVStoreProofs.** `Inv` conjoins `TypeOK`, `RehashShape`, `WellPlaced`, `OneNodePerKey`,
`DrainedStayEmpty` and `UsedCounts`. None of them but `TypeOK` with `RehashShape` is
inductive alone. That a put finds the one node of its key rests on all nodes being where
searches look; that the last rehash step loses nothing rests on drained buckets being
empty; that `used` stays exact rests on a key having one node. The lemmas say, for every
action, what it does to `Search(k)` for every key (`PutSearch`, `DeleteSearch`,
`RehashSearch`, and `DeleteAllSearch` for the deletes of a scan's callback), which is all
the other proofs need. In the refinement the abstract value of a key is `Get(k)`; a put or
delete changes it for its key and no other, and rehash steps for none.

**KVScanProofs.** `ScanInv` is `Inv`, sizes that are powers of two within the cursor's
arithmetic, a cursor inside the primary table, and `Progress`: every key seen is behind the cursor,
and every key stored all the while that is behind the cursor was seen. "Behind" is
`Visited(c, h)`, which speaks of the bits of a hash and of the cursor, not of buckets and
sizes: that is why it survives a table that doubles between two calls. The argument has
three parts. `NextBucket` and `VisitedGrows` say that the reversed increment moves exactly the hashes
of the bucket it leaves behind the cursor (`CursorMoves`). `VisitsBothHalves` says that the loop
over a new table twice the size visits the two buckets the old one splits into and nothing
else, and ends where the cursor of the small table would be (`Halves`). `ReportedKeys` says
that a call therefore reports the stored keys of one bucket's hashes, whichever table
their nodes are in. `MaxBitsAssumption` keeps the tables within the arithmetic of the cursor
(`SizesKept`); the proof that tables stay small rests on `UsedCounts`. `BitsAreTheIncrement`
is about the code's own computation. The round of `rev()` for runs of 2^j bits moves every
bit to its `Partner` (`RoundExchanges`, with `NextMask` for the exclusive or that makes the
mask), the rounds from there on complement the lowest j bits of every position
(`LoopMirrors`), so all of them take position i to `Width - 1 - i` (`RevReverses`), and the
carry of `cursor++` runs through the ones above the highest clear bit under the mask
(`CursorAfterIsIncrement`).

**KeyspaceProofs.** Type correctness and `DeadlineHasKey` are inductive together. In the
refinement an entry past its deadline is mapped to no entry and a lingering key, so that
collecting some is the step `Collect` of `TTLMap`, and the tick of the clock that passes
deadlines is the step that removes the entries. That the answers of EXISTS and DEL are exact
rests on `DeadlineHasKey`: a key is stored when it is visible or its deadline has passed.

**ServerProofs.** `KVStoreProofs` is instanced twice, for the two stores; the inductive
invariant is both their invariants and `DeadlinesBelong`. Each action is looked at as what
it does to the searches of both stores: a command on its key, the deletes of a scan's
callback on the expired keys, a rehash step on none. `KeysAreSafe` needs one more fact, that
what the callback deletes was not visible before.

**OwnershipProofs.** A *place* is one of the four pointers a key may have (key and value
in each store). The invariant is type correctness, `OwnedOnce` (what is in a place is
allocated, and in no other place) and that a deadline belongs to a stored key, without which
a SET EX of a new key could drop the pointers of a stale deadline. For the frees the
lemmas show that what a command frees is held by it alone (`BothFreed`, `DeadlineFreed`).

**ConnectionsProofs.** The invariant is type correctness, `KernelAgrees`, `ListenerWaits`,
`Paired` (descriptors and clients point at each other), `Placed` (the i-th client accepted
is at place i of the list) and `BatchCurrent`: an entry of the batch that waits names a
descriptor registered for its event, and no descriptor is in a batch twice. The last is
what survives a close in the middle of a batch: the descriptor that is closed is at the
head, and a number that is handed out anew was not registered and is in no waiting entry.

**ReadHandlerProofs.** The model parses bytes; the invariant says which bytes they are. It
relates the unread bytes (`Follows`, `Synced`: the buffer from the parser's position and the
network) to the encoding of the current request and the next one without their first `p`
bytes, and the state of the parser with its arguments to what those `p` bytes are
(`AtArray`, `AtArraySize`, ... `AtDone`). `EncodedHasLayout` gives the position of each argument
in an encoded request. There is no assumption on `MaxInFlight`: what is inductive is
`~crowded => IInv`, as `crowded` never becomes false again (`CrowdedStays`). With a third
request under way the position is added up wrongly, which the run `three_in_a_read` shows, so
`InBounds`, `ExecutedAsSent`, `NothingLost` and `ServerStaysUp` are claimed until then only.
`NothingLost` and `ServerStaysUp` are, besides, about regular requests; the invariant holds for the
others, too, with the byte that is eaten (`Disturbed`). `AnsweredBetweenCommands` is claimed for
every client and has a small invariant of its own (`BetweenRequests`).

**ClientBuffersProofs.** The query buffer: while an argument is read, `argRemaining` and the
unparsed bytes together are at least what it lacks. `argRemaining` alone is stale as soon as a
byte has been copied; with the bytes in the buffer the sum can only be too large.

The reply list: `ReplyInv` conjoins `ReplyTypeOK`, `Ascending` (addresses grow along the list,
so that it ends), `Sound` (a listed block leads to listed blocks only, and to an allocation
that holds its bytes), and, of a list that no write has cut, `Whole` (consecutive blocks, each
with a chunk of its own from its first byte on) and `NothingElse` (no block and no bytes but
those of the list are allocated, hence only orphans when it is empty), with `NotYetWritten` and
where `replyRemaining` points. `NotYetWritten` alone compares bytes with a history and says
nothing of where they are: `Sound` is why a cut moves no byte of the other blocks, `Whole` is
why an append leaves the earlier bytes alone and why a reset frees all there is.
`FirstUnwritten` and `BytesFrom` are recursive along the list; that their equations have
solutions is proved (`BlocksExist`, `BytesExist`, `WalkExists`), by induction on the address
from the last one down. `Walked` says what the walk of the write handler returns, namely the
block and the offset of the first byte that `writev` did not take, and `MoreBytes` and
`CutPreserves` what appending and cutting do to the bytes listed.

Induction. The library's induction theorems take an operator, which the installed provers
cannot instantiate. `LeastNatural` derives the least element of a set of numbers from the
well-foundedness of finite sets under inclusion, and `Induction` the principle for a *set* of
numbers, which is enough for lemmas such as `PowerGrows`, `HighestClearExists`, `LoopExists`
and `FlattenExists`. `Power` gets by without it: 2^n is the number of subsets of a set of n.

Only model-checked:

* Every liveness property (`RehashEnds`, `LoadRelieved`, `PassEnds`, `ExpiredIsCollected`,
  `AllAnswered`, `AllDelivered`, `RehashesEnd`, `ShutdownEnds`, `SilentReleases`): TLAPS has no
  rules for fairness and ENABLED.
* What the code does not keep: the three runs that expect a violation.

## 5. Not modelled, and why

* The limits of 512 arguments and 1024 blocks of a `writev`, 1024 entries of the list of
  clients, and descriptors beyond the 512 of the event loop: the code does not look at
  them, and beyond them its behaviour is undefined.
* A client that stops in the middle of a request: `Send` appends a whole one, so a read that
  ends in the middle is always completed. Bytes the protocol does not allow are not sent.
  An answer that waits for the rest of a request behind it (`archke_event_handlers.c:108`), and
  the exit behind a refused byte (`archke_server.c:405`), can therefore not be told from the
  runs' properties, though `Incomplete` and `UnknownState` are in the model.
* The order of a chain, and with it the node that the scan reads after its callback has
  freed it (see `KVScan`).
* The uninitialised head of the list of timers (`archke_event_loop_epoll.c:96`): start-up
  code that runs once. `Server` has the one timer `main` registers.
* Freeing: `rchkEventLoopFree` and `rchkServerSocketClose` at the end of `main` are not
  reached, `rchkKVStoreFree` is for tests and failed starts.
* The hash function (a constant), socket wrappers (their results are choices of the
  handlers' models), logging, ECHO (no state).

## 6. Plan

Done, in this order: `KVMap`, `KVStore` and its proofs; the scan; `TTLMap`, `Keyspace`
and its proofs; `ReadHandler`; `ReplyWriter`; `Connections`; `Server`; `QueryBuffer` and its
proofs; `Ownership`; kqueue in `Connections`; the proofs of `Connections`, `Ownership`,
`Server`, `ReadHandler`, `KVScan`, `ReplyWriter` and of the bit operations of the scan.

Next:

1. `Client`: the composition of `ReadHandler` and `ReplyWriter`, for the length of the reply
   list under pipelining.
2. `KVChains`: chains as sequences with their nodes on a heap, implementing `KVStore`.
