# a-sync: TLA+ models and proofs

a-sync is a Syncthing client in Java: it finds devices, connects to them with
the block exchange protocol (BEP), acquires their file index, and downloads and
uploads files block by block. This directory models the parts of it that are
hard to test, checks them with TLC on small instances, and proves their safety
properties with TLAPS for every instance.

Source paths below are relative to `src/`; class names identify the file.
`PROJECT.json` maps every definition of the modules to the lines it models.

## The system

| component | state | operations | hard behaviour |
|---|---|---|---|
| `BlockExchangeConnectionHandler` (BEP connection) | socket, `clusterConfigInfo`, `isClosed`, `isConnected`, executors for sending, receiving, and processing messages | `connect`, `sendMessage`, receiver loop, message handlers, `close` | messages are processed in a cached thread pool, so in any order; the ClusterConfig is published before it is filled; close from several threads |
| `IndexHandler` (index) | queue of messages, folder infos, locks; index info and records in the repository | index message handling, `updateIndexInfo`, `addRecord`, `clearIndex`, `waitForRemoteIndexAquired` | reordered messages, failing messages, restarts, timeouts against late answers |
| `BlockPuller` | missing hashes, blocks, request ids, error | `pullBlocks`, response handler, `waitForComplete`, `getInputStream`, `close` | wakeups, readers without lock, repeated blocks, errors, lost connection |
| `BlockPusher` | sent blocks, completed flag, upload error, version and sequence | `pushFile`, `pushDir`, `pushDelete`, request handler, completion by the returning index record, `close` | wakeups, errors seen late, answers after close |
| `SqlRepository` | tables `file_info`, `file_blocks`, `folder_stats`, `folder_index_info`, `index_sequence`, `temporary_data`; caches; sequencer | updates, queries, `clearIndex`, temporary data, sequencer | statements without transactions, caches filled without lock, crashes |
| `HttpRelayConnection`, `RelaySessionConnection`, `HttpRelayServer` (HTTP relay tunnel) | output buffer, sequence numbers, incoming queue, session, temporary file | write, flush, chunk exchange, poll, read, close | failing exchanges, concurrent closes, the end of a session |
| `SyncthingClient` | connections, pool | `openConnection`, `getConnectionForFolder`, push and pull of files, `close` | close against connections in progress, restart for a new folder |
| `IndexBrowser`, `IndexFinder`, `FolderBrowser` | caches, preload jobs, the running query | navigation, preload, search, statistics | stale caches, jobs that fail, waits without end |
| `DiscoveryHandler`, `DeviceAddressSupplier`, `AddressRanker`, `DevicesHandler` | known addresses, ranking queue, device status | discovery events, ranking, iteration over addresses | end of the iteration against late answers, lost updates |
| `FileBlockCache` | files of a directory and their total size | push, pull, touch, cleanup, clear | one writer thread, readers beside it |
| `ConfigurationService` | properties, dirty flag | edits, `persistLater`, `persistNow` | edits while persisting |
| `RelayClient`, `GlobalDiscoveryHandler`, `LocalDiscorveryHandler`, `KeystoreHandler`, `HttpRelayClient` | none that lasts | protocol exchanges, key storage | network and cryptography |

The interactions that matter: the connection's message pool posts events on the
connection's event bus; `IndexHandler`, `BlockPuller`, `BlockPusher` and
`SyncthingClient` subscribe to it. `IndexHandler` writes to the repository and
posts events of its own, to `BlockPusher` and the browsers. An HTTP relay is one
of the sockets a BEP connection can run on. Subscribers are called in the
posting thread, and Guava calls one subscriber method one event at a time; the
`AsyncEventBus` of `IndexFinder` calls them in a pool of threads.

## Modules

| module | models |
|---|---|
| `IndexSync` | from the receiver of a BEP connection to the repository: ClusterConfig, index messages in the pool, the queue of the index processor, index info and records, `waitForRemoteIndexAquired`, `clearIndex`, restarts |
| `MCIndexSync` | instances of `IndexSync` |
| `BlockPull`, `MCBlockPull` | one `BlockPuller` download and the threads that wait for it |
| `BlockPush`, `MCBlockPush` | one `BlockPusher` upload: requests, responses and their monitor, completion by a record of the file, close |
| `ByteStream` | what one direction of a connection promises: an abstract FIFO stream of bytes |
| `HttpRelay` | one session of the HTTP relay tunnel, client and server, shown to implement `ByteStream` in both directions |
| `Connection`, `MCConnection` | the life of a BEP connection: connect, sends, the receiver, concurrent closes; `SyncthingClient.openConnection` and its restart for a new folder |
| `Repository`, `MCRepository` | the records and statistics of a folder in `SqlRepository`, statement by statement, and a `FolderBrowser` that shows the statistics |
| `Sequencer`, `MCSequencer` | the local index id and its sequence numbers in `SqlRepository`, with uploads, announcements, `clearIndex` and restarts |
| `Discovery`, `MCDiscovery` | `DiscoveryHandler`, `DeviceAddressSupplier` and `SyncthingClient.getConnectionForFolder` over it |
| `IndexBrowser` | the caches and preload jobs of `IndexBrowser` beside the writer of records |
| `IndexFinder`, `MCIndexFinder` | the searches of `IndexFinder` |
| `IndexSyncProofs`, `BlockPullProofs`, `HttpRelayProofs`, `RepositoryProofs`, `DiscoveryProofs`, `ConnectionProofs` | theorems about the module of their name |
| `UploadProofs` | theorems about `BlockPush` and `Sequencer` |
| `IndexReaderProofs` | theorems about `IndexBrowser` and `IndexFinder` |

### IndexSync

Each variable stands for one piece of the program's state: `conn` is the
progress of the ClusterConfig exchange, `known` the folders already in
`ClusterConfigInfo`, `pool` the messages handed to `messageProcessingService`,
`queue`, `stage` and `pos` the single thread of `IndexMessageProcessor`, `info`
and `store` the tables of index infos and file records, `tempOk` the presence of
`temporary_data`, `waiter` and `quiet` the threads in
`waitForRemoteIndexAquired` and whether `markActive` was called since they began
to wait. `handled`, `lost` and `failed` are history variables.

* The peer is external: it publishes the records of its index in sequence order,
  starting after the sequence that our ClusterConfig announced (`start`) when it
  has the same index id. It may send any number of them in each message, also
  none in the first.
* A message is handled by the pool in any order (`HandleIndexMessage`), also
  before the ClusterConfig. Whether it goes through `temporary_data` is decided
  by a counter that two threads change without synchronization, so both choices
  are allowed, at the push and at the pop.
* `UpdateSequence` ends the task of an empty message: the log statement at
  `IndexHandler.java:512` divides by its number of records.
* A record whose processing throws, or of an unsupported type, is one with
  `valid = FALSE`. A failing check of the folder statistics (see `Repository`)
  would come after the record was stored; it has the same effect on this model
  as success, since `sequence` advances in both cases.
* Not modelled: folder labels, a second ClusterConfig on one connection (the
  code closes it), folders announced but not shared with us.

### BlockPull

`PullBlocks` runs under the lock that the response handler needs, so it is one
action; `HandleResponse` and `StoreBlock` are two, because `isCompleted` and
`getInputStream` take no lock and see the state between
`missingHashes.remove` and `blocksByHash.put`. A response carries the hash of
its data: the code does not compare it with the block that was requested. There
is one waiting thread per download, as in the callers (`Main` and `HttpService`
call `waitForComplete` on the thread that asked for the file). Request ids are
taken to be distinct; they are random 31-bit numbers.

### BlockPush

The observer of one `pushFile`, with the user's loop around
`waitForProgressUpdate`. Requests come from the connection's pool, in any order,
and the event bus calls the listener for one at a time. `AnswerRequest` and
`MonitorResponse` are two actions, because `close()` may shut down the executor
between them. The three threads that assign `sentBlocks`, `uploadError` or
`isCompleted` (the monitor's tasks, the request listener, the index listener)
call `notifyAll` in a step of its own, `Notify`; `notifying` holds those that are
in between. `getBlock` only compares the hash of the range that the request
names, so the peer is given any range whose hash it knows: `Block` are the
hashes of the file's blocks, `Piece` those of other ranges, `Foreign` those of
none. A range that is no block is counted in `sentBlocks` too, so `getProgress`
may go beyond 1. Index records of the path come from any device, because the
index handler serves all connections: with another content ("old"), with the
content of the file from the peer, which sends it once it has all the blocks
("new"), or with that content from another device, at any time ("copy"). One is
under way at a time (`MaxRecords`); the listener keeps nothing between two but
`isCompleted`, which stays. `PushFile` sends the index update; its version vector, and the
sequencer it comes from, are not part of this module.

### HttpRelay

The client's writer, flusher thread, poll loop, reader and closing threads, and
the session's reader and HTTP handlers. The n-th byte of a direction is the
number n, so order, gaps and repetitions are visible. Sequence numbers are
counted modulo `SeqWidth`; the code's are longs, which never come round. Those
of the client and the server may come to differ by more than one, because the
client counts a chunk whose exchange failed, so `SeqWidth` is assumed to be
larger than `MaxBytes`: no run of the model has as many chunks as numbers. An HTTP
exchange may fail before or after the server handled it; the HTTP client does
not repeat a POST. Closing is split where the code can be interrupted: the test of `isClosed`, its
assignment, the flush, PEER_CLOSING, the shutdown and STREAM_CLOSED.

### Repository

`updateFileInfo` is a sequence of statements without a transaction; each is an
action (`stage`), and `Restart` may come between any two. All writers hold
`IndexHandler.writeAccessLock`, so there is one `job`. `findAllFolderStats` is
called without that lock by a new `FolderBrowser` and is split into the query
and the filling of the cache. `blocks` holds the modification time of the record
the blocks came from. The size and the time of the last update of the statistics
follow the same arithmetic as the counts and are left out.

A `FolderBrowser` registers for `FolderStatsUpdatedEvent`, reads all statistics
and only then shows them (`browser`, `snapshot`, `shown`). `heard` remembers an
event between the read and the show, and `behind` that the snapshot was put over
it, or that `clearIndex`, which posts no event, went by.

### Connection

`caller` is the thread in `openConnection`, and `at` the connection it works on;
everything else is kept per connection, because the threads of the first one go
on after the restart. `queue` holds the tasks of `outExecutorService`,
`receiver` is the loop of `inExecutorService`, `pool` the messages in
`messageProcessingService`, `cc` and `known` are `clusterConfigInfo`: the field
is assigned, then filled folder by folder, then the event is posted. `closer`
has the caller's thread and one background thread for all failures of a
connection; both may pass the test of `isClosed` before one assigns it. The
assignment and the shutdown of the executors are one action, and so are the
closing of the streams and the event. Tasks submitted before the shutdown still
run, on closed streams, where they fail.

The index exchange after the ClusterConfig is in `IndexSync`; here an index
message is one more message to send. A message of the peer other than the
ClusterConfig only matters when it closes the connection ("fatal"). What is
written is compared with what was submitted: `accepted` and `wire` implement
`ByteStream`, with messages for bytes. `early` records that `connect` went on
before `clusterConfigInfo` was filled. A connection that is closed still fills
its `clusterConfigInfo`, and stores new folders in the configuration.

### Sequencer

`row` and `version` are the tables `index_sequence` and `version`, `making` the
thread in `checkDb` or `clearIndex`. Sequencer objects are numbered in the order
they are made; `loaded` is what each has in memory. The field `sequencer` is
neither volatile nor read under a lock, so an upload may hold any object of this
run of the program, and `connect`, which calls `getSequencer()` twice, two of
them. A number is written to the table before it is in memory, both under the
object's lock, so `NextSequence` is one action; `Stop` may come between any two.
The random index ids are taken to be distinct.

### Discovery

`task` is the task of each source of addresses: it drops known addresses, tests
the rest (any subset survives, in any order) and puts them one by one, into the
map, the repository and the event bus. A user has a supplier of its own; its
constructor holds `queueLock`, which the listener needs. The priority queue is a
bag of addresses: the score of an address is the time its test took, so any
address may come first. A connection attempt succeeds, fails, or meets a peer
that accepts the socket and says nothing (`ConnectBlocks`): `connect` has no
timeout then, neither for the Hello nor for the ClusterConfig
(`BlockExchangeConnectionHandler.java:239-241`), and goes on only when the
connection is cut (`ConnectionCut`). What else happens in an attempt is in
`Connection`. The iterator of `getAllWorkingDeviceAddresses` may throw
when a task changes the map (`AddKnownThrows`).

### IndexBrowser

The folder is the root with one directory, whose record the writer replaces or
deletes; `fileInfoCache` of the directory and `listFolderCache` of the root hold
its record, or a version of it. The caches are Guava's: a load is started by one
thread, others wait for it, an invalidation takes it out of the cache, and what
it has read is stored when it ends unless another value or load is there. `lock`
is `preloadJobsLock` between the reads of `currentPath`, which the user's thread
changes without the lock. The listing of the directory itself is not kept:
nothing in it could be told apart. There is one user thread;
`isCacheReadyAfterALittleWait` only waits, `setOrdering` sorts what is cached,
and the expiry after ten minutes only makes values absent.

### IndexFinder

Each `Searcher` is a thread that calls `doSearch` or `submitSearch` once; its
query goes by its name. `query` is what became of it, `events` the results that
are still to be given to a listener, each by a thread of its own. A thread whose
query the closed executor rejects leaves its listener registered (`thrown`), and
a result that still comes to it wakes nobody. The index is a
counter: a result carries the number of changes its count saw.

## Runs

| run | module, cfg | shows |
|---|---|---|
| `index_delta` | `MCIndexSync`, `IndexSync_delta.cfg` | one device over two connections, a log whose second record is older than the first, a backlog of two messages, one clear or restart: records keep the newest version, the delta index never skips a record that is not accounted for, and no sequence is forgotten |
| `index_wait` | `MCIndexSync`, `IndexSync_wait.cfg` | two devices share a folder: everything received is processed, and the waiting thread gets an answer |
| `block_download` | `MCBlockPull`, `BlockPull_download.cfg` | a file with a repeated block, any answers, any cached subset: blocks are partitioned into missing, moving and present, a missing block has a request, and a sleeping thread is woken |
| `block_push` | `MCBlockPush`, `BlockPush_upload.cfg` | a file of two blocks of which the peer has any, two requests for blocks, for another range or for what the file does not have, records of the former content, of the peer and of another device: what completes is held by the peer or was completed by another device's record, the progress counts ranges that were sent, requests are answered once, the waiting thread ends with the upload |
| `relay` | `HttpRelay`, `HttpRelay_relay.cfg` | two bytes, in one direction or one each way: both directions implement `ByteStream`, nothing is lost until somebody closes; what is written arrives, close releases the reader and ends the session |
| `connection_open` | `MCConnection`, `Connection_open.cfg` | a peer that shares two folders, both new to the client, two connections one after the other, one of which may be cut: the connection that is returned announced every folder, is listed while open, and messages are written in order without gaps |
| `connection_live` | `MCConnection`, `Connection_live.cfg` | one connection, closed by its user, a failure or a message: `connect` is woken, every send is answered, the socket is closed and the event posted |
| `repository_stats` | `MCRepository`, `Repository_stats.cfg` | two paths, all pairs of records with two times, two restarts or clears, a browser opened and closed: blocks cover their record, statistics are exact, the browser shows them |
| `sequencer` | `MCSequencer`, `Sequencer_count.cfg` | two uploads, three numbers, tables made twice, two stops: the numbers of an index id grow, an announced sequence covers them |
| `discovery` | `MCDiscovery`, `Discovery_find.cfg` | a user, two devices with three addresses, two sources, attempts that succeed, fail or block: no address is missed, no device connected twice, the user gets an answer unless a silent peer blocks it for good |
| `index_browser` | `IndexBrowser`, `IndexBrowser_browse.cfg` | two records written while a user navigates three times: cached values are fresh, jobs have tasks, a waiting user is released |
| `index_finder` | `MCIndexFinder`, `IndexFinder_search.cfg` | three searches, two for one term, a change of the index: answers are of their term and fresh, a search that is not dropped returns |

### Bounds

Two connections and two messages are what reordering and delta indexes need:
the second connection starts from the sequence the first one left. A log of two
records gives an older record after a newer one and a message boundary between
them. `MaxResets = 1` places one clear or restart anywhere. Three blocks with
one repetition give answers that are not needed any more. Two blocks and two
requests give an upload of which the peer has a part, one that it has from
before, and requests that are answered out of the order of their notifications
(1.4 million states). Two bytes in one
direction give two chunks in order, and a chunk of two; one byte each way gives
both directions at once; three sequence numbers are then enough. Two paths and two times
make records replace each other in all kinds (file, directory, deleted), and two
resets combine a torn update with a clear or a second stop. The two connections of
`connection_open` are what new folders need: the first learns of them, the
second announces them; two folders let a connection be replaced while only one
of them is in the configuration (3.4 million states). `MaxCuts = 1` cuts either at any point; `connection_live`
adds the messages that close a connection and a send by the user. Three numbers
and tables made twice let an upload that holds the first object count after the
second was made, and then a fresh one again; two starting sequences, 1 and 2,
make the numbers of two index ids overlap. Two addresses of one device and one of
another, from two sources, give duplicates, addresses that come before, during
and after the construction of the supplier, and a second device after the
first. Two writes give a load between two invalidations; three navigations go to
the directory, back, and there again. Three searches are a search that is
dropped, the one that drops it, and another for the same term. `CHECK_DEADLOCK
FALSE` is set where the scenario ends: a connection is used once, a closed
tunnel stops, and resets are bounded.

### Fairness

Weak fairness is only assumed of threads of the program and of time: executors
run what was submitted, a timed wait ends, threads that were notified run. Of
the peer it is assumed in `BlockPull` only, that it answers a request (with
data, other data, or an error), since nothing in the code limits this wait; in
`HttpRelay`, that an HTTP exchange ends, in success or failure. Users are never
assumed to write, read, close, clear, navigate or search. In `Discovery`, only
the users' threads are fair and the wait for an address ends after its timeout;
sources need not report, and a peer need not answer `connect`. In `BlockPush`,
the threads that handle, send, monitor and notify go on, and the peer need not
ask, take or publish anything. In `IndexBrowser`, the
listener, the executor's thread and a user within `navigateToAbsolutePath` go
on; `IndexFinder` assumes the same of its executors and of a thread within
`doSearch`. `Sequencer` and `Repository` state safety only. In `Connection`, nothing at all is
assumed of the peer: the receiver and the handshake need no fairness.

## Known limits

No run of this project expects a violation. Three checks of the code can fail
although nothing is wrong with what they check; the models allow it:

* `waitForRemoteIndexAquired` can fail with "timeout reached" while the index is
  complete: nobody notifies it when the ClusterConfig is handled, or after an
  empty Index message (the division at `IndexHandler.java:512`), and after the
  wait the activity is checked (133) before the condition (131). `Timeout` of
  `IndexSync`.
* `getInputStream` can pass its check (`BlockPuller.java:154`) while the last
  block is not yet readable, between lines 94 and 95: `brokenStream` of
  `GetInputStream` in `BlockPull`.
* A stop between two statements of `updateFileInfo` leaves statistics that a
  later delete takes below zero; the check at `SqlRepository.java:712` then
  fails for every further record of this kind. `StatsCheck` in `Repository`.

Others, which the passing properties state as exceptions, because the code
makes no promise there: a thread that waits for a download whose connection is
lost, or that misses the last notify between its test and its wait, waits for
ever (`BlockPuller.java:141-150`); data the session read and nobody polled is
dropped when the session ends; an Index message that is processed before the
ClusterConfig fails (`IndexHandler.java:208`) and its sequence is not recorded,
so the next delta index repeats its records.

`IndexSync` also allows `waitForRemoteIndexAquired` to return while
`clusterConfigInfo` is published but not filled: "aquired all indexes" is then
logged at once. In `Connection`: `connect` may go on while `clusterConfigInfo` is still empty
(`early`), and then neither sends its Index messages nor sees a new folder; if
another folder makes it restart, a folder that its thread adds to the
configuration later is taken by the next connection as one that was known, and
is announced on neither if it comes after the second ClusterConfig was sent; a
connection that is closed between the end of `connect` and
`connections.add` stays in the list. In `BlockPush`: the wait is unconditional,
so a `notifyAll` that comes before it is lost (`missed`); any record with the
folder, path and hash of the file completes the upload
(`BlockPusher.java:191-200` tests no device), so another device that has the same
content completes it although the peer has nothing (`elsewhere`); a lost connection
tells nobody (the second `sendMessage` throws out of the listener); between the
shutdown of the monitoring executor and the close of the connection a request
may get a second response, GENERIC; `close` writes the record to the local index
also when the upload failed.

In `Sequencer`: an upload or a connection that holds a sequencer which
`clearIndex` replaced counts with the old memory, over the row of the new index
id (`crossed`). In `Discovery`: an address whose `updateDeviceAddress` failed is
known but never announced to the suppliers that were there (`unposted`), the
copy of the map may throw, and a peer that accepts the connection and stays
silent blocks the user for as long as it likes (`blocked`). In `IndexBrowser`: a
preload that throws leaves its path in `preloadJobs` (`stuck`), and
`waitForCacheReady` may then never return; a load that read an old record may store it after the invalidation (`raced`). In
`IndexFinder`: a search whose query is dropped, fails, or is posted after `close`
waits for ever, and one may be answered by a query for the same term that began
before it. In `FolderBrowser`: what was read may be shown over a newer event,
and `clearIndex` posts none (`behind`).

## Proofs

`IndexSyncProofs` proves, for all values of the constants that satisfy
`ConstantsAssumption`:

* `TypeCorrect`: `Spec => []TypeOK`.
* `Invariance`: `Spec => []IInv`.
* `DeltaIndexIsComplete`: `Spec => []DeltaIndexComplete`.
* `NewestIsStored`: `Spec => []StoreIsNewest`, by `StoreMatches`, the same fact
  said record by record.
* `SequencesKept`: `Spec => []SequenceNotForgotten`, by `Kept`: until a clear or
  a restart the stored sequence only grows, so it still covers the start of each
  connection, the end of an empty message (which is that start: such a message
  records nothing), and the end of the message whose task is at its notify.

`DeltaIndexComplete` says that every record with a sequence up to the one our
ClusterConfig announces was handled, is in a message still to be processed, or
was lost in a known way. By itself it is not inductive: the announced sequence
is read from the index info, which the processor writes from the message it has
just gone through, which the peer chose to follow the one it had sent before.
`SequencesCovered` therefore says the same of each place where a sequence number
lives (announced, last sent, stored, end of a message), and `QueueOK` says that
the processor's position covers the records behind it. The surprising point is
that reordering does no harm: a message may raise the stored sequence while an
earlier one is still in the pool, and that one is then accounted for by being in
the pool; if the program stops there, its records become `lost`, which is what
the restart does to them.

`UploadProofs` proves of `BlockPush`, for every file, any hashes a peer may ask
for and any number of requests (`BlockPushAssumption`):

* `Invariance`, `TypeCorrect`: `Spec => []IInv`, `Spec => []TypeOK`.
* `UploadIsHeld`, `AnsweredOnce`, `ProgressIsTrue`: the invariants
  `UploadedIsHeld`, `OneResponse` and `ProgressIsSent`.

`UploadIsHeld` has the exception the code has: an upload that the record of
another device completed says nothing of the peer. `TypeOK` alone is not
inductive: that the progress counts ranges of the
file depends on what was answered. `IInv` adds where each request is (in the
pool, in the listener before or after its response, or gone) with the responses
it can have there, that a response carries a range which the peer has once it is
sent, and that a record of the file which the peer sent means that it has all the
blocks.

The other modules prove invariants that need less, and nothing is assumed but
the assumption on the constants that each module names:

* `BlockPullProofs`: `Partitioned` and `NoneForgotten`, together with `TypeOK`
  and `IdleOK`, nothing is held or asked for before `pullBlocks`. They need each
  other: an answer may take a hash out of `missingHashes` only because the two
  other places do not hold it.
* `HttpRelayProofs`: `OutwardComplete` and `InwardComplete`, of a connection that
  nobody closes, and the two refinements `OutwardIsStream` and `InwardIsStream`,
  also of one that is closed or whose exchanges fail: every step of the tunnel
  sends bytes, delivers the next ones, or does neither, so each direction
  implements `ByteStream`. `OutwardOK` says that what arrived is a prefix of what
  was written and, while client and server count alike, that the chunk being sent
  comes next, then the buffer. A chunk that is lost is counted by the client only:
  the numbers differ from then on, whatever is still flushed by threads that
  close, and nothing after the gap is accepted. That they do not come round is
  `ChunksOK`: a chunk has a byte at least, so there are no more chunks than
  `MaxBytes < SeqWidth`. Without that assumption on the constants the property is
  false, as TLC shows for `SeqWidth = 2` and three bytes. `InwardOK` says the same
  the other way, where the receiver stops at the first gap. `CloserOK` ties the
  thread that flushes to its place in `close`.
* `RepositoryProofs`: `BlocksCover`, `StatsCounted`, `BrowserCurrent`. At each
  statement of an update the invariant says what the row lacks: the `Delta` of
  the update between the record and the statistics, nothing elsewhere; that a
  record changes the counts by its `Delta` is a lemma about cardinalities. For
  the blocks it says that the record on its way is newer than the one it
  replaces. For the browser it says what it holds between its read and its show.
* `UploadProofs`, of `Sequencer`: `NumbersGrow` and `AnnouncementCovers`. `Covered` says that
  a number is not below those taken under its id, of the row and of the object in
  use; other objects may be behind, and `crossed` has the ids they spoil. An id
  is never used again (`OldIds`), and the id of a ClusterConfig in the making is
  the one its object has (`AnnouncingOK`).
* `DiscoveryProofs`: `DeviceConnectedOnce`, `AddressesSupplied`, `FailedTried`.
  A supplier is registered before it reads the map, and an address is in the map
  before its event is posted; so each address is read, or heard of, or both.
  The last is an action property: what is true of a user at the step at which it
  gives up.
* `ConnectionProofs`: `ReturnedIsListed` and `FoldersAnnounced`. `RestartOK` says
  that a folder of the configuration was announced or asks for a restart,
  `FilledOK` that the ClusterConfigs of all earlier attempts were filled. That
  second part is why `NewFolderAnnounced` excludes `early` on every attempt and
  not on the last only: without it the invariant is not inductive, and with two
  new folders it is false.
  `MessagesInOrder` is the refinement of `ByteStream` by each connection: as long
  as a socket is intact, neither closed nor cut, what was accepted is what was
  written and the queue, put together (`QueueOK`); once it is not intact it never
  is again, and nothing is written. A task of the queue that fails is therefore
  the end of the stream and no gap in it.
* `IndexReaderProofs`, of `IndexBrowser`: `CachesAreFresh` and `NoJobIsForgotten`.
  `CacheFresh` says which cache the writer has still to clear at each place in
  `addRecord`: a cache that it has cleared holds the record, or nothing. `JobInv`
  counts a job that a thread has found, or removed to add it again, as one that
  is there: its task is on the way, because the task needs the lock. Of
  `IndexFinder`: `AnswersAreFresh`, an action property. Where a query has counted
  (`CountedIsFresh`), where its result is on the way (`EventIsFresh`) and where it
  was given to a thread (`WokenIsFresh`), it is no older than the call; the three
  hold together with `BegunBefore`, and `Registered` says that only threads that
  listen, or were rejected, have results on the way.

All safety properties and action properties of the runs are stated by a theorem.
Liveness is model-checked only: the provers do not reach `ENABLED` and fairness.
The type invariant `TypeOK` of a module, where it has one, is proved. In
`HttpRelay` it needs that the bytes which arrived are bytes of the stream
(`BytesOK`), and in `Connection` that a message which was submitted is in the
queue or its future is done, with a limit on the messages submitted that depends
on how far `connect` has come (`CountOK`). For `IndexBrowser` and `IndexFinder` the
types are `CacheType`, `JobInv` and `FinderType`, parts of the invariants that are
proved.

The proofs have one lemma per action or group of actions; in `IndexSyncProofs`
lemmas about `Covered` and `RecordsOf` carry most of it.

## Not modelled

TLS, key storage, global and local discovery protocols, relay protocol messages,
generated protobuf classes and the `main` programs: I/O or sequential code whose
state does not outlive a call. The scripts of the web client are jQuery, LESS and
Handlebars, third-party code, and a page of ten lines.

Of the components that are modelled in part: `pushDir` and `pushDelete`, which
send one index update and wait for its future; the merging of version vectors;
the search queries and the table of device addresses; the addresses that
`relay-httpUrl` adds to a device; `close` of `SyncthingClient` and of
`DiscoveryHandler`; the pool of connections, which stays empty because nothing
calls `returnToPool`.

`FileBlockCache` (its size against its directory), `ConfigurationService` and
`DevicesHandler` have no module yet.

## Plan

1. `IndexSync` and `BlockPush` with their proofs, `BlockPull`, `HttpRelay` with
   `ByteStream`, `Repository`, `Connection`, `Sequencer`, `Discovery`,
   `IndexBrowser`, `IndexFinder`: done.
2. `BlockCache`: writer thread, readers, cleanup, clear.
3. `Configuration` and `Devices`: the dirty flag, updates of the device status.
4. Abstract specifications of a download and of an upload, and the theorems that
   `BlockPull` and `BlockPush` implement them.
