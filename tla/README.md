# Verification of libbitcoin-server

TLA+ models of the stateful parts of libbitcoin-server, model-checked with TLC,
with theorems checked by TLAPS. Paths are relative to the repository.

## The system

A `server_node` (src/server_node.cpp) is a full node that starts ten sessions
one after another: admin, native, bitcoind, btcd, electrum, sparrow, esplora,
stratum v1 and v2, and bitcoind zmq. A session accepts connections; each makes
a channel to which the session attaches a list of protocols
(sessions/sessions.hpp). The parts that hold state are the channels and
protocols.

Concurrency is the same everywhere:

* a channel has a *strand*: request handlers and everything sent with `POST`
  run on it one at a time, and all sends are made from it;
* electrum, sparrow and btcd protocols have a second, *notification strand*
  (`POST_NOTIFY`), which owns the subscriptions and makes the long queries;
* the node raises *chase events* on a thread of its own, which run
  `handle_chase` of each protocol: it reads atomics and posts;
* a *gate* keeps the channel from reading the next request while one is worked
  on elsewhere.

The network, node and database libraries are outside the repository. They are
modelled by how src/ uses them and marked external in the map.

### Inventory

| Part | Modules | State |
| --- | --- | --- |
| electrum handshake | ElectrumHandshake | modelled |
| electrum address subscriptions | ElectrumSubscribe | modelled |
| electrum outpoint, header and height subscriptions | ElectrumOutpoint | modelled, over the handshake |
| electrum query methods | ElectrumQuery | every method; banner, features and key conversion not |
| sparrow silent payments | SparrowSilent | subscriptions modelled, parsing not |
| bitcoind zmq publisher | ZmqPublisher | modelled |
| admin log and event subscriptions | AdminFilter | filters modelled, targets not |
| rpc dispatch (bitcoind, btcd, electrum) | RpcDispatch, RpcService | modelled |
| bitcoind block waits | BitcoindWait | modelled |
| bitcoind methods and REST | BitcoindBlockchain, BitcoindTransaction, BitcoindNetwork, BitcoindNode, BitcoindRest | modelled, getzmqnotifications excepted |
| btcd filter and notifications | BtcdFilter | watches and matching modelled; notification of new transactions not |
| btcd query methods | BtcdQuery | modelled |
| native interface | NativeQuery, NativeSubscribe | methods and subscriptions modelled, target dispatch not |
| esplora interface | EsploraQuery | methods modelled, target dispatch not |
| node startup and console | Executor | life cycle modelled; diagnostics and service installation not |
| store (external) | Archive | the reads src/ makes of it |

What is left out, and why, is under *Not modelled*.

## Modules

Each module names the code's functions in its actions. `MC*` modules give the
constants their values. `*_proof` modules hold theorems. Definitions that end a
name with a suffix and are marked "Mutant" are plausible bugs of the code: each
property is shown to fail with one of them in place of the definition it
distorts.

**ElectrumSubscribe** (protocol_electrum.cpp, protocol_electrum_subscribe.cpp).
`jobs` is the queue of the notification strand, `posts` that of the channel
strand, `events` that of the event thread. do_scripthash_subscribe is two steps
because the flag `subscribed_address_` is stored after the history is read, and
handle_chase may run between. A status is what the sha256 tells apart: the
confirmed entries absorbed by the midstate, and the unconfirmed. `view` is what
the client was told, `lost` the events handle_chase withheld from a key.

**ElectrumHandshake** (protocol_electrum_version.cpp, electrum_version.cpp,
session_handshake.hpp). The handshake protocol holds the session's handler; the
session attaches the electrum protocol and resumes the channel when it is
called. Versions are numbers (1.4.2 is 10402), and negotiation is modelled as
the code computes it.

**ElectrumOutpoint** (protocol_electrum_outpoints.cpp, _headers.cpp,
protocol_electrum.cpp). Extends ElectrumHandshake: a channel shakes hands, and
the version it settles on decides which subscriptions it may make. Outpoint
subscriptions belong to the notification strand, header and height
subscriptions to the channel strand. An outpoint history is two reads (the
confirmation of the output, its spenders) that a reorganization may separate.
The channel is over http or full duplex, and may be upgraded between requests:
until it is, handle_chase posts nothing and a notification is not sent (`duplex`,
`Upgrade`). `view` is what a client knows that applies the differences it is
sent. `lost` and `missed` are the subscriptions from which handle_chase withheld
an event, until a scan or a notification makes up for it; `diverged` are those
whose answer is not the entry that is kept.

**ZmqPublisher** (protocol_bitcoind_zmq.cpp). Several channels and the two
demand counters they share. Sequence numbers wrap at `Modulus` (2^32 in the
code; small in the run so that they do wrap, any positive number in the proofs).

**AdminFilter** (protocol_admin.cpp). One atomic word of filter bits and a
sentinel, written by the channel strand and, with a compare-exchange, by the
log's strand. Load and compare-exchange are separate steps.

**RpcDispatch** and **RpcService** (protocol_rpc.hpp, protocol_bitcoind.cpp,
protocol_bitcoind_dispatch.cpp, protocol_bitcoind_rest.cpp, protocol_btcd.cpp,
sessions.hpp). RpcService is the abstract promise: each request taken is
answered once under its own identity, unless it is silent or the channel ends;
it need not be answered while it awaits an event that may never come. RpcDispatch
is the chain of protocols that are offered a request in order of
attachment, with the claim latch, the cached identity and authentication. It
implements RpcService under a refinement mapping (`OneAnswerEach`), where the
handler of a wait for a block with no timeout (`Untimed`) awaits an event. A
request is received once the one before it is settled, which is the network
library's part (see *Not modelled*).

**BitcoindWait** (protocol_bitcoind_blockchain.cpp). waitfornewblock,
waitforblock and waitforblockheight: the test of the chain and the storing of
the waiter are separate steps; events, the timer and the cancel of the timer
are posted to the strand.

**SparrowSilent** (protocol_sparrow.cpp). Subscriptions scanned to the frontier
of an append-only table by coalesced jobs, in pages. do_silent_subscribe is
three steps (cursor, flag and answer, scan), do_silent two (mark, scan).

**BtcdFilter** (protocol_btcd_filter.cpp, handle_chase of protocol_btcd.cpp).
The four watch maps are functions with the watched keys as their domain. The
loops of the requests take one key a step; do_connected is a step for each of
match_filters and match_receives, one for each output that arms a spent watch,
and one for match_spends with the post that ends it. Each step reads the chain
as it is by then. A walk that is over the limit fails and leaves its cursor. A
request inserts a legacy watch and sets `watching_legacy_` in one step, although
the code has two: an event between them is dropped, as if it came before both.

**Archive** and the query modules. Archive is the store, which is external: a
*snapshot* has the confirmed and the candidate chain, the blocks with their
transactions and the pool, and an operator for each read that src/ makes. In
BitcoindBlockchain, BitcoindRest, BitcoindTransaction, BitcoindNetwork,
BitcoindNode, ElectrumQuery, EsploraQuery, NativeQuery and BtcdQuery each
handler of the code is an operator `handle_x(q, A)`: its answer to request `q`
when its i-th read is made of snapshot `A[i]`. Guards and early returns are in
the order of the code. A handler that submits to the node returns `Pending`, and
`complete_x(q, v, A)` is its completion with the verdict `v` of the node.

**NativeSubscribe** (protocol_native*.cpp). The subscriptions to the top, to
blocks and to transactions, and handle_chase of the native protocol. The media
of a subscription is stored whatever the transport, while events are posted only
over a websocket: `withheld` has the topics of events that were not posted.

**Queries** composes them: a client asks any method of any interface while the
node confirms, disconnects, associates and pools, and peers come and go.
`window` is the sequence of snapshots since the request. To answer, the model
chooses how many reads fell before each change, which covers every
interleaving of a handler with the node without a program counter in each
handler. NativeSubscribe runs on the same chain.

**Executor** (console/, server_node.cpp). The process over a store that
survives it: commands, opening, restoring and creating the store, the start of
the node and its ten sessions, signals, the poller, hot backup from the
console, status reports to systemd or windows, and the end. A crash may come
between any two steps and leaves the tables torn under the flush lock.

## Runs

| Run | Bounds | Shows |
| --- | --- | --- |
| electrum_subscribe | http then websocket, at any time; 2 keys at a limit of 1, 1 transaction, 2 blocks, 1 disconnect, 2 requests | the flag, the midstate, order of answers and notifications, one continuation of the channel, status at rest, every request completes |
| electrum_upgrade_stale | as above | violation, see findings |
| electrum_channel | versions 1.0 to 1.7 with undefined ones; full duplex, or http with an upgrade at any time; an outpoint, its funder and spender, limits of 1 and 2, 2 blocks, 1 disconnect, 3 requests | the handshake completes once and ends, the version is within bounds and fixed, what the client of each subscription knows at rest, notifications within their subscription |
| zmq_publisher | 2 channels, limit 2, 4 inputs (requests, events, broadcasts) in any mix, modulus 2 | demand counters balance; numbering, order and completeness of what is published |
| admin_filter | 2 bits, 4 requests, 3 messages | one handler to a sentinel, last filter prevails, each message once and in order |
| dispatch | the chains of the bitcoind, btcd and electrum sessions, 6 methods of which one waits with no timeout, 2 requests | refinement of RpcService; the first owner of a method handles it, and nothing is handled before authorization |
| bitcoind_wait | 3 blocks, 2 changes, 2 waits | one answer, no lost wake-up, timed waits end |
| bitcoind_wait_stop | as above | violation, see findings |
| sparrow_silent | 2 addresses at limits of 1 and 2, 3 rows, pages of 2, websocket or http then websocket | coalescing, completeness at rest of what was not withheld |
| btcd_filter | 1 address, a payment and its spend, 2 blocks organized with disconnections, limits of 2 watches and of 1 or 2 entries, 2 requests | one budget, the legacy flag, which matches are reported, every request answered |
| queries | 5 blocks in two branches, 8 transactions with a double spend, 2 keys, 3 peers, 5 starts, each method of each interface with edge parameters, 2 changes during a request | see below |
| server | 10 sessions, 3 supervisors, 5 commands, 3 starts of the program, 3 blocks | the node runs over a sound store only, an exit closes the store, ready is reported with all sessions served, a stop ends |

Two requests are enough for a request to meet the leftovers of the one before,
which is the depth of the hazards here; a second channel, key or address is
enough for one to disturb another. Two changes under a query are a
disconnection and the block that replaces it. Three starts are a crash, the
recovery and a crash of the recovery. Limits of subscriptions, watches, pages
and results are set so that they are hit. Not so `MaxHistory` of
electrum_subscribe: with one transaction no history is too large, a case that
ends in the same branch as the limit of subscriptions and that the theorems on
ElectrumSubscribe cover. electrum_channel was also checked with a second,
conflicting spender (11 million states). `MaxSize` stands for the largest size_t
and is small, so that a page of headers may overflow it. Every run that says
`CHECK_DEADLOCK FALSE` does so because clients and the node may stop making
requests and events.

Fairness is weak fairness of posted work only (the thread pool runs what is
posted), of completions of sends, of timers, and in RpcDispatch of handlers that
compute an answer or have the node decide. Nothing is assumed of clients, of
blocks or of stops: a handler that waits for a block with no timeout ("A zero
timeout waits indefinitely", protocol_bitcoind_blockchain.cpp:1991) need never
answer, and the fairness of RpcDispatch excludes it (`Waiting`). Executor has weak fairness of the network strand, the
poller, the log and a backup under way. Its main thread has strong fairness: it
is disabled while a hot backup holds the node, and an operator does not request
backups without end. Nobody needs to answer a prompt.

### What queries shows

* `OneMoment`: an answer is that of some single moment between request and
  answer. `Torn` lists the 47 methods that make no such promise. Without the
  exception TLC finds for 40 of them, in this run, an answer that mixes two
  chains, and for 5 (`getmempoolancestors`, `getmempooldescendants`, electrum
  `transaction.get` and `outpoint.get_status`, esplora `tx`) one that takes up
  to four changes; `getaddednodeinfo` and esplora `block/txs` share the
  code of others of the list. Examples: `getblock` and `getblockheader`
  (confirmations and next block are separate reads, so the null hash may be
  reported as nextblockhash after a reorganization), `getchaintips`,
  `gettxout`, `getmempoolentry`, REST `getutxos`, electrum
  `blockchain.block.headers` (headers and proof; the comment at
  protocol_electrum_headers.cpp:321 accepts it) and most of esplora, whose
  status and block are read apart. The scans (`gettxoutsetinfo` of the top or
  a height, `scanblocks`) pin a branch and keep the promise. `gettxoutsetinfo` by
  hash does not: the hash is turned into a height before the branch is pinned at
  that height (protocol_bitcoind_blockchain.cpp:705, :722), so after a
  reorganization between the two the answer is of another block than the one
  asked for. The other methods were also checked with three changes.
* `FaultOnlyIfMoved`: internal errors come only of such a change, so none is
  caused by the edges of a chain that stands still. `Reported` lists what the
  code reports with the code of a fault although it is none; one is the native
  `block` of a header without its block, which is an internal server error.
* `Agreement`: on one snapshot the interfaces tell a client the same.
* `SubmissionReported`: accepted means stored, refused means not in the pool.
* `CountedOnce`: getnettotals counts each channel once.
* `NativeCurrent`: a native subscriber of top or block ends with the last one.
  One that subscribes over http is not told of the blocks before its upgrade,
  nor told upon it: it ends with the last one from the first event that follows.

### Findings

* **electrum_upgrade_stale**: a reorganization during http is dropped, and the
  subscriptions of the connection are computed from the old branch after the
  upgrade (protocol_electrum.cpp:149-151).
* **bitcoind_wait_stop**: stopping resets `waiter_` but leaves its timer, which
  holds the waiter, against the comment at protocol_bitcoind_blockchain.cpp:2031.

### Other observations

Seen while the models were written; the models do as the code does.

* A sparrow resubscription by time of a subscription by height replaces its
  start (protocol_sparrow.cpp:222), against the comment at :202.
* A repeated electrum outpoint subscription is answered with the present history
  while `emplace` keeps the old entry (protocol_electrum_outpoints.cpp:161):
  differences that follow are from the old one. At the limit it is refused.
* A headers subscription reads the top before it stores its flag, a height
  subscription after (protocol_electrum_headers.cpp:376, :49). Only the first
  can miss a block in between, until the next. Over http both miss all blocks,
  and the upgrade does not make up for it: the next block does.
* Over http the answer to an outpoint subscription has the first spender only;
  the others are notifications (protocol_electrum_outpoints.cpp:192), which
  are dropped (channel_rpc.hpp:84). They are in the entry that is kept, so a
  later difference has them only if their heights change.
* A native subscription over http is stored and answered, but not notified
  (protocol_native.cpp:220), and is in force after an upgrade.
* Of the native subscriptions, output stores `stop` where address stores
  `!stop` (protocol_native_output.cpp:207, protocol_native_address.cpp:247).
* A failed cold backup from the command line returns without closing the store
  (executor_commands.cpp:102); the next run restores the previous snapshot. It is the
  exception in `CleanExit`.
* A crash between the creation of the directory and of the tables of a store
  leaves a path that each run refuses, until one is asked for a new store.
* The poller may report start pending after running, and stop pending after
  stopped: it tests a flag and reports afterwards (executor_daemon.cpp:561).
* Console capture starts before `node_` is assigned (executor_runner.cpp:172-178),
  so a command may read the pointer while the main thread writes it.

### Matches that are not reported

MatchesReported of BtcdFilter has conditions, which are what the code does not
cover. Each was seen to be needed: without it TLC finds a match that is lost.

* The node is ahead: two blocks are in the archive before do_connected of the
  first runs. Its walk moves the cursor past both and keeps the entries of its
  own height (protocol_btcd_filter.cpp:953-955); the second finds nothing new.
* A walk is over maximum_history: its error is ignored unless it is a
  cancellation, and its cursor does not move, so each later walk fails too.
* A disconnection is withheld by handle_chase, as neither notifyblocks nor a
  legacy watch is on (protocol_btcd.cpp:364), and do_disconnected does not run.
* An output is spent again at the same height of a new branch: spender sets,
  unlike cursors, are not reset (protocol_btcd_filter.cpp:818-823).

## Proofs

Eight modules hold theorems. They hold for every value of the constants that
the named assumptions admit: any keys, outpoints, channels, blocks, methods,
limits and number of steps.

**ElectrumSubscribe_proof**
* `FlagMatchesHeldTheorem`. `StrandInv`: the queued jobs are well formed and
  what a job in progress works on is held. Without these a job could bring in a
  key that is not one, and the limit could not be counted.
* `OneContinuationTheorem`. `GateInv`: the outstanding request is a job, the
  key being armed or an answer among the posts, in exactly one of the three, and
  in none when no request is outstanding.
* `NotifyOnlySubscribedTheorem`. `NotifyInv` reads the posts in order: behind
  the posts ahead of each notification the client subscribes its key, and behind
  all of them it subscribes each key that is held, unless its answer is yet to
  be posted. `StatusInv` tells a status from the mark of an absent subscription.

**ElectrumOutpoint_proof**
* `NegotiatesGreatestTheorem`, `NegotiatedWithinBoundsTheorem`,
  `VersionFixedTheorem`. negotiate is shown to return the greatest defined
  version in the overlap for all ranges; `NegotiationInv` adds that a channel
  whose handler is held has negotiated nothing it could repeat, since it is
  paused. They are stated of the handshake alone and of the handshake with the
  subscriptions that follow it.
* `HandlerOnceTheorem`. `HandlerInv`: the calls of the session's handler are none
  or one, and the handler is reset by the first.
* `HeaderCurrentAtRestTheorem`. At rest the queues are empty, so the invariant
  must speak of the queues while they are not. `LatestInv`: once no block is owed,
  the last organized event is the top of the chain; with none pending, the last
  post is; with none posted, what the client was told is, unless the event was
  withheld. `HalfInv`: before the upgrade no notification or scan is queued, so
  that none is dropped on its way. `TypeInv` types the queues. The lemmas on `Latest` and `None` say what a queue that gains or loses
  an entry keeps.

**ElectrumNotify_proof**, which extends it
* `OutpointNotifiedWhileSubscribedTheorem`. `OneInv` is the gate of an outpoint
  request and `NotifyInv` the order of the posts, as above.
* `OutpointCurrentAtRestTheorem`. In three parts. `HistoryInv`: what is stored of
  an outpoint are archived transactions that spend it, one entry to each. So
  the difference that notify_outpoint sends, applied by the client, gives exactly
  the history that was read (`DifferenceTold`). `ViewInv`: along the posts there
  is a trail of views that ends at what the strand stored. `CurrentInv`: once no
  event is pending and no scan is queued, what the strand stored is the present
  history, unless the scan in progress is yet to come to it.

**ZmqPublisher_proof**
* `DemandBalanceTheorem`. `DemandInv` adds the type of the topics. Subscribing
  and stopping change the cardinality of the subscribers of a topic by exactly
  what they change its counter.
* `NumberedInOrderTheorem`. `PublishInv` relates what was published to what is
  posted: each post is younger than all that was published of its topic and than
  the posts ahead of it, and the counter is the number of the next message.
* `SequenceCompleteTheorem`. `SequenceInv`: each event that a channel has seen
  since it subscribed is published or posted, unless it was raised while the
  chain was not current.

**RpcChannel_proof**, of RpcDispatch, AdminFilter and BitcoindWait
* `FirstOwnerHandlesTheorem`. `DispatchInv`: while the claim latch is clear the
  request is outstanding and is still to be offered to a protocol that answers;
  once it is set the request is settled, or its handler runs with its identity.
  `ChainAssumption` is how sessions.hpp composes a session: one answering
  protocol, attached last, and REST or btcd, if any, first.
* `OneAnswerEachTheorem`: `Spec => Service!ServiceSafety`. Each action of the
  dispatch, under `DispatchInv`, is a step of RpcService or leaves its state
  alone; the start of a handler is one if it waits with no timeout. This is the safety part of `OneAnswerEach`.
* `HandlerPerSentinelTheorem`, `FilterIsLastTheorem`. Both are needed together:
  the compare-exchange may clear the sentinel only if the word it read is still
  the last filter.
* `NotifiedOnceInOrderTheorem`. `OrderInv`: there is never a second handler,
  stopped or not, so a message passes one handler, and what was posted is older
  than the message in progress.
* `OneAnswerTheorem`, `NoLostWakeUpTheorem`. `WaiterInv` and `TimerInv` tie the
  waiter, its timer and the posted expiries to the request they were made for, so
  that the expiry of an earlier wait cannot answer a later one; `MetInv` says that
  no wait is answered before it is met, and `WakeInv` that an event is raised or
  posted for each wait that was met after its test, before it is armed as well as
  while it is.

**Executor_proof**
* `NodeOverSoundStoreTheorem`, `CleanExitTheorem`, `ReadyWhenServedTheorem`, for
  any number of sessions, starts and blocks. `StoreInv` says at which points of
  the main thread the store is open or closed, that an open one is locked and
  sound, and that torn tables are always under the lock; `NodeInv` ties the node
  to the main thread that waits on it; `SessionInv` says that the sessions served
  are those before the one being started. The crash is the step that needs
  StoreInv: it must hold of whatever the disk was left as.

**SparrowSilent_proof**
* `QueuedScanTheorem`. `ScanInv`: the mark is set exactly while a scan is in the
  queue, and there is never a second one, however other jobs are appended and
  taken; `FlagInv` and `LimitInv` say that the flag and the limit follow the
  subscriptions.

**BtcdFilter_proof**
* `WithinMaximumTheorem`, `LegacyWatchedTheorem`. `MapInv` types the four maps;
  each step shrinks the maps or adds one entry after it compared their sum with
  the limit. `LegacyInv` adds that the flag is also set while a match has outputs
  still to arm, which no erasure of the other watches may clear.

The assumptions of the theorems are those of their modules (`ChainAssumption`,
`ModulusAssumption` and so on), which TLC evaluates on the constants of the runs.

Only model-checked:
* liveness, that of RpcService included;
* `MidstateMatchesCursor` and `CurrentAtRest` of ElectrumSubscribe: they speak of
  histories that SelectSeq selects from the chain, which takes induction over
  sequences;
* `CompleteAtRest` of SparrowSilent and `MatchesReported` of BtcdFilter, whose
  invariants relate pages and cursors to what was matched along the whole chain;
* Queries, whose answers are checked against definitions over small archives.

## Not modelled

* **Parsing and formatting**: targets and queries of http, descriptors,
  serializers, error tables, the merkle utility. They are sequential functions
  of text or bytes with no state; the models start from the request they
  produce and end with the fields that the chain decides.
* **Configuration** (parser.cpp, settings.cpp): a table. Its values are the
  constants of the models.
* **html and http protocols, embedded pages**: file I/O, no state between
  requests.
* **stratum**: each handler answers that it is not implemented.
* **console diagnostics** (dumps, scans, test readers and writers, window,
  stack trace): they report and change nothing.
* **service installation**: two calls of the operating system each.
* **btcd notifications of new transactions**, and the text of what btcd sends.
* **Pipelining over a websocket** of the methods that complete later without a
  gate (precious_block, submit_header, estimate_smart_fee, esplora fee
  estimates): whether the channel reads ahead is decided in the network library.
  The models take one request at a time, so an answer under the identity of a
  later request is not covered; one under that of an earlier request is.
