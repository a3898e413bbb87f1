--------------------------- MODULE ElectrumOutpoint ---------------------------
(***************************************************************************)
(* Outpoint, header and height subscriptions of one electrum channel:      *)
(* protocol_electrum_outpoints.cpp, protocol_electrum_headers.cpp and the  *)
(* part of protocol_electrum.cpp that serves them.                         *)
(*                                                                         *)
(* The parties are those of ElectrumSubscribe: the node, its event thread  *)
(* (handle_chase), the channel strand (`posts`) and the notification       *)
(* strand (`jobs`), which owns outpoint_subscriptions_.  A header or       *)
(* height subscription is one flag and is read and set on the channel      *)
(* strand.  Events are told only over a full duplex connection; one that   *)
(* begins as http (post) may be upgraded.                                  *)
(*                                                                         *)
(* The protocol is the one that ElectrumHandshake attaches: the handshake  *)
(* runs first, and the version it settles on decides which subscriptions   *)
(* the channel has.                                                        *)
(*                                                                         *)
(* A block is a record of its transactions of interest and a number, *)
(* which stands for its hash.  The height of an unconfirmed transaction is *)
(* 0.                                                                      *)
(***************************************************************************)
EXTENDS ElectrumHandshake, FiniteSets

CONSTANTS
    Outpoint,       \* outpoints a client may subscribe
    Tx,             \* transactions
    Funder,         \* Funder[o]: the transaction that o is an output of
    Spends,         \* Spends[t]: the outpoint that t spends, if any
    Limits,         \* settings of options().maximum_subscriptions
    MaxBlocks,      \* bound: blocks organized in a behaviour
    MaxEvents,      \* bound: chase events raised and not yet handled
    MaxPops         \* bound: blocks disconnected in a behaviour

VARIABLES
    chain, pool, serial, owed, pops, events,        \* node and archive (external)
    duplex,                                         \* websocket() \/ downgraded()
    req, view, told, count,                         \* the client, and the last header
                                                    \* and height it was sent, if any
    posts, header_on, height_on, top,               \* channel strand
    jobs, job, held, sub, outpoint_on, limit,       \* notification strand
    lost, missed, diverged                          \* histories: withheld, and repeated

node == <<chain, pool, serial, owed, pops, events>>
client == <<req, view, told, count>>
flags == <<header_on, height_on, top>>
strand == <<jobs, job, held, sub, outpoint_on, limit>>
histories == <<lost, missed, diverged>>
protocol == <<duplex, client, posts, flags, strand, histories>>
all == <<vars, node, protocol>>

v1_0 == 10000
v1_1 == 10100
v1_7 == 10700
at_least(v) == version >= v

-----------------------------------------------------------------------------
(* The archive.                                                            *)

Confirms(t) == {h \in 1..Len(chain) : t \in chain[h].txs}
Archived(t) == t \in pool \/ Confirms(t) # {}
TxHeight(t) == IF Confirms(t) = {} THEN 0 ELSE CHOOSE h \in Confirms(t) : TRUE

\* The top block and its height; serial 0 is genesis.
Top == [height |-> Len(chain), hash |-> IF chain = <<>> THEN 0 ELSE chain[Len(chain)].hash]

\* get_tx_history of the funder and get_spenders_history: two reads.
FunderOf(o) == [valid |-> Archived(Funder[o]), height |-> TxHeight(Funder[o])]
SpendersOf(o) == {[tx |-> t, height |-> TxHeight(t)] :
                    t \in {u \in Tx : Spends[u] = o /\ Archived(u)}}

\* get_outpoint_history: an output that is not found has no spenders.
NotFound == [valid |-> FALSE, height |-> 0, spenders |-> {}]
get_outpoint_history(o, f) ==
    IF ~f.valid THEN NotFound
    ELSE [valid |-> TRUE, height |-> f.height, spenders |-> SpendersOf(o)]

Actual(o) == get_outpoint_history(o, FunderOf(o))

-----------------------------------------------------------------------------
(* The node: each change of the archive is followed by its chase event.    *)

Seen == pool \union UNION {chain[h].txs : h \in 1..Len(chain)}
Raise(e) == Len(events) < MaxEvents /\ events' = Append(events, e)

AcceptTx(t) ==
    /\ t \in Tx \ Seen
    /\ \A o \in Outpoint : Spends[t] = o => Archived(Funder[o])
    /\ Raise([op |-> "transaction"])
    /\ pool' = pool \union {t}
    /\ UNCHANGED <<chain, serial, owed, pops, vars, protocol>>

\* A block may confirm a transaction and its spender; an archived spender that
\* conflicts with a confirmed one is not confirmed.
Organize(txs) ==
    /\ serial < MaxBlocks
    /\ \A t \in txs : /\ Confirms(t) = {}
                      /\ \A o \in Outpoint : Spends[t] = o =>
                            /\ Funder[o] \in txs \/ Confirms(Funder[o]) # {}
                            /\ \A u \in Tx \ {t} :
                                 Spends[u] = o => u \notin txs /\ Confirms(u) = {}
    /\ Raise([op |-> "organized", link |-> [height |-> Len(chain) + 1, hash |-> serial + 1]])
    /\ chain' = Append(chain, [txs |-> txs, hash |-> serial + 1])
    /\ serial' = serial + 1
    /\ pool' = pool \ txs
    /\ owed' = IF owed = 0 THEN 0 ELSE owed - 1
    /\ UNCHANGED <<pops, vars, protocol>>

\* A disconnected block is replaced by a stronger branch, which may be as long
\* as the one it replaces: `owed` blocks follow.
Disconnect ==
    /\ chain # <<>> /\ pops < MaxPops /\ serial + owed < MaxBlocks
    /\ Raise([op |-> "reorganized"])
    /\ chain' = SubSeq(chain, 1, Len(chain) - 1)
    /\ pool' = pool \union chain[Len(chain)].txs
    /\ owed' = owed + 1
    /\ pops' = pops + 1
    /\ UNCHANGED <<serial, vars, protocol>>

-----------------------------------------------------------------------------
(* The event thread.  Outpoint subscriptions are left alone by             *)
(* reorganized; the flags are tested when the event is handled, and only   *)
(* on a full duplex connection.                                            *)

Post(cond, x) == IF cond THEN <<x>> ELSE <<>>

NoRead == [op |-> "none"]
NoJob == [op |-> "none"]

\* Outpoints whose history has been read: held, or about to be.
Reading == held \union IF job.op = "subscribe" THEN {job.point} ELSE {}

\* The subscriptions, held or being taken, to which organized is not told.
On(k) == IF k = "header" THEN header_on ELSE height_on
Missed == {k \in {"header", "height"} : (On(k) \/ top.op = k) /\ ~(duplex /\ On(k))}

handle_chase ==
    /\ events # <<>>
    /\ events' = Tail(events)
    /\ LET e == Head(events)
           scans == e.op \in {"transaction", "organized"}
           tops == e.op = "organized"
       IN  /\ posts' = posts
                 \o Post(duplex /\ tops /\ height_on, [op |-> "height", link |-> e.link])
                 \o Post(duplex /\ tops /\ header_on, [op |-> "header", link |-> e.link])
           /\ jobs' = jobs \o Post(duplex /\ scans /\ outpoint_on, [op |-> "outpoint"])
           /\ lost' = IF scans /\ ~(duplex /\ outpoint_on) THEN lost \union Reading ELSE lost
           /\ missed' = IF tops THEN missed \union Missed ELSE missed
    /\ UNCHANGED <<chain, pool, serial, owed, pops, vars, duplex, client, flags,
                   job, held, sub, outpoint_on, limit, diverged>>

-----------------------------------------------------------------------------
(* Requests, on the channel strand.  A gate keeps the next request unread  *)
(* until an outpoint request is complete.                                  *)

Unsub == [none |-> TRUE]
Ready == attached /\ sending = {} /\ req = "none" /\ top = NoRead
Ask == Ready /\ asked < MaxRequests /\ asked' = asked + 1
AskUnchanged == UNCHANGED <<handler, calls, paused, attached, channel, sending, stopped>>

handle_blockchain_outpoint_subscribe(o) ==
    /\ at_least(v1_7) /\ Ask
    /\ jobs' = Append(jobs, [op |-> "subscribe", point |-> o])
    /\ req' = "open"
    /\ AskUnchanged
    /\ UNCHANGED <<node, duplex, view, told, count, posts, flags, job, held, sub, outpoint_on, limit, histories>>

handle_blockchain_outpoint_unsubscribe(o) ==
    /\ at_least(v1_7) /\ Ask
    /\ jobs' = Append(jobs, [op |-> "unsubscribe", point |-> o])
    /\ req' = "open"
    /\ AskUnchanged
    /\ UNCHANGED <<node, duplex, view, told, count, posts, flags, job, held, sub, outpoint_on, limit, histories>>

\* The top is read and then the flag is stored.
handle_blockchain_headers_subscribe ==
    /\ at_least(v1_0) /\ Ask
    /\ top' = [op |-> "header", link |-> Top]
    /\ missed' = missed \ {"header"}
    /\ AskUnchanged
    /\ UNCHANGED <<node, duplex, client, posts, header_on, height_on, strand, lost, diverged>>

\* Mutant: the flag is not stored when the client is told of genesis.
store_header_above_genesis ==
    /\ top.op = "header"
    /\ header_on' = (header_on \/ top.link.height > 0) /\ told' = {top.link} /\ top' = NoRead
    /\ UNCHANGED <<vars, node, duplex, req, view, count, posts, height_on, strand, histories>>

store_header ==
    /\ top.op = "header"
    /\ header_on' = TRUE /\ told' = {top.link} /\ top' = NoRead
    /\ UNCHANGED <<vars, node, duplex, req, view, count, posts, height_on, strand, histories>>

\* Mutant: the flag is not stored.
handle_blockchain_number_of_blocks_subscribe_unset ==
    /\ ~at_least(v1_1) /\ Ask
    /\ top' = [op |-> "height"]
    /\ AskUnchanged
    /\ UNCHANGED <<node, duplex, client, posts, header_on, height_on, strand, histories>>

\* The flag is stored and then the top is read.
handle_blockchain_number_of_blocks_subscribe ==
    /\ ~at_least(v1_1) /\ Ask
    /\ height_on' = TRUE /\ top' = [op |-> "height"]
    /\ AskUnchanged
    /\ UNCHANGED <<node, duplex, client, posts, header_on, strand, histories>>

send_height ==
    /\ top.op = "height"
    /\ count' = {Len(chain)} /\ top' = NoRead
    /\ missed' = missed \ {"height"}
    /\ UNCHANGED <<vars, node, duplex, req, view, told, posts, header_on, height_on, strand, lost, diverged>>

\* The http connection becomes a websocket, between requests.
Upgrade ==
    /\ Ready /\ ~duplex
    /\ duplex' = TRUE
    /\ UNCHANGED <<vars, node, client, posts, flags, strand, histories>>

-----------------------------------------------------------------------------
(* Posts to the channel strand.  send_notification succeeds silently       *)
(* without a full duplex transport.                                        *)

Posted(op) == top = NoRead /\ posts # <<>> /\ Head(posts).op = op
Sent == posts' = Tail(posts)

do_height ==
    /\ Posted("height") /\ Sent
    /\ IF duplex THEN count' = {Head(posts).link.height} /\ missed' = missed \ {"height"}
       ELSE UNCHANGED <<count, missed>>
    /\ UNCHANGED <<vars, node, duplex, req, view, told, flags, strand, lost, diverged>>

do_header ==
    /\ Posted("header") /\ Sent
    /\ IF duplex THEN told' = {Head(posts).link} /\ missed' = missed \ {"header"}
       ELSE UNCHANGED <<told, missed>>
    /\ UNCHANGED <<vars, node, duplex, req, view, count, flags, strand, lost, diverged>>

\* The first spender is in the response and the others are notifications.
Received(out) ==
    IF duplex \/ out.spenders = {} THEN {out}
    ELSE {[out EXCEPT !.spenders = {first}] : first \in out.spenders}

complete_outpoint_subscribe ==
    /\ Posted("subscribed") /\ Sent
    /\ LET p == Head(posts) IN
       \/ ~p.ok /\ UNCHANGED <<view, diverged>>
       \/ /\ p.ok
          /\ \E out \in Received(p.sub) :
               /\ view' = [view EXCEPT ![p.point] = out]
               /\ diverged' = diverged \union IF out = p.sub THEN {} ELSE {p.point}
    /\ req' = "none"
    /\ UNCHANGED <<vars, node, duplex, told, count, flags, strand, lost, missed>>

complete_outpoint_unsubscribe ==
    /\ Posted("unsubscribed") /\ Sent
    /\ view' = [view EXCEPT ![Head(posts).point] = Unsub]
    /\ req' = "none"
    /\ UNCHANGED <<vars, node, duplex, told, count, flags, strand, histories>>

\* A status is the height of the output and a spender, or none: the client
\* keeps the spenders it was told of and takes the height each was last sent with.
outpoint_notify ==
    /\ Posted("notify") /\ Sent
    /\ LET p == Head(posts)
           old == {s \in view[p.point].spenders : \A n \in p.spenders : n.tx # s.tx}
       IN  view' = IF ~duplex THEN view ELSE [view EXCEPT ![p.point] =
                      [valid |-> TRUE, height |-> p.height, spenders |-> old \union p.spenders]]
    /\ UNCHANGED <<vars, node, duplex, req, told, count, flags, strand, histories>>

-----------------------------------------------------------------------------
(* The notification strand.                                                *)

Job(op) == job = NoJob /\ jobs # <<>> /\ Head(jobs).op = op
Done == jobs' = Tail(jobs)
Excess == Cardinality(held) >= limit

\* Refused at the limit, even when it repeats a subscription that is held.
refuse_outpoint_subscribe ==
    /\ Job("subscribe") /\ Excess /\ Done
    /\ posts' = Append(posts, [op |-> "subscribed", ok |-> FALSE])
    /\ UNCHANGED <<vars, node, duplex, client, flags, job, held, sub, outpoint_on, limit, histories>>

\* get_outpoint_history reads the funding transaction and then its spenders.
do_outpoint_subscribe ==
    /\ Job("subscribe") /\ ~Excess /\ Done
    /\ LET o == Head(jobs).point IN
       /\ job' = [op |-> "subscribe", point |-> o, funder |-> FunderOf(o)]
       /\ lost' = lost \ {o}
    /\ UNCHANGED <<vars, node, duplex, client, posts, flags, held, sub, outpoint_on, limit, missed, diverged>>

\* emplace keeps the entry of a subscription that is repeated.
emplace_outpoint ==
    /\ job.op = "subscribe"
    /\ LET o == job.point
           out == get_outpoint_history(o, job.funder)
       IN  /\ held' = held \union {o}
           /\ sub' = IF o \in held THEN sub ELSE [sub EXCEPT ![o] = out]
           /\ diverged' = IF o \in held /\ sub[o] # out THEN diverged \union {o} ELSE diverged
           /\ job' = [op |-> "store", point |-> o, sub |-> out]
    /\ UNCHANGED <<vars, node, duplex, client, posts, flags, jobs, outpoint_on, limit, lost, missed>>

store_outpoint ==
    /\ job.op = "store"
    /\ outpoint_on' = TRUE
    /\ posts' = Append(posts, [op |-> "subscribed", ok |-> TRUE, point |-> job.point, sub |-> job.sub])
    /\ job' = NoJob
    /\ UNCHANGED <<vars, node, duplex, client, flags, jobs, held, sub, limit, histories>>

\* Mutant: the response is sent ahead of the work of the strand.
do_outpoint_unsubscribe_first ==
    /\ Job("unsubscribe") /\ Done
    /\ LET o == Head(jobs).point IN
       /\ held' = held \ {o}
       /\ outpoint_on' = (outpoint_on /\ held \ {o} # {})
       /\ posts' = <<[op |-> "unsubscribed", point |-> o]>> \o posts
       /\ lost' = lost \ {o}
       /\ diverged' = diverged \ {o}
    /\ UNCHANGED <<vars, node, duplex, client, flags, job, sub, limit, missed>>

do_outpoint_unsubscribe ==
    /\ Job("unsubscribe") /\ Done
    /\ LET o == Head(jobs).point IN
       /\ held' = held \ {o}
       /\ outpoint_on' = (outpoint_on /\ held \ {o} # {})
       /\ posts' = Append(posts, [op |-> "unsubscribed", point |-> o])
       /\ lost' = lost \ {o}
       /\ diverged' = diverged \ {o}
    /\ UNCHANGED <<vars, node, duplex, client, flags, job, sub, limit, missed>>

\* do_outpoint: each subscription in turn.
Scan(todo) ==
    IF todo = {} THEN NoJob
    ELSE LET o == CHOOSE x \in todo : TRUE
         IN  [op |-> "outpoint", point |-> o, todo |-> todo \ {o}]

do_outpoint ==
    /\ Job("outpoint") /\ Done
    /\ job' = Scan(held)
    /\ UNCHANGED <<vars, node, duplex, client, posts, flags, held, sub, outpoint_on, limit, histories>>

read_funder ==
    /\ job.op = "outpoint"
    /\ job' = [op |-> "spenders", point |-> job.point, todo |-> job.todo,
               funder |-> FunderOf(job.point)]
    /\ lost' = lost \ {job.point}
    /\ UNCHANGED <<vars, node, duplex, client, posts, flags, jobs, held, sub, outpoint_on, limit, missed, diverged>>

\* Mutant: a spender that changes height is not sent again.
Changed_new_only(old, new) ==
    IF ~old.valid \/ old.height # new.height THEN new.spenders
    ELSE {s \in new.spenders : \A t \in old.spenders : t.tx # s.tx}

\* All spenders when the output is found or changes height, else the difference.
Changed(old, new) ==
    IF ~old.valid \/ old.height # new.height THEN new.spenders
    ELSE new.spenders \ old.spenders

notify_outpoint ==
    /\ job.op = "spenders"
    /\ LET o == job.point
           out == get_outpoint_history(o, job.funder)
       IN  IF ~out.valid \/ out = sub[o] THEN UNCHANGED <<posts, sub>>
           ELSE /\ posts' = Append(posts, [op |-> "notify", point |-> o, height |-> out.height,
                                           spenders |-> Changed(sub[o], out)])
                /\ sub' = [sub EXCEPT ![o] = out]
    /\ job' = Scan(job.todo)
    /\ UNCHANGED <<vars, node, duplex, client, flags, jobs, held, outpoint_on, limit, histories>>

-----------------------------------------------------------------------------
Idle ==
    /\ chain = <<>> /\ pool = {} /\ serial = 0 /\ owed = 0 /\ pops = 0 /\ events = <<>>
    /\ duplex \in BOOLEAN
    /\ req = "none" /\ view = [o \in Outpoint |-> Unsub]
    /\ told = {} /\ count = {}
    /\ posts = <<>> /\ header_on = FALSE /\ height_on = FALSE /\ top = NoRead
    /\ jobs = <<>> /\ job = NoJob /\ held = {} /\ sub = [o \in Outpoint |-> NotFound]
    /\ outpoint_on = FALSE /\ limit \in Limits /\ lost = {} /\ missed = {} /\ diverged = {}

InitAll == Init /\ Idle

\* The handshake, and later a repeated server.version or a request that is
\* answered at once and changes nothing (bad_request).
Handshake ==
    /\ Ready \/ ~attached
    /\ \/ \E r \in Request : handle_server_version(r)
       \/ handle_unclaimed
    /\ UNCHANGED <<node, protocol>>

HandshakeStep == (SendComplete \/ HandshakeComplete) /\ UNCHANGED <<node, protocol>>

\* Once attached a stop ends the behaviour: a stopped channel sends nothing.
StopChannel == ~attached /\ Stop /\ UNCHANGED <<node, protocol>>

\* The chain changes from when the protocol can see it.
Node == attached /\ (\/ Disconnect
                      \/ \E t \in Tx : AcceptTx(t)
                      \/ \E txs \in SUBSET Tx : Organize(txs))

Requests ==
    \/ \E o \in Outpoint : \/ handle_blockchain_outpoint_subscribe(o)
                           \/ handle_blockchain_outpoint_unsubscribe(o)
    \/ handle_blockchain_headers_subscribe
    \/ handle_blockchain_number_of_blocks_subscribe

ChannelStep ==
    \/ store_header \/ send_height
    \/ do_height \/ do_header
    \/ complete_outpoint_subscribe \/ complete_outpoint_unsubscribe \/ outpoint_notify

NotificationStep ==
    \/ refuse_outpoint_subscribe \/ do_outpoint_subscribe
    \/ emplace_outpoint \/ store_outpoint
    \/ do_outpoint_unsubscribe
    \/ do_outpoint \/ read_funder \/ notify_outpoint

NextAll ==
    ~stopped /\ (\/ Handshake \/ HandshakeStep \/ Node \/ handle_chase \/ Requests
                 \/ Upgrade \/ ChannelStep \/ NotificationStep \/ StopChannel)

\* As in ElectrumHandshake.
SpecAll ==
    /\ InitAll /\ [][NextAll]_all
    /\ WF_all(~stopped /\ HandshakeStep)

-----------------------------------------------------------------------------
(* Properties.                                                             *)

Rest ==
    /\ events = <<>> /\ jobs = <<>> /\ posts = <<>>
    /\ job = NoJob /\ top = NoRead /\ owed = 0 /\ ~stopped

\* When all strands have drained the client knows the height of each outpoint it
\* subscribes and all spenders with their heights, although it is only sent
\* differences and the two reads of a scan may straddle a reorganization.  Not
\* so where handle_chase withheld an event and none has been scanned since (the
\* history is read before the flag is stored, and events are not told over
\* http), or where the answer to a subscription is not the entry that is kept (a
\* repeated one, and over http one with several spenders).
OutpointCurrentAtRest ==
    Rest => \A o \in held \ (lost \union diverged) : view[o] = Actual(o)

\* When all strands have drained the client of blockchain.headers.subscribe has
\* been sent the top header and the client of blockchain.numblocks.subscribe the
\* present height, unless handle_chase withheld the event and the client has been
\* told nothing since: over http, or, of headers only, between the read of the
\* top and the store of the flag (a height is read after its flag is stored).
HeaderCurrentAtRest ==
    /\ Rest /\ "header" \notin missed => told \subseteq {Top}
    /\ Rest /\ "height" \notin missed => count \subseteq {Len(chain)}

\* An outpoint notification is sent only between the answers to the subscribe
\* and the unsubscribe of that outpoint.
OutpointNotifiedWhileSubscribed ==
    Posted("notify") /\ ~stopped => view[Head(posts).point] # Unsub
=============================================================================
