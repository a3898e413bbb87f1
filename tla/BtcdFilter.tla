----------------------------- MODULE BtcdFilter -----------------------------
(***************************************************************************)
(* The watch lists of one btcd channel (loadtxfilter, notifyreceived and   *)
(* notifyspent) and the matching of connected blocks against them:         *)
(* protocol_btcd_filter.cpp and handle_chase of protocol_btcd.cpp.         *)
(*                                                                         *)
(* The node changes the archive and raises a chase event; the event thread *)
(* runs handle_chase; the notification strand (`jobs`, `work`) owns the    *)
(* watch maps; the channel strand (`posts`) runs handlers and completions. *)
(* The strand reads the archive as it is when it gets there: once for each *)
(* key it primes and once for each of the three matchers of do_connected.  *)
(*                                                                         *)
(* An address walk (external, get_history) yields the entries above its    *)
(* cursor and moves the cursor to the top, or fails above the limit and    *)
(* leaves it.  Requests are decoded and the address index is enabled.      *)
(***************************************************************************)
EXTENDS Integers, Sequences, FiniteSets

CONSTANTS
    Address,        \* output script hashes
    Tx,             \* transactions
    Pays,           \* the addresses each transaction has an output to
    Spends,         \* the outputs each transaction spends
    MaxFilters,     \* btcd_options().maximum_filters
    HistoryLimits,  \* values of btcd_options().maximum_history
    MaxHeight,      \* bound: blocks in the chain
    MaxBlocks,      \* bound: blocks organized in a behaviour
    MaxEvents,      \* bound: chase events raised and not yet handled
    MaxRequests     \* bound: requests in a behaviour

Point == {o \in Tx \X Address : o[2] \in Pays[o[1]]}

ASSUME SetAssumption == IsFiniteSet(Address) /\ IsFiniteSet(Tx)
ASSUME TxAssumption ==
    Pays \in [Tx -> SUBSET Address] /\ Spends \in [Tx -> SUBSET Point]
ASSUME LimitAssumption == MaxFilters \in Nat /\ HistoryLimits \subseteq Nat

VARIABLES
    maximum_history,    \* the configured limit of a walk, fixed
    chain,              \* confirmed blocks, the last is the top (external)
    made, undone,       \* blocks organized, and disconnected (external)
    events,             \* chase events raised (external)
    subscribed_blocks,
    watching_legacy,
    address_watches,    \* from watched address to its walk
    receive_watches,
    outpoint_watches,   \* from watched output to its spenders, as last read
    spent_watches,
    jobs, work,         \* notification strand: queued, and in progress
    posts,              \* channel strand
    gated, asked,       \* a request is outstanding; requests made
    stopped,
    excuses, missed     \* history: what hides a match, and matches not reported

node == <<maximum_history, chain, made, undone, events>>
flags == <<subscribed_blocks, watching_legacy>>
filters == <<address_watches, outpoint_watches>>
watches == <<filters, receive_watches, spent_watches>>
client == <<gated, asked>>
history == <<excuses, missed>>
vars == <<node, flags, watches, jobs, work, posts, client, stopped, history>>

Empty == [x \in {} |-> {}]
Without(f, S) == [x \in DOMAIN f \ S |-> f[x]]
With(f, k, v) == [x \in DOMAIN f \union {k} |-> IF x = k THEN v ELSE f[x]]

watch_count ==
    Cardinality(DOMAIN address_watches) + Cardinality(DOMAIN outpoint_watches)
    + Cardinality(DOMAIN receive_watches) + Cardinality(DOMAIN spent_watches)

-----------------------------------------------------------------------------
(* The archive (external).                                                 *)

Touches(t, a) == a \in Pays[t] \/ \E p \in Spends[t] : p[2] = a

Confirmed == {e \in Tx \X (1..Len(chain)) : e[1] \in chain[e[2]].txs}

\* get_history: the confirmed entries of an address above a cursor.
Walk(a, cursor) == {e \in Confirmed : Touches(e[1], a) /\ e[2] > cursor}

Refused(a, cursor) == Cardinality(Walk(a, cursor)) > maximum_history

get_spenders_history(p) == {e \in Confirmed : p \in Spends[e[1]]}

\* The walk after a read.  `since` is history: the blocks organized before the
\* watch was primed, of which it makes no report.
Advance(a, w) == IF Refused(a, w.cursor) THEN w
                 ELSE [w EXCEPT !.cursor = Len(chain)]

Primed(a) == Advance(a, [cursor |-> 0, since |-> made])

Current(p) == [spenders |-> get_spenders_history(p), since |-> made]

Unread == [spenders |-> {}, since |-> 0]

\* match_addresses and match_outpoints: the new entries at the given height.
match_addresses(a, w, height) ==
    {t \in Tx : ~Refused(a, w.cursor) /\ <<t, height>> \in Walk(a, w.cursor)}

match_outpoints(p, w, height) ==
    {t \in Tx : <<t, height>> \in get_spenders_history(p) \ w.spenders}

Archived == UNION {chain[h].txs : h \in 1..Len(chain)}

\* Something raised for the channel is not yet matched: the archive gets ahead.
Behind ==
    \/ events # <<>>
    \/ \E i \in 1..Len(jobs) : jobs[i].op \in {"connected", "disconnected"}
    \/ work.op \in {"filters", "receives", "arm"}

Ahead == excuses' = IF Behind THEN excuses \union {"ahead"} ELSE excuses

Organize(txs) ==
    /\ Len(chain) < MaxHeight /\ made < MaxBlocks /\ Len(events) < MaxEvents
    /\ txs \cap Archived = {}
    /\ \A t \in txs : \A p \in Spends[t] : p[1] \in Archived \union txs
    /\ made' = made + 1
    /\ chain' = Append(chain, [id |-> made + 1, txs |-> txs])
    /\ events' = Append(events, [op |-> "connected", id |-> made + 1,
                                 height |-> Len(chain) + 1])
    /\ Ahead
    /\ UNCHANGED <<maximum_history, undone, flags, watches, jobs, work, posts,
                   client, stopped, missed>>

Disconnect ==
    /\ chain # <<>> /\ made < MaxBlocks /\ Len(events) < MaxEvents
    /\ chain' = SubSeq(chain, 1, Len(chain) - 1)
    /\ undone' = undone + 1
    /\ events' = Append(events, [op |-> "disconnected",
                                 id |-> chain[Len(chain)].id,
                                 height |-> Len(chain)])
    /\ Ahead
    /\ UNCHANGED <<maximum_history, made, flags, watches, jobs, work, posts,
                   client, stopped, missed>>

-----------------------------------------------------------------------------
(* The event thread.                                                       *)

\* Both events are dropped while neither flag is set, or the channel is stopped.
handle_chase ==
    /\ events # <<>>
    /\ events' = Tail(events)
    /\ \/ /\ ~stopped /\ (subscribed_blocks \/ watching_legacy)
          /\ jobs' = Append(jobs, Head(events))
          /\ UNCHANGED excuses
       \/ /\ stopped \/ ~(subscribed_blocks \/ watching_legacy)
          /\ excuses' = IF Head(events).op = "disconnected"
                        THEN excuses \union {"withheld"} ELSE excuses
          /\ UNCHANGED jobs
    /\ UNCHANGED <<maximum_history, chain, made, undone, flags, watches, work,
                   posts, client, stopped, missed>>

-----------------------------------------------------------------------------
(* The channel strand: handlers and completions.                           *)

\* A request whose handler posts to the notification strand.  One that is gated
\* keeps the listener paused until it completes, others are answered at once.
Request(gate) ==
    /\ ~gated /\ ~stopped /\ asked < MaxRequests
    /\ gated' = gate
    /\ asked' = asked + 1
    /\ UNCHANGED <<node, flags, watches, work, posts, stopped, history>>

handle_load_tx_filter(reload, K, Q) ==
    /\ Request(TRUE)
    /\ jobs' = Append(jobs, [op |-> "load", reload |-> reload, keys |-> K, points |-> Q])

handle_notify_received(K) ==
    /\ Request(TRUE)
    /\ jobs' = Append(jobs, [op |-> "receive", keys |-> K, points |-> {}])

handle_notify_spent(Q) ==
    /\ Request(TRUE)
    /\ jobs' = Append(jobs, [op |-> "spent", keys |-> {}, points |-> Q])

handle_stop_notify_received(K) ==
    /\ Request(FALSE)
    /\ jobs' = Append(jobs, [op |-> "stop_receive", keys |-> K])

handle_stop_notify_spent(Q) ==
    /\ Request(FALSE)
    /\ jobs' = Append(jobs, [op |-> "stop_spent", points |-> Q])

\* handle_notify_blocks and handle_stop_notify_blocks.
handle_notify_blocks(on) ==
    /\ ~gated /\ ~stopped /\ asked < MaxRequests /\ on # subscribed_blocks
    /\ asked' = asked + 1
    /\ subscribed_blocks' = on
    /\ UNCHANGED <<node, watching_legacy, watches, jobs, work, posts, gated,
                   stopped, history>>

Posted(ops) == posts # <<>> /\ Head(posts).op \in ops /\ posts' = Tail(posts)

\* complete_load_tx_filter, complete_notify_received, complete_notify_spent.
complete ==
    /\ Posted({"complete"})
    /\ gated' = FALSE
    /\ UNCHANGED <<node, flags, watches, jobs, work, asked, stopped, history>>

\* notify_connected, notify_disconnected: what they send is in the post.
send ==
    /\ Posted({"connected", "disconnected"})
    /\ UNCHANGED <<node, flags, watches, jobs, work, client, stopped, history>>

complete_overflow ==
    /\ Posted({"overflow"})
    /\ stopped' = TRUE
    /\ UNCHANGED <<node, flags, watches, jobs, work, client, history>>

stopping ==
    /\ ~stopped
    /\ stopped' = TRUE
    /\ UNCHANGED <<node, flags, watches, jobs, work, posts, client, history>>

-----------------------------------------------------------------------------
(* The notification strand: requests.                                      *)

Free == [op |-> "free"]

Start(op) == work = Free /\ jobs # <<>> /\ Head(jobs).op = op /\ jobs' = Tail(jobs)

Begin == work' = [op |-> Head(jobs).op, keys |-> Head(jobs).keys,
                  points |-> Head(jobs).points]

do_load_tx_filter ==
    /\ Start("load")
    /\ Begin
    /\ \/ /\ Head(jobs).reload
          /\ address_watches' = Empty /\ outpoint_watches' = Empty
       \/ /\ ~Head(jobs).reload
          /\ UNCHANGED filters
    /\ UNCHANGED <<node, flags, receive_watches, spent_watches, posts, client,
                   stopped, history>>

\* do_notify_received and do_notify_spent up to their loops.
do_notify(op) ==
    /\ Start(op)
    /\ Begin
    /\ UNCHANGED <<node, flags, watches, posts, client, stopped, history>>

Looping == work.op \in {"load", "receive", "spent"}
Ended == work.keys = {} /\ work.points = {}

\* One iteration for a key, or, once there are no more keys, for an output.
Key(op, a) ==
    /\ work.op = op /\ a \in work.keys
    /\ ~stopped /\ watch_count < MaxFilters
    /\ work' = [work EXCEPT !.keys = @ \ {a}]

Output(op, p) ==
    /\ work.op = op /\ work.keys = {} /\ p \in work.points
    /\ ~stopped /\ watch_count < MaxFilters
    /\ work' = [work EXCEPT !.points = @ \ {p}]

load_key(a) ==
    /\ Key("load", a)
    /\ address_watches' = IF a \in DOMAIN address_watches THEN address_watches
                          ELSE With(address_watches, a, Primed(a))
    /\ UNCHANGED <<node, flags, outpoint_watches, receive_watches, spent_watches,
                   jobs, posts, client, stopped, history>>

load_point(p) ==
    /\ Output("load", p)
    /\ outpoint_watches' = IF p \in DOMAIN outpoint_watches THEN outpoint_watches
                           ELSE With(outpoint_watches, p, Current(p))
    /\ UNCHANGED <<node, flags, address_watches, receive_watches, spent_watches,
                   jobs, posts, client, stopped, history>>

\* A new watch and its flag are one step: an event between the two is dropped by
\* handle_chase, like one ahead of both.
receive_key(a) ==
    /\ Key("receive", a)
    /\ receive_watches' = IF a \in DOMAIN receive_watches THEN receive_watches
                          ELSE With(receive_watches, a, Primed(a))
    /\ watching_legacy' = (watching_legacy \/ a \notin DOMAIN receive_watches)
    /\ UNCHANGED <<node, subscribed_blocks, filters, spent_watches, jobs, posts,
                   client, stopped, history>>

\* The spenders of a notifyspent watch are not primed.
spent_point(p) ==
    /\ Output("spent", p)
    /\ spent_watches' = IF p \in DOMAIN spent_watches THEN spent_watches
                        ELSE With(spent_watches, p, Unread)
    /\ watching_legacy' = (watching_legacy \/ p \notin DOMAIN spent_watches)
    /\ UNCHANGED <<node, subscribed_blocks, filters, receive_watches, jobs, posts,
                   client, stopped, history>>

Completed(ok) == posts' = Append(posts, [op |-> "complete", ok |-> ok])

\* Mutant: a request over the limit is not answered.
refuse_silent ==
    /\ Looping /\ ~Ended /\ ~stopped /\ watch_count >= MaxFilters
    /\ work' = Free
    /\ UNCHANGED <<node, flags, watches, jobs, posts, client, stopped, history>>

\* The limit ends either loop; what was added before stays.
refuse ==
    /\ Looping /\ ~Ended /\ ~stopped /\ watch_count >= MaxFilters
    /\ work' = Free
    /\ Completed(FALSE)
    /\ UNCHANGED <<node, flags, watches, jobs, client, stopped, history>>

\* stopping_, or a canceled priming: no completion, the gate goes with the job.
abandon ==
    /\ Looping /\ ~Ended /\ stopped
    /\ work' = Free
    /\ gated' = FALSE
    /\ UNCHANGED <<node, flags, watches, jobs, posts, asked, stopped, history>>

finish ==
    /\ Looping /\ Ended
    /\ work' = Free
    /\ Completed(TRUE)
    /\ UNCHANGED <<node, flags, watches, jobs, client, stopped, history>>

\* Mutant: the flag is cleared with the last receive watch.
do_stop_notify_received_alone ==
    /\ Start("stop_receive")
    /\ receive_watches' = Without(receive_watches, Head(jobs).keys)
    /\ watching_legacy' = (watching_legacy /\ receive_watches' # Empty)
    /\ UNCHANGED <<node, subscribed_blocks, filters, spent_watches, work, posts,
                   client, stopped, history>>

do_stop_notify_received ==
    /\ Start("stop_receive")
    /\ receive_watches' = Without(receive_watches, Head(jobs).keys)
    /\ watching_legacy' = (watching_legacy /\ ~(receive_watches' = Empty
                                                /\ spent_watches = Empty))
    /\ UNCHANGED <<node, subscribed_blocks, filters, spent_watches, work, posts,
                   client, stopped, history>>

do_stop_notify_spent ==
    /\ Start("stop_spent")
    /\ spent_watches' = Without(spent_watches, Head(jobs).points)
    /\ watching_legacy' = (watching_legacy /\ ~(receive_watches = Empty
                                                /\ spent_watches' = Empty))
    /\ UNCHANGED <<node, subscribed_blocks, filters, receive_watches, work, posts,
                   client, stopped, history>>

-----------------------------------------------------------------------------
(* The notification strand: blocks.                                        *)

\* The block of a link while it is confirmed, else nothing.
BlockTxs(link) ==
    IF link.height <= Len(chain) /\ chain[link.height].id = link.id
    THEN chain[link.height].txs ELSE {}

\* The matches of map f at the height of a link, the map after the reads, and
\* (history) the keys of which a transaction of the block goes unmatched.
AddressMatches(f, link) ==
    UNION {match_addresses(a, f[a], link.height) : a \in DOMAIN f}
Advanced(f) == [a \in DOMAIN f |-> Advance(a, f[a])]
AddressMissed(f, link) ==
    {a \in DOMAIN f : f[a].since < link.id /\ \E t \in BlockTxs(link) :
        Touches(t, a) /\ t \notin match_addresses(a, f[a], link.height)}

OutpointMatches(f, link) ==
    UNION {match_outpoints(p, f[p], link.height) : p \in DOMAIN f}
Reread(f) ==
    [p \in DOMAIN f |-> [f[p] EXCEPT !.spenders = get_spenders_history(p)]]
OutpointMissed(f, link) ==
    {p \in DOMAIN f : f[p].since < link.id /\ \E t \in BlockTxs(link) :
        p \in Spends[t] /\ t \notin match_outpoints(p, f[p], link.height)}

Limited(f) ==
    excuses' = IF \E a \in DOMAIN f : Refused(a, f[a].cursor)
               THEN excuses \union {"limit"} ELSE excuses

do_connected ==
    /\ Start("connected")
    /\ work' = [op |-> "filters", link |-> Head(jobs)]
    /\ UNCHANGED <<node, flags, watches, posts, client, stopped, history>>

match_filters ==
    /\ work.op = "filters" /\ ~stopped
    /\ work' = [op |-> "receives", link |-> work.link,
                txs |-> AddressMatches(address_watches, work.link)
                        \union OutpointMatches(outpoint_watches, work.link)]
    /\ address_watches' = Advanced(address_watches)
    /\ outpoint_watches' = Reread(outpoint_watches)
    /\ Limited(address_watches)
    /\ missed' = missed
         \union ({"address"} \X AddressMissed(address_watches, work.link))
         \union ({"outpoint"} \X OutpointMissed(outpoint_watches, work.link))
    /\ UNCHANGED <<node, flags, receive_watches, spent_watches, jobs, posts,
                   client, stopped>>

\* The walks of match_receives.  A match that only spends is not a receive.
match_receives ==
    /\ work.op = "receives" /\ ~stopped
    /\ LET matched == AddressMatches(receive_watches, work.link) IN
         work' = [op |-> "arm", link |-> work.link, txs |-> work.txs,
                  received |-> {t \in matched : Pays[t] \cap DOMAIN receive_watches # {}},
                  arming |-> {p \in Point : p[1] \in matched
                                            /\ p[2] \in DOMAIN receive_watches}]
    /\ receive_watches' = Advanced(receive_watches)
    /\ Limited(receive_watches)
    /\ missed' = missed \union
         ({"receive"} \X AddressMissed(receive_watches, work.link))
    /\ UNCHANGED <<node, flags, filters, spent_watches, jobs, posts, client, stopped>>

\* Mutant: auto-armed watches are not counted.
arm_spent_watches_free(p) ==
    /\ work.op = "arm" /\ p \in work.arming
    /\ work' = [work EXCEPT !.arming = @ \ {p}]
    /\ spent_watches' = IF p \in DOMAIN spent_watches THEN spent_watches
                        ELSE With(spent_watches, p, Unread)
    /\ UNCHANGED <<node, flags, filters, receive_watches, jobs, posts, client,
                   stopped, history>>

\* One output of arm_spent_watches.  At the limit the channel is dropped, and
\* the block is not announced.
arm_spent_watches(p) ==
    /\ work.op = "arm" /\ p \in work.arming
    /\ \/ /\ watch_count < MaxFilters
          /\ work' = [work EXCEPT !.arming = @ \ {p}]
          /\ spent_watches' = IF p \in DOMAIN spent_watches THEN spent_watches
                              ELSE With(spent_watches, p, Unread)
          /\ UNCHANGED posts
       \/ /\ watch_count >= MaxFilters
          /\ work' = Free
          /\ posts' = Append(posts, [op |-> "overflow"])
          /\ UNCHANGED spent_watches
    /\ UNCHANGED <<node, flags, filters, receive_watches, jobs, client, stopped,
                   history>>

Redeemed(link) ==
    {p \in DOMAIN spent_watches :
        match_outpoints(p, spent_watches[p], link.height) # {}}

Announced(link) ==
    posts' = Append(posts, [op |-> "connected", id |-> link.id, txs |-> work.txs,
                            received |-> work.received, redeemed |-> Redeemed(link)])

\* match_spends, and the post that ends do_connected.  A redeemed watch goes.
match_spends ==
    /\ work.op = "arm" /\ work.arming = {} /\ ~stopped
    /\ work' = Free
    /\ Announced(work.link)
    /\ spent_watches' = Without(Reread(spent_watches), Redeemed(work.link))
    /\ missed' = missed \union ({"spent"} \X OutpointMissed(spent_watches, work.link))
    /\ UNCHANGED <<node, flags, filters, receive_watches, jobs, client, stopped,
                   excuses>>

\* stopping_ cancels each matcher; without watches what is posted is not sent.
cancel ==
    /\ stopped
    /\ \/ work.op \in {"filters", "receives"}
       \/ work.op = "arm" /\ work.arming = {}
    /\ work' = Free
    /\ UNCHANGED <<node, flags, watches, jobs, posts, client, stopped, history>>

Reset(f) == [a \in DOMAIN f |-> [f[a] EXCEPT !.cursor = 0]]

\* Mutant: only the walks of loadtxfilter are reset.
do_disconnected_filters ==
    /\ Start("disconnected")
    /\ address_watches' = Reset(address_watches)
    /\ posts' = Append(posts, [op |-> "disconnected", id |-> Head(jobs).id])
    /\ UNCHANGED <<node, flags, outpoint_watches, receive_watches, spent_watches,
                   work, client, stopped, history>>

\* The spenders of outpoint and spent watches are kept.
do_disconnected ==
    /\ Start("disconnected")
    /\ address_watches' = Reset(address_watches)
    /\ receive_watches' = Reset(receive_watches)
    /\ posts' = Append(posts, [op |-> "disconnected", id |-> Head(jobs).id])
    /\ UNCHANGED <<node, flags, outpoint_watches, spent_watches, work, client,
                   stopped, history>>

-----------------------------------------------------------------------------
Init ==
    /\ maximum_history \in HistoryLimits
    /\ chain = <<>> /\ made = 0 /\ undone = 0 /\ events = <<>>
    /\ subscribed_blocks = FALSE /\ watching_legacy = FALSE
    /\ address_watches = Empty /\ outpoint_watches = Empty
    /\ receive_watches = Empty /\ spent_watches = Empty
    /\ jobs = <<>> /\ work = Free /\ posts = <<>>
    /\ gated = FALSE /\ asked = 0 /\ stopped = FALSE
    /\ excuses = {} /\ missed = {}

\* What the node does after a stop does not reach the channel (bound).
NodeStep ==
    /\ ~stopped
    /\ \/ \E txs \in SUBSET Tx : Organize(txs)
       \/ Disconnect

ClientStep ==
    \/ \E r \in BOOLEAN, K \in SUBSET Address, Q \in SUBSET Point :
           handle_load_tx_filter(r, K, Q)
    \/ \E K \in SUBSET Address \ {{}} : handle_notify_received(K)
    \/ \E Q \in SUBSET Point \ {{}} : handle_notify_spent(Q)
    \/ \E K \in SUBSET Address \ {{}} : handle_stop_notify_received(K)
    \/ \E Q \in SUBSET Point \ {{}} : handle_stop_notify_spent(Q)
    \/ \E on \in BOOLEAN : handle_notify_blocks(on)

ChannelStep == complete \/ send \/ complete_overflow

RequestJob ==
    \/ do_load_tx_filter
    \/ do_notify("receive")
    \/ do_notify("spent")
    \/ \E k \in Address : load_key(k) \/ receive_key(k)
    \/ \E p \in Point : load_point(p) \/ spent_point(p)
    \/ refuse
    \/ abandon
    \/ finish
    \/ do_stop_notify_received
    \/ do_stop_notify_spent

BlockJob ==
    \/ do_connected
    \/ match_filters
    \/ match_receives
    \/ \E p \in Point : arm_spent_watches(p)
    \/ match_spends
    \/ cancel
    \/ do_disconnected

NotificationStep == RequestJob \/ BlockJob

Next ==
    \/ NodeStep
    \/ handle_chase
    \/ ClientStep
    \/ ChannelStep
    \/ NotificationStep
    \/ stopping

\* Threads of the pool keep running posted work; nothing obliges the node, the
\* client or a stop.
Spec ==
    /\ Init /\ [][Next]_vars
    /\ WF_vars(ChannelStep) /\ WF_vars(NotificationStep)

-----------------------------------------------------------------------------
(* Properties.                                                             *)

\* The four maps together never hold more than maximum_filters: the requests
\* and the watches that match_receives arms by itself draw on one budget.
WithinMaximum == watch_count <= MaxFilters

\* While a notifyreceived or notifyspent watch is held, armed by a request or by
\* a match, watching_legacy_ is set, so handle_chase posts each block to it.
LegacyWatched ==
    receive_watches # Empty \/ spent_watches # Empty => watching_legacy

\* A node that never gets ahead of the channel, and walks within the limit: each
\* transaction of a connected block that concerns a watch primed before it is
\* matched at that block, reorganizations that reach the watch included.  The
\* spenders of an output are not reset by do_disconnected, so one that confirms
\* again at its height is the exception.
MatchesReported ==
    excuses = {} =>
        \A m \in missed : m[1] \in {"outpoint", "spent"} /\ undone > 0

\* Every gated request is answered, or abandoned by a stop: at the limit too.
Answered == gated ~> ~gated
=============================================================================
