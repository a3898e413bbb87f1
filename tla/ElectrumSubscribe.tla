-------------------------- MODULE ElectrumSubscribe --------------------------
(***************************************************************************)
(* Address (scripthash) subscriptions of one electrum channel:             *)
(* protocol_electrum.cpp and protocol_electrum_subscribe.cpp.              *)
(*                                                                         *)
(* Four parties interleave:                                                *)
(*   - the node (external), which changes the archive and then raises a    *)
(*     chase event;                                                        *)
(*   - the node's event thread, which runs handle_chase;                   *)
(*   - the channel strand (`posts`), which runs request handlers and       *)
(*     completions and sends to the client;                                *)
(*   - the notification strand (`jobs`), which owns address_subscriptions_.*)
(*                                                                         *)
(* A block holds at most one transaction of interest; a transaction pays   *)
(* exactly one key.  A status is the pair of what the midstate absorbed    *)
(* (confirmed entries in order) and the unconfirmed entries, which is what *)
(* the sha256 of the code tells apart.  Null is the null_hash.             *)
(***************************************************************************)
EXTENDS Naturals, Sequences, FiniteSets

CONSTANTS
    Key,            \* script hashes a client may subscribe
    Tx,             \* transactions
    TxKey,          \* the key each transaction pays
    NoTx,           \* a block without a transaction of interest
    NoKey,          \* no subscription is being armed
    StartDuplex,    \* FALSE: the connection begins as http (post)
    MaxSubs,        \* options().maximum_subscriptions
    MaxHistory,     \* options().maximum_history
    MaxHeight,      \* bound: blocks in the chain
    MaxEvents,      \* bound: chase events raised and not yet handled
    MaxPops,        \* bound: blocks disconnected in a behaviour
    MaxRequests     \* bound: requests in a behaviour

ASSUME KeyAssumption == IsFiniteSet(Key) /\ NoKey \notin Key
ASSUME TxAssumption == TxKey \in [Tx -> Key] /\ NoTx \notin Tx
ASSUME LimitAssumption == MaxSubs \in Nat /\ MaxHistory \in Nat
ASSUME TransportAssumption == StartDuplex \in BOOLEAN

VARIABLES
    chain, pool, owed, pops, events,            \* node and archive (external)
    duplex, stopped,                            \* channel state
    req, asked, view,                           \* the client
    posts,                                      \* channel strand
    jobs, held, sub, flag, arming, scanning,    \* notification strand
    lost                                        \* history of withheld events

node == <<chain, pool, owed, pops, events>>
channel == <<duplex, stopped>>
client == <<req, asked, view>>
strand == <<held, sub, flag, arming, scanning>>
vars == <<node, channel, client, posts, jobs, strand, lost>>

-----------------------------------------------------------------------------
(* The archive.                                                            *)

Entries == [h \in 1..Len(chain) |-> <<chain[h], h>>]

\* Confirmed history of k above the cursor, in height order.
Confirmed(k, cursor) ==
    LET Pays(e) == e[1] # NoTx /\ TxKey[e[1]] = k /\ e[2] > cursor
    IN  SelectSeq(Entries, Pays)

Unconfirmed(k) == {t \in pool : TxKey[t] = k}

Null == [conf |-> <<>>, unconf |-> {}]
Unsub == [conf |-> <<>>, unconf |-> {NoTx}]     \* the client holds no status

\* The status of k that a scan from genesis yields.
Actual(k) == [conf |-> Confirmed(k, 0), unconf |-> Unconfirmed(k)]

NewSub == [cursor |-> 0, status |-> Null, acc |-> <<>>]

\* get_scripthash_history on subscription s of key k.  Confirmed entries are
\* absorbed for good, unconfirmed ones into a copy; no entries, no change.
get_scripthash_history(s, k) ==
    LET new == Confirmed(k, s.cursor)
        acc == s.acc \o new
        unc == Unconfirmed(k)
    IN  [cursor |-> Len(chain),
         acc    |-> acc,
         status |-> IF new = <<>> /\ unc = {} THEN s.status
                    ELSE [conf |-> acc, unconf |-> unc]]

HistorySize(k) == Len(Confirmed(k, 0)) + Cardinality(Unconfirmed(k))

-----------------------------------------------------------------------------
(* The node: each change of the archive is followed by its chase event.    *)

Seen == pool \union {chain[h] : h \in 1..Len(chain)}

AcceptTx(t) ==
    /\ t \in Tx \ Seen /\ Len(events) < MaxEvents
    /\ pool' = pool \union {t}
    /\ events' = Append(events, "transaction")
    /\ UNCHANGED <<chain, owed, pops, channel, client, posts, jobs, strand, lost>>

Organize(b) ==
    /\ Len(chain) < MaxHeight /\ Len(events) < MaxEvents
    /\ b \in {NoTx} \union pool \union (Tx \ Seen)
    /\ chain' = Append(chain, b)
    /\ pool' = pool \ {b}
    /\ owed' = IF owed = 0 THEN 0 ELSE owed - 1
    /\ events' = Append(events, "organized")
    /\ UNCHANGED <<pops, channel, client, posts, jobs, strand, lost>>

\* A disconnected block is replaced by a stronger branch: `owed` blocks follow.
Disconnect ==
    /\ chain # <<>> /\ pops < MaxPops /\ Len(events) < MaxEvents
    /\ Len(chain) + (IF owed = 0 THEN 1 ELSE owed) <= MaxHeight
    /\ LET top == chain[Len(chain)] IN
         /\ chain' = SubSeq(chain, 1, Len(chain) - 1)
         /\ pool' = pool \union ({top} \ {NoTx})
    /\ owed' = IF owed = 0 THEN 2 ELSE owed + 1
    /\ pops' = pops + 1
    /\ events' = Append(events, "reorganized")
    /\ UNCHANGED <<channel, client, posts, jobs, strand, lost>>

-----------------------------------------------------------------------------
(* The event thread.                                                       *)

Withheld(e) ==
    lost' = [k \in Key |-> IF k \in held THEN lost[k] \union {e} ELSE lost[k]]

\* Mutant: a reorganization is announced only to subscribers' scans.
handle_chase_reorg_as_scan ==
    /\ events # <<>>
    /\ events' = Tail(events)
    /\ IF ~stopped /\ duplex /\ flag
       THEN jobs' = Append(jobs, [op |-> "scripthash"]) /\ UNCHANGED lost
       ELSE UNCHANGED <<jobs, lost>>
    /\ UNCHANGED <<chain, pool, owed, pops, channel, client, posts, strand>>

\* Events are dropped on a stopped channel, on one that is not full duplex,
\* and, reorganized excepted, while subscribed_address_ is not set.
handle_chase ==
    /\ events # <<>>
    /\ events' = Tail(events)
    /\ LET e == Head(events) IN
         \/ /\ stopped
            /\ UNCHANGED <<jobs, lost>>
         \/ /\ ~stopped /\ ~duplex
            /\ Withheld(e)
            /\ UNCHANGED jobs
         \/ /\ ~stopped /\ duplex /\ e = "reorganized"
            /\ jobs' = Append(jobs, [op |-> "reorganized"])
            /\ UNCHANGED lost
         \/ /\ ~stopped /\ duplex /\ e # "reorganized" /\ flag
            /\ jobs' = Append(jobs, [op |-> "scripthash"])
            /\ UNCHANGED lost
         \/ /\ ~stopped /\ duplex /\ e # "reorganized" /\ ~flag
            /\ Withheld(e)
            /\ UNCHANGED jobs
    /\ UNCHANGED <<chain, pool, owed, pops, channel, client, posts, strand>>

-----------------------------------------------------------------------------
(* The channel strand.                                                     *)

Idle == [op |-> "none"]

\* handle_blockchain_scripthash_(un)subscribe: the gate keeps the listener
\* paused, so the next request waits for the completion of this one.
Request(op, k) ==
    /\ req = Idle /\ ~stopped /\ asked < MaxRequests
    /\ req' = [op |-> op, key |-> k]
    /\ asked' = asked + 1
    /\ jobs' = Append(jobs, [op |-> op, key |-> k])
    /\ UNCHANGED <<node, channel, view, posts, strand, lost>>

\* Mutant: the answer to an unsubscribe does not wait for the erase.
scripthash_unsubscribe_early(k) ==
    /\ req = Idle /\ ~stopped /\ asked < MaxRequests
    /\ asked' = asked + 1
    /\ view' = [view EXCEPT ![k] = Unsub]
    /\ jobs' = Append(jobs, [op |-> "unsubscribe", key |-> k])
    /\ UNCHANGED <<node, channel, req, posts, strand, lost>>

scripthash_subscribe(k) == Request("subscribe", k)
scripthash_unsubscribe(k) == Request("unsubscribe", k)

Posted(op) == posts # <<>> /\ Head(posts).op = op /\ posts' = Tail(posts)

\* A failure leaves the client's view as it was.
complete_scripthash_subscribe ==
    /\ Posted("subscribed")
    /\ req' = Idle
    /\ view' = IF stopped \/ ~Head(posts).ok THEN view
               ELSE [view EXCEPT ![Head(posts).key] = Head(posts).status]
    /\ UNCHANGED <<node, channel, asked, jobs, strand, lost>>

\* Sends on a stopped channel are lost, there is no stop check in the handler.
complete_scripthash_unsubscribe ==
    /\ Posted("unsubscribed")
    /\ req' = Idle
    /\ view' = IF stopped THEN view
               ELSE [view EXCEPT ![Head(posts).key] = Unsub]
    /\ UNCHANGED <<node, channel, asked, jobs, strand, lost>>

\* send_notification succeeds silently without a full duplex transport.
scripthash_notify ==
    /\ Posted("notify")
    /\ view' = IF stopped \/ ~duplex THEN view
               ELSE [view EXCEPT ![Head(posts).key] = Head(posts).status]
    /\ UNCHANGED <<node, channel, req, asked, jobs, strand, lost>>

\* The http connection becomes a websocket, between requests.
Upgrade ==
    /\ ~duplex /\ ~stopped /\ req = Idle
    /\ duplex' = TRUE
    /\ UNCHANGED <<node, stopped, client, posts, jobs, strand, lost>>

stopping ==
    /\ ~stopped
    /\ stopped' = TRUE
    /\ UNCHANGED <<node, duplex, client, posts, jobs, strand, lost>>

-----------------------------------------------------------------------------
(* The notification strand: one job at a time.                             *)

Start(op) ==
    /\ arming = NoKey /\ scanning = {}
    /\ jobs # <<>> /\ Head(jobs).op = op
    /\ jobs' = Tail(jobs)

\* do_scripthash_subscribe up to and including the history read.  A canceled
\* read (stopped) or, for a new subscription only, one over the limit fails and
\* a new subscription is erased.
do_scripthash_subscribe ==
    /\ Start("subscribe")
    /\ LET k == Head(jobs).key
           isNew == k \notin held
           s == IF isNew THEN NewSub ELSE sub[k]
           fails == \/ Cardinality(held) >= MaxSubs
                    \/ stopped
                    \/ isNew /\ HistorySize(k) > MaxHistory
       IN  \/ /\ fails
              /\ posts' = Append(posts, [op |-> "subscribed", key |-> k, ok |-> FALSE])
              /\ UNCHANGED <<strand, lost>>
           \/ /\ ~fails
              /\ held' = held \union {k}
              /\ sub' = [sub EXCEPT ![k] = get_scripthash_history(s, k)]
              /\ lost' = IF isNew THEN [lost EXCEPT ![k] = {}] ELSE lost
              /\ arming' = k
              /\ UNCHANGED <<flag, scanning, posts>>
    /\ UNCHANGED <<node, channel, client>>

\* Mutant: a subscription without history yet does not arm the events.
store_subscribed_if_history ==
    /\ arming # NoKey
    /\ flag' = (flag \/ sub[arming].status # Null)
    /\ posts' = Append(posts, [op |-> "subscribed", key |-> arming, ok |-> TRUE,
                               status |-> sub[arming].status])
    /\ arming' = NoKey
    /\ UNCHANGED <<node, channel, client, jobs, held, sub, scanning, lost>>

\* The rest of do_scripthash_subscribe: set the flag, post the completion.
store_subscribed ==
    /\ arming # NoKey
    /\ flag' = TRUE
    /\ posts' = Append(posts, [op |-> "subscribed", key |-> arming, ok |-> TRUE,
                               status |-> sub[arming].status])
    /\ arming' = NoKey
    /\ UNCHANGED <<node, channel, client, jobs, held, sub, scanning, lost>>

\* Mutant: an unknown key is not answered.
do_scripthash_unsubscribe_found_only ==
    /\ Start("unsubscribe")
    /\ LET k == Head(jobs).key IN
         /\ held' = held \ {k}
         /\ sub' = [sub EXCEPT ![k] = NewSub]
         /\ lost' = [lost EXCEPT ![k] = {}]
         /\ flag' = (flag /\ held' # {})
         /\ posts' = IF k \notin held THEN posts
                     ELSE Append(posts, [op |-> "unsubscribed", key |-> k])
    /\ UNCHANGED <<node, channel, client, arming, scanning>>

do_scripthash_unsubscribe ==
    /\ Start("unsubscribe")
    /\ LET k == Head(jobs).key IN
         /\ held' = held \ {k}
         /\ sub' = [sub EXCEPT ![k] = NewSub]
         /\ lost' = [lost EXCEPT ![k] = {}]
         /\ flag' = (flag /\ held' # {})
         /\ posts' = Append(posts, [op |-> "unsubscribed", key |-> k])
    /\ UNCHANGED <<node, channel, client, arming, scanning>>

do_scripthash ==
    /\ Start("scripthash")
    /\ scanning' = held
    /\ UNCHANGED <<node, channel, client, posts, held, sub, flag, arming, lost>>

\* One iteration of the loop of do_scripthash; a canceled query ends the loop.
do_scripthash_next(k) ==
    /\ k \in scanning
    /\ \/ /\ stopped
          /\ scanning' = {}
          /\ UNCHANGED <<sub, posts, lost>>
       \/ /\ ~stopped
          /\ scanning' = scanning \ {k}
          /\ LET s == get_scripthash_history(sub[k], k) IN
               /\ sub' = [sub EXCEPT ![k] = s]
               /\ posts' = IF s.status = sub[k].status THEN posts
                           ELSE Append(posts, [op |-> "notify", key |-> k,
                                               status |-> s.status])
          /\ lost' = [lost EXCEPT ![k] = @ \ {"transaction", "organized"}]
    /\ UNCHANGED <<node, channel, client, jobs, held, flag, arming>>

\* Mutant: the accumulator survives a reorganization.
do_reorganized_keep_midstate ==
    /\ Start("reorganized")
    /\ sub' = [k \in Key |-> [sub[k] EXCEPT !.cursor = 0, !.status = Null]]
    /\ lost' = [k \in Key |-> lost[k] \ {"reorganized"}]
    /\ UNCHANGED <<node, channel, client, posts, held, flag, arming, scanning>>

do_reorganized ==
    /\ Start("reorganized")
    /\ sub' = [k \in Key |-> NewSub]
    /\ lost' = [k \in Key |-> lost[k] \ {"reorganized"}]
    /\ UNCHANGED <<node, channel, client, posts, held, flag, arming, scanning>>

-----------------------------------------------------------------------------
Init ==
    /\ chain = <<>> /\ pool = {} /\ owed = 0 /\ pops = 0 /\ events = <<>>
    /\ duplex = StartDuplex /\ stopped = FALSE
    /\ req = Idle /\ asked = 0 /\ view = [k \in Key |-> Unsub]
    /\ posts = <<>> /\ jobs = <<>>
    /\ held = {} /\ sub = [k \in Key |-> NewSub] /\ flag = FALSE
    /\ arming = NoKey /\ scanning = {}
    /\ lost = [k \in Key |-> {}]

NodeStep ==
    \/ \E t \in Tx : AcceptTx(t)
    \/ \E b \in Tx \union {NoTx} : Organize(b)
    \/ Disconnect

ChannelStep ==
    \/ complete_scripthash_subscribe
    \/ complete_scripthash_unsubscribe
    \/ scripthash_notify

NotificationStep ==
    \/ do_scripthash_subscribe
    \/ store_subscribed
    \/ do_scripthash_unsubscribe
    \/ do_scripthash
    \/ \E k \in Key : do_scripthash_next(k)
    \/ do_reorganized

ClientStep ==
    \/ \E k \in Key : scripthash_subscribe(k)
    \/ \E k \in Key : scripthash_unsubscribe(k)
    \/ Upgrade

Next ==
    \/ NodeStep
    \/ handle_chase
    \/ ClientStep
    \/ ChannelStep
    \/ NotificationStep
    \/ stopping

\* Threads of the pool keep running posted work; nothing obliges the node, the
\* client or a stop.
Fairness ==
    /\ WF_vars(handle_chase)
    /\ WF_vars(ChannelStep)
    /\ WF_vars(NotificationStep)

Spec == Init /\ [][Next]_vars /\ Fairness

-----------------------------------------------------------------------------
(* Properties.                                                             *)

\* Between two jobs of the notification strand subscribed_address_ says exactly
\* whether a subscription is held, so that handle_chase posts a scan whenever
\* there is something to scan and never otherwise; a job in progress works on
\* subscriptions that are held, of which there are no more than configured.
FlagMatchesHeld ==
    /\ arming = NoKey => (flag <=> held # {})
    /\ arming # NoKey => arming \in held /\ scanning = {}
    /\ scanning \subseteq held
    /\ Cardinality(held) <= MaxSubs

Pending(e) == \E i \in 1..Len(events) : events[i] = e
Queued(op) == \E i \in 1..Len(jobs) : jobs[i].op = op

\* On a live channel the midstate of a subscription that has processed every
\* reorganization is that of exactly the confirmed history up to its cursor:
\* get_scripthash_history absorbs each entry once and do_reorganized leaves
\* nothing of the old branch.
MidstateMatchesCursor ==
    ~stopped /\ ~Pending("reorganized") /\ ~Queued("reorganized") =>
        \A k \in held : "reorganized" \notin lost[k] =>
            /\ sub[k].cursor <= Len(chain)
            /\ sub[k].acc = SelectSeq(Confirmed(k, 0),
                                     LAMBDA e : e[2] <= sub[k].cursor)

Rest ==
    /\ events = <<>> /\ jobs = <<>> /\ posts = <<>>
    /\ arming = NoKey /\ scanning = {} /\ owed = 0
    /\ duplex /\ ~stopped

\* When all strands have drained, the last status the client was sent for each
\* of its subscriptions is the one a scan from genesis gives, unless handle_chase
\* withheld an event from that subscription.
CurrentAtRest ==
    Rest => \A k \in held : lost[k] = {} => view[k] = Actual(k)

\* "subscriptions on an http (post) connection are held but not computed until
\* it is upgraded" (protocol_electrum.cpp:149): once upgraded, and scanned, the
\* client has been sent the status of the present chain.
ComputedOnceUpgraded ==
    Rest => \A k \in held :
        lost[k] \subseteq {"reorganized"} => view[k] = Actual(k)

\* A notification is sent only for a key that the client was told it holds: the
\* order of the two strands keeps it behind the answer to the subscribe and
\* ahead of the answer to the unsubscribe.
NotifyOnlySubscribed ==
    ~stopped /\ posts # <<>> /\ Head(posts).op = "notify" =>
        view[Head(posts).key] # Unsub

Tokens ==
    Cardinality({i \in 1..Len(jobs) : jobs[i].op \in {"subscribe", "unsubscribe"}})
    + Cardinality({i \in 1..Len(posts) : posts[i].op \in {"subscribed", "unsubscribed"}})
    + (IF arming = NoKey THEN 0 ELSE 1)

\* The gate is exact: while a request is outstanding its continuation is in one
\* place only (either strand, or between them), and otherwise there is none.
OneContinuation == Tokens = IF req = Idle THEN 0 ELSE 1

\* Every request is completed (its gate is released) under fair strands.
RequestCompletes == (req # Idle) ~> (req = Idle)
=============================================================================
