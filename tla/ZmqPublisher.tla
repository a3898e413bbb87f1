---------------------------- MODULE ZmqPublisher ----------------------------
(***************************************************************************)
(* The bitcoind zmq publisher: protocol_bitcoind_zmq.cpp, for all of the   *)
(* channels of the session.                                                *)
(*                                                                         *)
(* A peer subscribes to topic prefixes; each of the five topics is one     *)
(* flag of the channel.  The raw topics are fed by wire broadcasts, which  *)
(* the node emits only while it counts a demand for them: the counters are *)
(* shared by all channels (session::demand_wire_*, held by the node).      *)
(* The other topics are fed by chase events, posted to the channel strand  *)
(* by the event thread and published from there.  handle_chase reads the   *)
(* flags with relaxed loads while handle_subscribe may be writing them one *)
(* by one: it only takes their disjunction, so what it sees is what it     *)
(* would see before or after the whole of handle_subscribe, an atomic step.*)
(*                                                                         *)
(* A block carries one transaction.  An event's link is always archived    *)
(* (the not found paths only log).  pool_ is left out: it counts the       *)
(* "A" messages, and only appears in their bodies.                         *)
(***************************************************************************)
EXTENDS Integers, Sequences, FiniteSets

CONSTANTS
    Channel,            \* zmq channels
    Prefix,             \* topic prefixes a peer may subscribe or cancel
    Match,              \* the topics each prefix starts
    MaxSubscriptions,   \* options_.maximum_subscriptions
    Modulus,            \* of the sequence numbers, 2^32 in the code
    MaxInputs           \* bound: subscribes, cancels, chase events and broadcasts

Topic == {"hashblock", "rawblock", "hashtx", "rawtx", "sequence"}

ASSUME ChannelAssumption == IsFiniteSet(Channel)
ASSUME MatchAssumption == Match \in [Prefix -> SUBSET Topic]
ASSUME ModulusAssumption == Modulus \in Nat \ {0}

VARIABLES
    topics,         \* [c] the subscribed_* flags that are set
    count,          \* [c] subscriptions_
    state,          \* [c] "open", "stopping" (stopped, not yet torn down), "stopped"
    txDemand, blockDemand,  \* the node's counts of demands (external)
    chase,          \* events the node has raised, in order (external)
    wires,          \* number of wire broadcasts (external)
    current,        \* is_current_chain (external)
    seen,           \* [c] events handled by handle_chase
    posts,          \* [c] work on the channel strand
    number,         \* [c][topic] next sequence number
    log,            \* [c] messages published
    since, dropped, \* [c] history: events seen at the last start of "sequence",
                    \*     events not posted because the chain was not current
    inputs          \* of peers and the node, to bound them

demand == <<txDemand, blockDemand>>
nodeVars == <<chase, wires, current>>
subVars == <<topics, count, demand>>
vars == <<topics, count, state, demand, nodeVars, seen, posts, number, log,
          since, dropped, inputs>>

Input == inputs < MaxInputs /\ inputs' = inputs + 1

-----------------------------------------------------------------------------
(* Subscription and teardown, on the channel strand.                       *)

\* set_subscription(topic) is true when the flag changes.
Changes(c, topic, prefix, cancel) ==
    topic \in Match[prefix] /\ (topic \in topics[c] <=> cancel)

One(b) == IF b THEN 1 ELSE 0

Flip(c, prefix, cancel) ==
    topics' = [topics EXCEPT ![c] = IF cancel THEN @ \ Match[prefix]
                                              ELSE @ \union Match[prefix]]

\* Block txs are published from the block broadcast, so rawtx demands both.
Demand(c, prefix, cancel) ==
    LET sign == IF cancel THEN -1 ELSE 1
        block == One(Changes(c, "rawblock", prefix, cancel))
        tx == One(Changes(c, "rawtx", prefix, cancel))
    IN  /\ txDemand' = txDemand + sign * tx
        /\ blockDemand' = blockDemand + sign * (block + tx)

\* There is no response, so a subscription over the limit stops the channel.
handle_subscribe(c, prefix, cancel) ==
    /\ state[c] = "open" /\ Input
    /\ \/ /\ cancel
          /\ count' = [count EXCEPT ![c] = IF @ = 0 THEN 0 ELSE @ - 1]
          /\ Flip(c, prefix, cancel) /\ Demand(c, prefix, cancel)
          /\ UNCHANGED <<state, since>>
       \/ /\ ~cancel /\ count[c] + 1 <= MaxSubscriptions
          /\ count' = [count EXCEPT ![c] = @ + 1]
          /\ Flip(c, prefix, cancel) /\ Demand(c, prefix, cancel)
          /\ since' = IF Changes(c, "sequence", prefix, cancel)
                      THEN [since EXCEPT ![c] = seen[c]] ELSE since
          /\ UNCHANGED state
       \/ /\ ~cancel /\ count[c] + 1 > MaxSubscriptions
          /\ count' = [count EXCEPT ![c] = @ + 1]
          /\ state' = [state EXCEPT ![c] = "stopping"]
          /\ UNCHANGED <<topics, demand, since>>
    /\ UNCHANGED <<nodeVars, seen, posts, number, log, dropped>>

\* The peer closes, or the server stops the channel (external).
Close(c) ==
    /\ state[c] = "open"
    /\ state' = [state EXCEPT ![c] = "stopping"]
    /\ UNCHANGED <<subVars, inputs, nodeVars, seen, posts, number, log, since, dropped>>

\* Mutant: the block demand of a rawtx subscription is not given back.
stopping_tx_only(c) ==
    /\ state[c] = "stopping"
    /\ state' = [state EXCEPT ![c] = "stopped"]
    /\ txDemand' = txDemand - One("rawtx" \in topics[c])
    /\ blockDemand' = blockDemand - One("rawblock" \in topics[c])
    /\ topics' = [topics EXCEPT ![c] = @ \ {"rawtx", "rawblock"}]
    /\ UNCHANGED <<count, inputs, nodeVars, seen, posts, number, log, since, dropped>>

stopping(c) ==
    /\ state[c] = "stopping"
    /\ state' = [state EXCEPT ![c] = "stopped"]
    /\ txDemand' = txDemand - One("rawtx" \in topics[c])
    /\ blockDemand' = blockDemand - One("rawtx" \in topics[c])
                                  - One("rawblock" \in topics[c])
    /\ topics' = [topics EXCEPT ![c] = @ \ {"rawtx", "rawblock"}]
    /\ UNCHANGED <<count, inputs, nodeVars, seen, posts, number, log, since, dropped>>

-----------------------------------------------------------------------------
(* The node (external): chase events, wire broadcasts, chain currency.     *)

\* C: organized, D: reorganized, A: transaction.
RaiseChase(e) ==
    /\ Input
    /\ chase' = Append(chase, e)
    /\ UNCHANGED <<subVars, state, wires, current, seen, posts, number, log,
                   since, dropped>>

\* A broadcast reaches every channel, if the node counts a demand for it.
Broadcast(w) ==
    /\ Input
    /\ IF w = "wire_tx" THEN txDemand > 0 ELSE blockDemand > 0
    /\ wires' = wires + 1
    /\ posts' = [c \in Channel |-> IF state[c] = "open"
                    THEN Append(posts[c], [job |-> w, at |-> wires + 1])
                    ELSE posts[c]]
    /\ UNCHANGED <<subVars, state, chase, current, seen, number, log, since, dropped>>

CurrencyChanges ==
    /\ current' = ~current
    /\ UNCHANGED <<subVars, inputs, state, chase, wires, seen, posts, number, log,
                   since, dropped>>

-----------------------------------------------------------------------------
(* The event thread.                                                       *)

blocks(c) == topics[c] \intersect {"hashblock", "sequence"} # {}
transactions(c) == "hashtx" \in topics[c]
sequences(c) == "sequence" \in topics[c]

Wanted(c, e) ==
    IF e = "A" THEN transactions(c) \/ sequences(c)
               ELSE (blocks(c) \/ transactions(c)) /\ current

handle_chase(c) ==
    /\ seen[c] < Len(chase)
    /\ seen' = [seen EXCEPT ![c] = @ + 1]
    /\ LET i == seen[c] + 1 IN
         \/ /\ state[c] = "open" /\ Wanted(c, chase[i])
            /\ posts' = [posts EXCEPT ![c] = Append(@, [job |-> chase[i], at |-> i])]
            /\ UNCHANGED dropped
         \/ /\ state[c] = "open" /\ ~Wanted(c, chase[i])
            /\ dropped' = IF chase[i] # "A" /\ ~current
                          THEN [dropped EXCEPT ![c] = @ \union {i}] ELSE dropped
            /\ UNCHANGED posts
         \/ /\ state[c] # "open"
            /\ UNCHANGED <<posts, dropped>>
    /\ UNCHANGED <<subVars, inputs, state, nodeVars, number, log, since>>

-----------------------------------------------------------------------------
(* Publication, on the channel strand.                                     *)

\* The topics a job publishes.  Only an organized block is published by its
\* hash or raw, its transactions always.
TopicsOf(job) ==
    IF job \in {"C", "D", "A"}
    THEN {"hashtx", "sequence"} \union (IF job = "C" THEN {"hashblock"} ELSE {})
    ELSE {"rawtx"} \union (IF job = "wire_block" THEN {"rawblock"} ELSE {})

\* publish: nothing unless the topic is subscribed when the job runs.
Message(c, p, topic) ==
    IF topic \in TopicsOf(p.job) /\ topic \in topics[c]
    THEN <<[topic |-> topic, job |-> p.job, at |-> p.at, number |-> number[c][topic]]>>
    ELSE <<>>

\* Mutant: the sequence topic is not published for a disconnected block.
Messages_no_disconnect(c, p) ==
    Message(c, p, "hashtx") \o Message(c, p, "hashblock")
        \o (IF p.job = "D" THEN <<>> ELSE Message(c, p, "sequence"))
        \o Message(c, p, "rawtx") \o Message(c, p, "rawblock")

\* The messages of a job, in the order of publication.
Messages(c, p) ==
    Message(c, p, "hashtx") \o Message(c, p, "hashblock") \o Message(c, p, "sequence")
        \o Message(c, p, "rawtx") \o Message(c, p, "rawblock")

\* Mutant: a number is taken whether or not the topic is published.
Numbered_always(c, m, job) ==
    [t \in Topic |-> IF t \in TopicsOf(job)
                     THEN (number[c][t] + 1) % Modulus ELSE number[c][t]]

\* The uint32 counters advance with each message of their topic, and wrap.
Numbered(c, m, job) ==
    [t \in Topic |-> IF \E i \in 1..Len(m) : m[i].topic = t
                     THEN (number[c][t] + 1) % Modulus ELSE number[c][t]]

\* do_organized, do_reorganized, do_transaction, handle_wire_tx,
\* handle_wire_block: nothing is published once the channel is stopped.
run_post(c) ==
    /\ posts[c] # <<>>
    /\ posts' = [posts EXCEPT ![c] = Tail(@)]
    /\ \/ /\ state[c] = "open"
          /\ LET p == Head(posts[c])
                 m == Messages(c, p)
             IN  /\ log' = [log EXCEPT ![c] = @ \o m]
                 /\ number' = [number EXCEPT ![c] = Numbered(c, m, p.job)]
       \/ /\ state[c] # "open"
          /\ UNCHANGED <<log, number>>
    /\ UNCHANGED <<subVars, inputs, state, nodeVars, seen, since, dropped>>

-----------------------------------------------------------------------------
Init ==
    /\ topics = [c \in Channel |-> {}]
    /\ count = [c \in Channel |-> 0]
    /\ state = [c \in Channel |-> "open"]
    /\ txDemand = 0 /\ blockDemand = 0
    /\ chase = <<>> /\ wires = 0 /\ current = TRUE
    /\ seen = [c \in Channel |-> 0]
    /\ posts = [c \in Channel |-> <<>>]
    /\ number = [c \in Channel |-> [t \in Topic |-> 0]]
    /\ log = [c \in Channel |-> <<>>]
    /\ since = [c \in Channel |-> 0]
    /\ dropped = [c \in Channel |-> {}]
    /\ inputs = 0

NodeStep ==
    \/ \E e \in {"C", "D", "A"} : RaiseChase(e)
    \/ \E w \in {"wire_tx", "wire_block", "wire_reorganized"} : Broadcast(w)
    \/ CurrencyChanges

ChannelStep(c) ==
    \/ \E p \in Prefix, cancel \in BOOLEAN : handle_subscribe(c, p, cancel)
    \/ Close(c)
    \/ stopping(c)
    \/ handle_chase(c)
    \/ run_post(c)

Next == NodeStep \/ \E c \in Channel : ChannelStep(c)

Spec == Init /\ [][Next]_vars
-----------------------------------------------------------------------------
(* Properties.                                                             *)

Subscribers(t) == {c \in Channel : t \in topics[c]}

\* The node's demand counts are exactly those of the raw subscriptions of live
\* channels: overlapping prefixes, repeats, cancels of what was not subscribed,
\* the limit and every order of stops neither leak a demand (the node would
\* build wire messages for nobody) nor drop one (a subscriber would starve).
DemandBalance ==
    /\ txDemand = Cardinality(Subscribers("rawtx"))
    /\ blockDemand = Cardinality(Subscribers("rawtx")) + Cardinality(Subscribers("rawblock"))
    /\ \A c \in Channel : state[c] = "stopped" =>
           "rawtx" \notin topics[c] /\ "rawblock" \notin topics[c]

\* The messages of the topic of message i that precede it.
Earlier(c, i) == {j \in 1..(i - 1) : log[c][j].topic = log[c][i].topic}

\* The messages of a topic are numbered from zero, each one up (modulo the width
\* of the number) from the one before, and follow the order of the events or
\* broadcasts without repetition, whatever is subscribed or cancelled between.
NumberedInOrder ==
    \A c \in Channel : \A i \in 1..Len(log[c]) :
        /\ Earlier(c, i) = {} => log[c][i].number = 0
        /\ \A j \in Earlier(c, i) :
              /\ log[c][j].at < log[c][i].at
              /\ (\A k \in Earlier(c, i) : k <= j) =>
                    log[c][i].number = (log[c][j].number + 1) % Modulus

\* A drained channel subscribed to the sequence topic has been sent every
\* connect, disconnect and accept since it subscribed, but for the block events
\* that were raised while the chain was not current.
SequenceComplete ==
    \A c \in Channel :
        state[c] = "open" /\ sequences(c) /\ posts[c] = <<>> =>
            \A i \in (since[c] + 1)..seen[c] : i \notin dropped[c] =>
                \E m \in 1..Len(log[c]) :
                    /\ log[c][m].topic = "sequence"
                    /\ log[c][m].at = i /\ log[c][m].job = chase[i]
=============================================================================
