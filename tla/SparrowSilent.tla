---------------------------- MODULE SparrowSilent ----------------------------
(***************************************************************************)
(* Silent payment subscriptions of one sparrow channel:                    *)
(* protocol_sparrow.cpp.                                                   *)
(*                                                                         *)
(* As in electrum, requests are completed on the channel strand (`posts`), *)
(* and a notification strand (`jobs`) owns silent_subscriptions_.  Scans   *)
(* coalesce: at most one is queued, which reads rows up to the frontier it *)
(* finds when it runs.                                                     *)
(*                                                                         *)
(* The archive (external) appends rows, one to a height, each matching     *)
(* one of the addresses, and then raises an event.  A cut is a range of    *)
(* heights or, by its flag, of times; the time of a row is its height.     *)
(* A cursor is the number of rows scanned.  Keys, labels and addresses are *)
(* valid (others are answered at once with an error).                      *)
(***************************************************************************)
EXTENDS Naturals, Sequences, FiniteSets

CONSTANTS
    Address,                \* addresses that rows match and clients subscribe
    Cut,                    \* [start, stop, time] ranges clients may request
    StartDuplex,            \* {FALSE}: the connection begins as http (post)
    Limit,                  \* values of options().maximum_subscriptions
    PageSize,               \* page_size
    MaxRows, MaxEvents, MaxRequests     \* bounds

ASSUME AddressAssumption == IsFiniteSet(Address)
ASSUME CutAssumption == Cut \subseteq [start : Nat, stop : Nat, time : BOOLEAN]
ASSUME PageAssumption == PageSize \in Nat \ {0} /\ Limit \subseteq Nat

VARIABLES
    rows, events,               \* archive and node (external)
    duplex, stopped, maximum,   \* channel state, and the limit configured
    pending, asked,             \* a request is outstanding, requests made
    posts, jobs,                \* work of the two strands
    held, cut, cursor,          \* silent_subscriptions_
    flag, queued,               \* subscribed_silent_, queued_silent_
    busy,                       \* the rest of the job that runs
    got,                        \* [a] rows notified since the last subscribe
    withheld                    \* [a] history: notified or due while not duplex

archive == <<rows, events>>
channel == <<duplex, stopped, maximum>>
client == <<pending, asked, got>>
subs == <<held, cut, cursor>>
vars == <<archive, channel, client, posts, jobs, subs, flag, queued, busy, withheld>>

Free == [op |-> "free"]
Smaller(a, b) == IF a < b THEN a ELSE b

\* get_silent_floor: the rows before the start of a cut.
Floor(c) == Smaller(IF c.start = 0 THEN 0 ELSE c.start - 1, Len(rows))

\* get_silent_matches of address a, above cursor `from` up to row `last`.
Matches(a, from, last, c) ==
    LET Hit(i) == rows[i] = a /\ i > from /\ i <= last /\ c.start <= i /\ i <= c.stop
    IN  SelectSeq([i \in 1..Len(rows) |-> i], Hit)

\* Mutant: the last page is dropped unless it is full.
Pages_full(s) ==
    [p \in 1..(Len(s) \div PageSize) |-> SubSeq(s, (p - 1) * PageSize + 1, p * PageSize)]

\* History is sent in pages, of which there is at least one.
Pages(s) ==
    LET ceiling == (Len(s) + PageSize - 1) \div PageSize
        pages == IF ceiling = 0 THEN 1 ELSE ceiling
    IN  [p \in 1..pages |->
            SubSeq(s, (p - 1) * PageSize + 1, Smaller(p * PageSize, Len(s)))]

-----------------------------------------------------------------------------
(* The node and the event thread.                                          *)

Archive(a) ==
    /\ Len(rows) < MaxRows /\ Len(events) < MaxEvents
    /\ rows' = Append(rows, a)
    /\ events' = Append(events, "row")
    /\ UNCHANGED <<channel, client, posts, jobs, subs, flag, queued, busy, withheld>>

\* transaction and organized: a scan is posted unless one is queued.
handle_chase ==
    /\ events # <<>>
    /\ events' = Tail(events)
    /\ \/ /\ ~stopped /\ duplex /\ flag /\ ~queued
          /\ queued' = TRUE
          /\ jobs' = Append(jobs, [op |-> "scan"])
          /\ UNCHANGED withheld
       \/ /\ ~stopped /\ duplex /\ flag /\ queued
          /\ UNCHANGED <<queued, jobs, withheld>>
       \/ /\ stopped \/ ~duplex \/ ~flag
          /\ withheld' = IF duplex THEN withheld ELSE withheld \union held
          /\ UNCHANGED <<queued, jobs>>
    /\ UNCHANGED <<rows, channel, client, posts, subs, flag, busy>>

-----------------------------------------------------------------------------
(* The channel strand.  The gate keeps the listener paused until completion.*)

Request ==
    /\ ~pending /\ ~stopped /\ asked < MaxRequests
    /\ pending' = TRUE /\ asked' = asked + 1
    /\ UNCHANGED <<archive, channel, got, posts, subs, flag, queued, busy, withheld>>

silent_payments_subscribe(a, c) ==
    /\ Request
    /\ jobs' = Append(jobs, [op |-> "subscribe", address |-> a, cut |-> c])

silent_payments_unsubscribe(a) ==
    /\ Request
    /\ jobs' = Append(jobs, [op |-> "unsubscribe", address |-> a])

Posted(op) == posts # <<>> /\ Head(posts).op = op /\ posts' = Tail(posts)

\* The client's history of an address begins with its subscription.
complete_silent_subscribe ==
    /\ Posted("subscribed")
    /\ pending' = FALSE
    /\ got' = IF stopped \/ ~Head(posts).ok THEN got
              ELSE [got EXCEPT ![Head(posts).address] = <<>>]
    /\ UNCHANGED <<archive, channel, asked, jobs, subs, flag, queued, busy, withheld>>

complete_silent_unsubscribe ==
    /\ Posted("unsubscribed")
    /\ pending' = FALSE
    /\ UNCHANGED <<archive, channel, asked, got, jobs, subs, flag, queued, busy, withheld>>

\* A notification requires a full duplex transport.
silent_notify ==
    /\ Posted("notify")
    /\ got' = IF stopped \/ ~duplex THEN got
              ELSE [got EXCEPT ![Head(posts).address] = @ \o Head(posts).rows]
    /\ withheld' = IF duplex THEN withheld ELSE withheld \union {Head(posts).address}
    /\ UNCHANGED <<archive, channel, pending, asked, jobs, subs, flag, queued, busy>>

Upgrade ==
    /\ ~duplex /\ ~stopped /\ ~pending
    /\ duplex' = TRUE
    /\ UNCHANGED <<archive, stopped, maximum, client, posts, jobs, subs, flag, queued, busy, withheld>>

stopping ==
    /\ ~stopped
    /\ stopped' = TRUE
    /\ UNCHANGED <<archive, duplex, maximum, client, posts, jobs, subs, flag, queued, busy, withheld>>

-----------------------------------------------------------------------------
(* The notification strand.                                                *)

Start(op) == busy = Free /\ jobs # <<>> /\ Head(jobs).op = op /\ jobs' = Tail(jobs)

\* A resubscription of the same kind keeps the lesser start.
Merged(a, c) ==
    IF a \in held /\ cut[a].time = c.time
    THEN [c EXCEPT !.start = Smaller(cut[a].start, c.start)] ELSE c

\* do_silent_subscribe, up to the cursor.
do_silent_subscribe ==
    /\ Start("subscribe")
    /\ LET a == Head(jobs).address
           c == Merged(a, Head(jobs).cut)
       IN  \/ /\ a \notin held /\ Cardinality(held) >= maximum
              /\ posts' = Append(posts, [op |-> "subscribed", address |-> a, ok |-> FALSE])
              /\ UNCHANGED <<subs, busy, withheld>>
           \/ /\ a \in held \/ Cardinality(held) < maximum
              /\ held' = held \union {a}
              /\ cut' = [cut EXCEPT ![a] = c]
              /\ cursor' = [cursor EXCEPT ![a] = Floor(c)]
              /\ busy' = [op |-> "flag", address |-> a]
              /\ withheld' = withheld \ {a}
              /\ UNCHANGED posts
    /\ UNCHANGED <<archive, channel, client, flag, queued>>

\* The flag is stored and the answer posted, before the history is scanned.
store_subscribed ==
    /\ busy.op = "flag"
    /\ flag' = TRUE
    /\ posts' = Append(posts, [op |-> "subscribed", address |-> busy.address, ok |-> TRUE])
    /\ busy' = [op |-> "scan", addresses |-> {busy.address}, initial |-> TRUE]
    /\ UNCHANGED <<archive, channel, client, jobs, subs, queued, withheld>>

do_silent_unsubscribe ==
    /\ Start("unsubscribe")
    /\ held' = held \ {Head(jobs).address}
    /\ flag' = (flag /\ held' # {})
    /\ posts' = Append(posts, [op |-> "unsubscribed"])
    /\ UNCHANGED <<archive, channel, client, cut, cursor, queued, busy, withheld>>

\* Mutant: the queued mark is left to the end of the scan.
do_silent_marked ==
    /\ Start("scan")
    /\ queued' = queued
    /\ busy' = IF held = {} THEN Free
               ELSE [op |-> "scan", addresses |-> held, initial |-> FALSE]
    /\ UNCHANGED <<archive, channel, client, posts, subs, flag, withheld>>

\* do_silent clears the queued mark before it reads the frontier.
do_silent ==
    /\ Start("scan")
    /\ queued' = FALSE
    /\ busy' = IF held = {} THEN Free
               ELSE [op |-> "scan", addresses |-> held, initial |-> FALSE]
    /\ UNCHANGED <<archive, channel, client, posts, subs, flag, withheld>>

\* scan_silent of one subscription, of the addresses to scan up to `last`: the
\* frontier is read when the first is scanned.
scan_silent(a) ==
    LET last == IF "last" \in DOMAIN busy THEN busy.last ELSE Len(rows)
        found == Matches(a, cursor[a], last, cut[a])
        pages == IF ~busy.initial /\ found = <<>> THEN <<>> ELSE Pages(found)
        rest == busy.addresses \ {a}
    IN  /\ busy.op = "scan" /\ a \in busy.addresses
        /\ busy' = IF rest = {} THEN Free
                   ELSE [op |-> "scan", addresses |-> rest,
                         initial |-> busy.initial, last |-> last]
        /\ \/ /\ stopped        \* the query is canceled
              /\ UNCHANGED <<cursor, posts>>
           \/ /\ ~stopped
              /\ cursor' = [cursor EXCEPT ![a] = last]
              /\ posts' = posts \o [p \in 1..Len(pages) |->
                            [op |-> "notify", address |-> a, rows |-> pages[p]]]
        /\ UNCHANGED <<archive, channel, client, jobs, held, cut, flag, queued, withheld>>

-----------------------------------------------------------------------------
Init ==
    /\ rows = <<>> /\ events = <<>>
    /\ duplex \in StartDuplex /\ stopped = FALSE /\ maximum \in Limit
    /\ pending = FALSE /\ asked = 0 /\ got = [a \in Address |-> <<>>]
    /\ posts = <<>> /\ jobs = <<>> /\ busy = Free
    /\ held = {} /\ flag = FALSE /\ queued = FALSE /\ withheld = {}
    /\ cut = [a \in Address |-> [start |-> 0, stop |-> 0, time |-> FALSE]]
    /\ cursor = [a \in Address |-> 0]

ClientStep ==
    \/ \E a \in Address, c \in Cut : silent_payments_subscribe(a, c)
    \/ \E a \in Address : silent_payments_unsubscribe(a)
    \/ Upgrade

ChannelStep ==
    complete_silent_subscribe \/ complete_silent_unsubscribe \/ silent_notify

NotificationStep ==
    \/ do_silent_subscribe \/ store_subscribed \/ do_silent_unsubscribe \/ do_silent
    \/ \E a \in Address : scan_silent(a)

Next ==
    \/ \E a \in Address : Archive(a)
    \/ handle_chase \/ ClientStep \/ ChannelStep \/ NotificationStep \/ stopping

Spec == Init /\ [][Next]_vars
-----------------------------------------------------------------------------
(* Properties.                                                             *)

\* subscribed_silent_ is set whenever a subscription is held and no job runs,
\* and a scan is queued exactly when queued_silent_ says so: it is never marked
\* with no scan to come, which would silence the channel for good.
QueuedScan ==
    /\ busy = Free => (flag <=> held # {})
    /\ queued <=> \E i \in 1..Len(jobs) : jobs[i].op = "scan"
    /\ Cardinality({i \in 1..Len(jobs) : jobs[i].op = "scan"}) <= 1
    /\ Cardinality(held) <= maximum

Rest ==
    /\ events = <<>> /\ jobs = <<>> /\ posts = <<>> /\ busy = Free
    /\ duplex /\ ~stopped

\* When the strands have drained, the client has been sent every row of its
\* subscription once and in order, from its start to the end of the archive:
\* no event is lost between the queued mark, the flag and the frontier, and no
\* page of history is lost or repeated.
CompleteAtRest ==
    Rest => \A a \in held \ withheld :
        got[a] = Matches(a, 0, Len(rows), cut[a])
=============================================================================
