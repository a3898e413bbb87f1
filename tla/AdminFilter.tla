----------------------------- MODULE AdminFilter -----------------------------
(***************************************************************************)
(* The log (and, identically, the event) subscription of an admin channel: *)
(* protocol_admin.cpp.                                                     *)
(*                                                                         *)
(* One atomic word holds the filter bits and, leftmost, a sentinel which   *)
(* says that a handler is registered with the log.  The channel strand     *)
(* writes it in update_filter; the log strand reads it in get_filter and   *)
(* unregisters a handler whose filter is empty with a compare-exchange.    *)
(* Nothing else orders the two.                                            *)
(*                                                                         *)
(* The log (external) registers and notifies handlers on a strand of its   *)
(* own, one message at a time; a handler that returns false is removed.    *)
(***************************************************************************)
EXTENDS Naturals, Sequences

CONSTANTS
    Bit,            \* levels (or events) that a filter selects
    MaxSubscribes,  \* bound: subscription requests
    MaxMessages     \* bound: log messages notified

ASSUME BitAssumption == {} \notin Bit

VARIABLES
    filter,         \* log_state_: [on |-> sentinel, bits |-> filter]
    registering,    \* 1 between update_filter and subscribe_messages, else 0
    pending,        \* registrations posted to the log strand
    handlers,       \* handlers registered with the log
    message,        \* the message being notified, or Idle
    logs,           \* do_log posted to the channel strand
    notified,       \* messages notified to the client
    last, previous, \* the client's last filter, and the response it was sent
    websocket, closed,  \* the connection is upgraded, the channel is stopped
    subscribes, count   \* requests, and messages notified

channel == <<websocket, closed>>
client == <<last, previous, subscribes>>
filterVars == <<filter, registering, pending, handlers, message, logs, notified,
          client, channel, count>>

Word == [on : {0, 1}, bits : SUBSET Bit]
Off == [on |-> 0, bits |-> {}]
Unread == [on |-> 0, bits |-> {{}}]     \* no word loaded
Idle == [bit |-> {}, todo |-> 0, loaded |-> Unread]

-----------------------------------------------------------------------------
(* The channel strand.                                                     *)

\* Mutant: an empty filter also clears the sentinel.
update_filter_clear(value) ==
    filter' = IF value = {} THEN Off ELSE [on |-> 1, bits |-> value]

\* fetch_and of the sentinel when the value is empty, else exchange.
update_filter(value) ==
    filter' = IF value = {} THEN [filter EXCEPT !.bits = {}]
                            ELSE [on |-> 1, bits |-> value]

\* handle_get_log_subscribe, up to subscribe_messages.
handle_log_subscribe(value) ==
    /\ ~closed /\ registering = 0 /\ subscribes < MaxSubscribes
    /\ subscribes' = subscribes + 1
    /\ update_filter(value)
    /\ registering' = IF value # {} /\ filter.on = 0 THEN 1 ELSE 0
    /\ previous' = filter.bits
    /\ last' = value
    /\ UNCHANGED <<pending, handlers, message, logs, notified, channel, count>>

subscribe_messages ==
    /\ registering = 1
    /\ registering' = 0
    /\ pending' = pending + 1
    /\ UNCHANGED <<filter, handlers, message, logs, notified, client, channel, count>>

do_log ==
    /\ logs # <<>>
    /\ logs' = Tail(logs)
    /\ notified' = IF closed THEN notified ELSE Append(notified, Head(logs))
    /\ UNCHANGED <<filter, registering, pending, handlers, message, client, channel, count>>

\* The connection is upgraded, or stopped (external).
Upgrade ==
    /\ ~websocket /\ ~closed
    /\ websocket' = TRUE
    /\ UNCHANGED <<filter, registering, pending, handlers, message, logs, notified,
                   client, closed, count>>

StopLog ==
    /\ ~closed
    /\ closed' = TRUE
    /\ UNCHANGED <<filter, registering, pending, handlers, message, logs, notified,
                   client, websocket, count>>

-----------------------------------------------------------------------------
(* The log strand.                                                         *)

Register ==
    /\ pending > 0 /\ message = Idle
    /\ pending' = pending - 1
    /\ handlers' = handlers + 1
    /\ UNCHANGED <<filter, registering, message, logs, notified, client, channel, count>>

Notify(bit) ==
    /\ message = Idle /\ handlers > 0 /\ count < MaxMessages
    /\ count' = count + 1
    /\ message' = [bit |-> {bit}, todo |-> handlers, loaded |-> Unread]
    /\ UNCHANGED <<filter, registering, pending, handlers, logs, notified, client, channel>>

\* The next handler of the message, if any.
Done == IF message.todo = 1 THEN Idle
        ELSE [message EXCEPT !.todo = @ - 1, !.loaded = Unread]

\* handle_log up to the load of get_filter; a stopped channel unsubscribes.
handle_log ==
    /\ message # Idle /\ message.loaded = Unread
    /\ \/ /\ closed
          /\ handlers' = handlers - 1
          /\ message' = Done
       \/ /\ ~closed
          /\ message' = [message EXCEPT !.loaded = filter]
          /\ UNCHANGED handlers
    /\ UNCHANGED <<filter, registering, pending, logs, notified, client, channel, count>>

\* Mutant: an empty filter is stored without comparing.
get_filter_store ==
    /\ message # Idle /\ message.loaded # Unread
    /\ message' = Done
    /\ \/ /\ message.loaded.bits = {}
          /\ filter' = Off
          /\ handlers' = handlers - 1
          /\ UNCHANGED logs
       \/ /\ message.loaded.bits # {}
          /\ logs' = IF message.bit \subseteq message.loaded.bits /\ websocket
                     THEN Append(logs, count) ELSE logs
          /\ UNCHANGED <<filter, handlers>>
    /\ UNCHANGED <<registering, pending, notified, client, channel, count>>

\* The rest of get_filter and handle_log: an empty filter that is still in
\* place unregisters; on failure the exchange loads the filter that arrived.
get_filter ==
    /\ message # Idle /\ message.loaded # Unread
    /\ message' = Done
    /\ LET swap == message.loaded.bits = {}
           state == IF swap THEN filter ELSE message.loaded
       IN  \/ /\ swap /\ filter = message.loaded
              /\ filter' = Off
              /\ handlers' = handlers - 1
              /\ UNCHANGED logs
           \/ /\ ~(swap /\ filter = message.loaded)
              /\ logs' = IF message.bit \subseteq state.bits /\ websocket
                         THEN Append(logs, count) ELSE logs
              /\ UNCHANGED <<filter, handlers>>
    /\ UNCHANGED <<registering, pending, notified, client, channel, count>>

-----------------------------------------------------------------------------
FilterInit ==
    /\ filter = Off /\ registering = 0 /\ pending = 0 /\ handlers = 0
    /\ message = Idle /\ logs = <<>> /\ notified = <<>>
    /\ last = {} /\ previous = {} /\ subscribes = 0 /\ count = 0
    /\ websocket = FALSE /\ closed = FALSE

LogStep == Register \/ (\E b \in Bit : Notify(b)) \/ handle_log \/ get_filter

FilterNext ==
    \/ \E value \in SUBSET Bit : handle_log_subscribe(value)
    \/ subscribe_messages
    \/ do_log
    \/ Upgrade
    \/ StopLog
    \/ LogStep

FilterSpec == FilterInit /\ [][FilterNext]_filterVars
-----------------------------------------------------------------------------
(* Properties.                                                             *)

\* The types of the state; a message is only being notified to handlers that
\* are registered, and one that is being notified has a handler left.
TypeOK ==
    /\ filter \in Word /\ registering \in {0, 1}
    /\ pending \in Nat /\ handlers \in Nat /\ subscribes \in Nat /\ count \in Nat
    /\ \/ message = Idle
       \/ /\ message \in [bit : SUBSET Bit, todo : Nat \ {0},
                           loaded : Word \union {Unread}]
          /\ message.todo <= handlers
    /\ websocket \in BOOLEAN /\ closed \in BOOLEAN
    /\ last \in SUBSET Bit /\ previous \in SUBSET Bit

\* While the channel lives, exactly one handler is registered or about to be
\* when the sentinel is set, and none when it is not; a filter with bits has
\* its sentinel.  So no request races an unregistering handler into a filter
\* without a handler, nor into two handlers (update_filter, get_filter).
HandlerPerSentinel ==
    ~closed =>
        /\ registering + pending + handlers = filter.on
        /\ filter.bits # {} => filter.on = 1

\* The filter is always the one the client requested last, whatever the log
\* strand does, so the "previous" response never loses a request.
FilterIsLast == filter.bits = last

\* Each message is posted to the channel strand at most once, in the order
\* logged.
NotifiedOnceInOrder ==
    LET sent == notified \o logs
    IN  \A i, j \in 1..Len(sent) : i < j => sent[i] < sent[j]
=============================================================================
