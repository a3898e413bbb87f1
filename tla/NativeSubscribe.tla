--------------------------- MODULE NativeSubscribe ---------------------------
(***************************************************************************)
(* The subscriptions of a native channel: handle_get_top_subscribe,        *)
(* _block_subscribe and _tx_subscribe, and handle_chase, which the event   *)
(* thread calls and which posts a notification to the channel.             *)
(*                                                                         *)
(* A subscription is stored whatever the transport, but handle_chase posts *)
(* nothing until the channel is upgraded to a websocket.  withheld is the  *)
(* history of that: the subscribed topics of the events that were not      *)
(* posted since the subscription, until a notification follows.            *)
(*                                                                         *)
(* A handler runs on the strand of the channel, so no posted notification  *)
(* is sent while a request is being handled, but the chain may change and  *)
(* handle_chase may run.  A media is the value of the subscription, which  *)
(* is unknown when there is none.                                          *)
(***************************************************************************)
EXTENDS NativeQuery

VARIABLES
    media_of,       \* top_subscribe_, block_subscribe_ and tx_subscribe_
    events,         \* chase events that handle_chase has not been called with
    posted,         \* notifications posted to the strand
    told,           \* the last of each kind that the client was sent
    websocket,      \* the channel has been upgraded
    withheld        \* topics of events that were not posted, a history

nativeVars == <<media_of, events, posted, told, websocket, withheld>>

Topic == {"top", "block", "tx"}
Untold == "untold"

NativeInit ==
    /\ media_of = [t \in Topic |-> Unknown]
    /\ events = <<>>
    /\ posted = <<>>
    /\ told = [t \in Topic |-> Untold]
    /\ websocket = FALSE
    /\ withheld = {}

TopicOf(q) ==
    CASE q.method = "get_top_subscribe" -> "top"
      [] q.method = "get_block_subscribe" -> "block"
      [] q.method = "get_tx_subscribe" -> "tx"
      [] OTHER -> "none"

Subscribes(q) == q.interface = "native" /\ TopicOf(q) \in Topic

\* Mutant: the subscription is stored once the top is read.
store_media_late(q, read) ==
    IF ~read THEN media_of
    ELSE [media_of EXCEPT ![TopicOf(q)] = IF q.stop THEN Unknown ELSE q.media]

\* The topic's value before the handler reads the top, and after.
store_media(q, read) ==
    IF read THEN media_of
    ELSE [media_of EXCEPT ![TopicOf(q)] = IF q.stop THEN Unknown ELSE q.media]

-----------------------------------------------------------------------------
(* The answers.                                                            *)

Empty == Result([empty |-> TRUE])

handle_get_top_subscribe(q, A) ==
    IF q.stop THEN Empty ELSE handle_get_top(q, A)

\* "Return top block hash upon block subscription."
handle_get_block_subscribe(q, A) ==
    IF q.stop THEN Empty ELSE Send(q, [hash |-> to_top_confirmed(A[1])])

handle_get_tx_subscribe(q, A) == Empty

\* Neither of these keeps what is subscribed to, and no event is sent.
handle_get_output_subscribe(q, A) ==
    IF q.stop THEN Empty ELSE handle_get_output(q, A)

handle_get_address_subscribe(q, A) ==
    IF q.stop THEN Empty ELSE handle_get_address(q, A)

\* What the answer to q tells the client.
answered(q, answer) ==
    CASE ~Subscribes(q) \/ "error" \in DOMAIN answer \/ answer = Empty -> told
      [] TopicOf(q) = "top" -> [told EXCEPT !.top = answer.result.count]
      [] OTHER -> [told EXCEPT !.block = answer.result.hash]

-----------------------------------------------------------------------------
(* Events.                                                                 *)

\* The notifications of an event to the topics that have a media.
Notices(topics, link) ==
    SelectSeq([i \in DOMAIN topics |->
                 [topic |-> topics[i], link |-> link, media |-> media_of[topics[i]]]],
              LAMBDA n : n.media # Unknown)

\* An event is <<kind, link>>.
handle_chase(e) ==
    CASE e[1] = "block" -> Notices(<<"top", "block">>, e[2])
      [] e[1] = "reorganized" -> Notices(<<"top">>, e[2])
      [] e[1] = "transaction" -> Notices(<<"tx">>, e[2])

HandleChase ==
    /\ events # <<>>
    /\ LET notices == handle_chase(Head(events)) IN
       IF websocket THEN posted' = posted \o notices /\ UNCHANGED withheld
       ELSE withheld' = withheld \union {n.topic : n \in Range(notices)} /\ UNCHANGED posted
    /\ events' = Tail(events)
    /\ UNCHANGED <<media_of, told, websocket>>

\* do_top, do_block and do_transaction; another media is not sent.
Notified(n) == IF n.topic = "top" THEN Height[n.link] ELSE n.link

DoNotify ==
    /\ posted # <<>>
    /\ LET n == Head(posted) IN
       IF n.media \in {"data", "text", "json"}
       THEN told' = [told EXCEPT ![n.topic] = Notified(n)] /\ withheld' = withheld \ {n.topic}
       ELSE UNCHANGED <<told, withheld>>
    /\ posted' = Tail(posted)
    /\ UNCHANGED <<media_of, events, websocket>>
=============================================================================
