---------------------------- MODULE BitcoindWait ----------------------------
(***************************************************************************)
(* The long poll of bitcoind channels (waitfornewblock, waitforblock and   *)
(* waitforblockheight): protocol_bitcoind_blockchain.cpp.                  *)
(*                                                                         *)
(* A wait that is not met is stored in waiter_ and answered by whichever   *)
(* comes first of a chase event that finds it met and its timeout.  The    *)
(* archive is read several times by the channel strand while the node      *)
(* changes it.  The timer (external, network::deadline) calls its handler  *)
(* once, on the strand, for an expiry or a cancel.                         *)
(***************************************************************************)
EXTENDS Naturals, Sequences

CONSTANTS
    Block,          \* block hashes
    NoBlock,        \* no hash
    MaxEvents,      \* bound: chase events raised and not yet handled
    MaxChanges,     \* bound: changes of the chain
    MaxWaits        \* bound: requests

ASSUME BlockAssumption == NoBlock \notin Block

VARIABLES
    blocks,         \* confirmed blocks, the last is the top (external)
    changes,        \* changes of the chain (external)
    events,         \* chase events raised (external)
    subscribed,     \* the chase subscription is in effect
    posts,          \* work posted to the channel strand
    step,           \* what the strand does next in a request: "idle", "check", "arm"
    wait,           \* the wait being armed, or armed
    armed,          \* number of the request whose waiter_ is set, or zero
    timer,          \* number of the request whose timer runs, or zero
    asked, answered,    \* requests, and the numbers of those answered
    met,            \* history: the wait was met at some time since requested
    missed,         \* history: an event was not delivered, during the wait
    early,          \* history: an untimed wait was answered without being met
    stopped, down   \* the channel is stopped, the protocol's stopping has run

node == <<blocks, changes, events>>
history == <<met, missed, early>>
waitVars == <<node, subscribed, posts, step, wait, armed, timer, asked, answered,
          history, stopped, down>>

NoWait == [type |-> "none", height |-> 0, block |-> NoBlock, timed |-> FALSE]

\* wait_done: wait::new_block and wait::height test the height only.
wait_done(w, c) ==
    \/ w.type = "height" /\ Len(c) >= w.height
    \/ w.type = "block" /\ \E h \in 1..Len(c) : c[h] = w.block

Outstanding == step # "idle" \/ armed # 0

-----------------------------------------------------------------------------
(* The node (external): a change of the chain, then its event.             *)

Change(c) ==
    /\ changes < MaxChanges /\ Len(events) < MaxEvents
    /\ changes' = changes + 1
    /\ blocks' = c
    /\ events' = IF subscribed THEN Append(events, "chase") ELSE events
    /\ missed' = (missed \/ ~subscribed)
    /\ met' = (met \/ wait_done(wait, c))
    /\ UNCHANGED <<subscribed, posts, step, wait, armed, timer, asked, answered,
                   early, stopped, down>>

Organize(b) ==
    /\ \A h \in 1..Len(blocks) : blocks[h] # b
    /\ Change(Append(blocks, b))

Reorganize ==
    /\ Len(blocks) > 1
    /\ Change(SubSeq(blocks, 1, Len(blocks) - 1))

\* "Chaser subscription is asynchronous".
ChaseSubscribed ==
    /\ ~subscribed
    /\ subscribed' = TRUE
    /\ UNCHANGED <<node, posts, step, wait, armed, timer, asked, answered, history,
                   stopped, down>>

\* Mutant: an event is posted only if a waiter is seen.
handle_chase_if_armed ==
    /\ events # <<>>
    /\ events' = Tail(events)
    /\ posts' = IF stopped \/ armed = 0 THEN posts
                ELSE Append(posts, [op |-> "event", for |-> 0])
    /\ UNCHANGED <<blocks, changes, subscribed, step, wait, armed, timer, asked,
                   answered, history, stopped, down>>

handle_chase ==
    /\ events # <<>>
    /\ events' = Tail(events)
    /\ posts' = IF stopped THEN posts ELSE Append(posts, [op |-> "event", for |-> 0])
    /\ UNCHANGED <<blocks, changes, subscribed, step, wait, armed, timer, asked,
                   answered, history, stopped, down>>

-----------------------------------------------------------------------------
(* Requests, on the channel strand: it runs one handler at a time.         *)

\* The answer to request n is sent, if the channel is not stopped.
send_top(n) ==
    /\ answered' = IF stopped THEN answered ELSE Append(answered, n)
    /\ early' = (early \/ (~stopped /\ ~wait.timed /\ ~met))

\* handle_wait_for_*, given the wait, with a target above the top for a new block.
handle_wait ==
    /\ ~stopped /\ ~Outstanding /\ asked < MaxWaits
    /\ asked' = asked + 1
    /\ step' = "check"
    /\ met' = wait_done(wait', blocks) /\ missed' = FALSE
    /\ UNCHANGED <<node, subscribed, posts, armed, timer, answered, early, stopped, down>>

handle_wait_for_new_block(timed) ==
    /\ wait' = [type |-> "height", height |-> Len(blocks) + 1, block |-> NoBlock,
                timed |-> timed]
    /\ handle_wait

handle_wait_for_block_height(height, timed) ==
    /\ wait' = [type |-> "height", height |-> height, block |-> NoBlock,
                timed |-> timed]
    /\ handle_wait

handle_wait_for_block(block, timed) ==
    /\ wait' = [type |-> "block", height |-> 0, block |-> block, timed |-> timed]
    /\ handle_wait

\* A parameter is not valid (the timeout is read after the test, but nothing is
\* stored), or the stated top is not the top: answered at once.
handle_wait_at_once ==
    /\ ~stopped /\ ~Outstanding /\ asked < MaxWaits
    /\ asked' = asked + 1
    /\ answered' = Append(answered, asked + 1)
    /\ UNCHANGED <<node, subscribed, posts, step, wait, armed, timer, history,
                   stopped, down>>

\* arm_wait, up to the test of wait_done.
arm_wait_check ==
    /\ step = "check"
    /\ \/ /\ wait_done(wait, blocks)
          /\ step' = "idle"
          /\ send_top(asked)
       \/ /\ ~wait_done(wait, blocks)
          /\ step' = "arm"
          /\ UNCHANGED <<answered, early>>
    /\ UNCHANGED <<node, subscribed, posts, wait, armed, timer, asked, met, missed,
                   stopped, down>>

\* Mutant: the timer is not started.
arm_wait_untimed ==
    /\ step = "arm"
    /\ step' = "idle"
    /\ armed' = asked
    /\ UNCHANGED <<node, subscribed, posts, wait, timer, asked, answered, history,
                   stopped, down>>

\* The rest of arm_wait: a zero timeout waits indefinitely.
arm_wait ==
    /\ step = "arm"
    /\ step' = "idle"
    /\ armed' = asked
    /\ timer' = IF wait.timed THEN asked ELSE timer
    /\ UNCHANGED <<node, subscribed, posts, wait, asked, answered, history,
                   stopped, down>>

-----------------------------------------------------------------------------
(* Completion.                                                             *)

Run(op) == step = "idle" /\ posts # <<>> /\ Head(posts).op = op

\* complete_wait: the timer is stopped, which calls its handler with a cancel.
complete_wait(n) ==
    /\ timer' = 0
    /\ posts' = IF timer = 0 THEN Tail(posts)
                ELSE Append(Tail(posts), [op |-> "timeout", for |-> timer])
    /\ send_top(n)

\* Mutant: any event completes a wait.
do_wait_event_always ==
    /\ Run("event")
    /\ \/ /\ armed = 0
          /\ posts' = Tail(posts)
          /\ UNCHANGED <<armed, timer, answered, early>>
       \/ /\ armed # 0
          /\ armed' = 0
          /\ complete_wait(armed)
    /\ UNCHANGED <<node, subscribed, step, wait, asked, met, missed, stopped, down>>

do_wait_event ==
    /\ Run("event")
    /\ \/ /\ armed = 0 \/ ~wait_done(wait, blocks)
          /\ posts' = Tail(posts)
          /\ UNCHANGED <<armed, timer, answered, early>>
       \/ /\ armed # 0 /\ wait_done(wait, blocks)
          /\ armed' = 0
          /\ complete_wait(armed)
    /\ UNCHANGED <<node, subscribed, step, wait, asked, met, missed, stopped, down>>

\* Mutant: a completed wait is answered again by the cancel of its timer.
handle_wait_timeout_repeat ==
    /\ Run("timeout")
    /\ armed' = 0
    /\ complete_wait(Head(posts).for)
    /\ UNCHANGED <<node, subscribed, step, wait, asked, met, missed, stopped, down>>

\* A stale expiry or cancel follows a completed wait.
handle_wait_timeout ==
    /\ Run("timeout")
    /\ \/ /\ armed # Head(posts).for
          /\ posts' = Tail(posts)
          /\ UNCHANGED <<armed, timer, answered, early>>
       \/ /\ armed = Head(posts).for
          /\ armed' = 0
          /\ complete_wait(armed)
    /\ UNCHANGED <<node, subscribed, step, wait, asked, met, missed, stopped, down>>

Expire ==
    /\ timer # 0
    /\ timer' = 0
    /\ posts' = Append(posts, [op |-> "timeout", for |-> timer])
    /\ UNCHANGED <<node, subscribed, step, wait, armed, asked, answered, history,
                   stopped, down>>

\* The channel stops (external), and then its protocols.
StopWait ==
    /\ ~stopped
    /\ stopped' = TRUE
    /\ UNCHANGED <<node, subscribed, posts, step, wait, armed, timer, asked, answered,
                   history, down>>

\* waiter_ is reset; the timer is not stopped.
stopping ==
    /\ stopped /\ ~down /\ step = "idle"
    /\ down' = TRUE
    /\ armed' = 0
    /\ UNCHANGED <<node, subscribed, posts, step, wait, timer, asked, answered,
                   history, stopped>>

-----------------------------------------------------------------------------
WaitInit ==
    /\ \E b \in Block : blocks = <<b>>
    /\ changes = 0 /\ events = <<>> /\ subscribed = FALSE
    /\ posts = <<>> /\ step = "idle" /\ wait = NoWait /\ armed = 0 /\ timer = 0
    /\ asked = 0 /\ answered = <<>>
    /\ met = FALSE /\ missed = FALSE /\ early = FALSE
    /\ stopped = FALSE /\ down = FALSE

NodeStep == (\E b \in Block : Organize(b)) \/ Reorganize \/ ChaseSubscribed

RequestStep ==
    \/ \E timed \in BOOLEAN :
        \/ handle_wait_for_new_block(timed)
        \/ \E h \in 0..(MaxChanges + 1) : handle_wait_for_block_height(h, timed)
        \/ \E b \in Block : handle_wait_for_block(b, timed)
    \/ handle_wait_at_once

StrandStep ==
    \/ arm_wait_check \/ arm_wait
    \/ do_wait_event \/ handle_wait_timeout \/ stopping

WaitNext == NodeStep \/ handle_chase \/ RequestStep \/ StrandStep \/ Expire \/ StopWait

\* Posted work runs and timers expire; requests, blocks and stops need not come.
WaitSpec ==
    /\ WaitInit /\ [][WaitNext]_waitVars
    /\ WF_waitVars(handle_chase) /\ WF_waitVars(StrandStep) /\ WF_waitVars(Expire)
-----------------------------------------------------------------------------
(* Properties.                                                             *)

\* Every wait of a live channel is answered exactly once and in turn, whatever
\* the order in which its event, its timeout and the cancel of its timer run;
\* one without a timeout only if it was met, as the late expiry or cancel of the
\* timer of an earlier wait does not complete it.
OneAnswer ==
    /\ ~early
    /\ \A i \in 1..Len(answered) : answered[i] = i
    /\ ~stopped => Len(answered) = IF Outstanding THEN asked - 1 ELSE asked

\* There is no lost wake-up: when no event is on its way, a wait that is armed
\* is not met, although it was tested before it was stored.
NoLostWakeUp ==
    ~stopped /\ armed # 0 /\ ~missed /\ events = <<>>
      /\ (\A i \in 1..Len(posts) : posts[i].op # "event")
        => ~wait_done(wait, blocks)

\* A wait with a timeout ends.
TimedWaitEnds == Outstanding /\ wait.timed ~> ~Outstanding

\* "The race is released without a winner when the channel stops."  Once the
\* protocol has stopped nothing holds a waiter: neither waiter_ nor the handler
\* that is bound to the timer (protocol_bitcoind_blockchain.cpp:2031).
ReleasedOnStop == down => armed = 0 /\ timer = 0
=============================================================================
