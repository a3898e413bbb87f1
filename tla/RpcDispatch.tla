----------------------------- MODULE RpcDispatch -----------------------------
(***************************************************************************)
(* Dispatch of a request over the protocols attached to one channel:       *)
(* protocol_rpc.hpp, protocol_bitcoind*.cpp and protocol_btcd.cpp.         *)
(*                                                                         *)
(* Each attached protocol is offered every request in order of attachment, *)
(* on the channel strand.  A protocol that takes a request sets the        *)
(* channel's claim latch, the later ones stand back, and the one attached  *)
(* last answers what nobody claimed.  A handler may answer later; the next *)
(* request is read when the answer is sent (external: network's channel).  *)
(*                                                                         *)
(* A protocol of the bitcoind family caches the identity of the request it *)
(* answers in itself, one of the electrum family in its channel.           *)
(***************************************************************************)
EXTENDS Naturals, Sequences

CONSTANTS
    Sessions,       \* of a session: the protocols it attaches, in order
    Method,         \* method names
    Authenticate,   \* the btcd in-band authentication method
    Untimed,        \* methods that wait for a block, asked with no timeout
    MaxRequests     \* bound: requests

VARIABLES
    chain,          \* the protocols attached: [kind, methods], in order
    request,        \* the request being dispatched or handled
    id,             \* its number
    at,             \* position of the protocol it is offered to next
    claimed,        \* the channel's claim latch
    handling,       \* position of the protocol whose handler runs, or zero
    cached,         \* [p] identity cached for the response of protocol p
    outstanding,    \* id, until answered
    answers,        \* identities of the answers sent
    authorized, open

vars == <<chain, request, id, at, claimed, handling, cached, outstanding, answers,
          authorized, open>>

Kind == {"rest", "btcd", "subgroup", "bitcoind", "handshake", "electrum"}

\* What the aliases of sessions.hpp share.  The terminal responder is attached
\* last, protocol_bitcoind_rest (which defines no method) and protocol_btcd only
\* first, and the electrum protocols only with each other.  Authentication is a
\* method of protocol_btcd.
ASSUME ChainAssumption ==
    \A s \in Sessions :
        /\ s \in Seq([kind : Kind, methods : SUBSET Method]) /\ s # <<>>
        /\ \A p \in 1..Len(s) :
            /\ s[p].kind \in {"bitcoind", "electrum"} <=> p = Len(s)
            /\ s[p].kind \in {"rest", "btcd"} => p = 1
            /\ s[p].kind \in {"handshake", "electrum"} <=> s[Len(s)].kind = "electrum"
            /\ s[p].kind = "rest" => s[p].methods = {}
            /\ Authenticate \in s[p].methods => s[p].kind = "btcd"

Positions == 1..Len(chain)

\* A request: transport or http verb, whether the host and origin headers are
\* allowed and the body is json-rpc, the method, whether the credential is
\* permitted it, and whether it is a 2.0 notification.  (For a get, "rpc" is
\* that the target is well formed.)
Request == [verb : {"get", "options", "post", "ws"}, headers : BOOLEAN,
            rpc : BOOLEAN, method : Method, permitted : BOOLEAN,
            notification : BOOLEAN]

-----------------------------------------------------------------------------
(* What a protocol does with a request it is offered.                      *)
(*   "pass"    leaves it to the next                                       *)
(*   "reject"  answers at once with an http error, which has no identity   *)
(*   "answer"  answers at once with a json-rpc error                       *)
(*   "handle"  claims it and runs the handler                              *)
(*   "stop"    stops the channel                                           *)

\* protocol_bitcoind_rest claims every get, and handles a well formed target.
rest(p, r) ==
    IF r.verb # "get" THEN "pass"
    ELSE IF r.headers /\ r.rpc /\ r.permitted THEN "handle"
    ELSE "reject"

\* Mutant: only a repeated authentication is refused.
btcd_ungated(p, r) ==
    LET defines == r.method \in chain[p].methods
        authenticate == r.method = Authenticate
    IN  IF r.verb \in {"get", "options"} \/ ~r.rpc \/ ~defines THEN "pass"
        ELSE IF r.verb = "post" /\ (~r.headers \/ authenticate) THEN "pass"
        ELSE IF r.verb = "ws" /\ authenticate /\ authorized THEN "answer"
        ELSE IF r.permitted \/ authenticate THEN "handle" ELSE "answer"

\* protocol_btcd is attached first, so it does not look at the latch.
btcd(p, r) ==
    LET defines == r.method \in chain[p].methods
        authenticate == r.method = Authenticate
    IN  IF r.verb \in {"get", "options"} THEN "pass"
        ELSE IF r.verb = "post" /\ (~r.headers \/ ~r.rpc \/ authenticate \/ ~defines) THEN "pass"
        ELSE IF r.verb = "ws" /\ ~r.rpc THEN "pass"
        ELSE IF r.verb = "ws" /\ authenticate = authorized THEN "answer"
        ELSE IF ~defines THEN "pass"
        ELSE IF r.permitted \/ authenticate THEN "handle" ELSE "answer"

\* Mutant: a subgroup does not stand back from a claimed request.
subgroup_unlatched(p, r) ==
    IF r.verb \in {"get", "options"} \/ ~r.rpc THEN "pass"
    ELSE IF r.method \notin chain[p].methods THEN "pass"
    ELSE IF r.verb = "post" /\ ~r.headers THEN "pass"
    ELSE IF r.verb = "ws" /\ ~authorized THEN "pass"
    ELSE IF r.permitted THEN "handle"
    ELSE IF r.verb = "post" THEN "reject"
    ELSE "stop"

\* protocol_bitcoind_dispatch leaves invalid requests to the terminal.
subgroup(p, r) ==
    IF claimed \/ r.verb \in {"get", "options"} \/ ~r.rpc THEN "pass"
    ELSE IF r.method \notin chain[p].methods THEN "pass"
    ELSE IF r.verb = "post" /\ ~r.headers THEN "pass"
    ELSE IF r.verb = "ws" /\ ~authorized THEN "pass"
    ELSE IF r.permitted THEN "handle"
    ELSE IF r.verb = "post" THEN "reject"
    ELSE "stop"

\* protocol_bitcoind, the terminal responder.
bitcoind(p, r) ==
    IF r.verb = "options" THEN "reject"
    ELSE IF claimed THEN "pass"
    ELSE IF r.verb = "get" THEN "reject"
    ELSE IF r.verb = "post" /\ ~(r.headers /\ r.rpc /\ r.permitted) THEN "reject"
    ELSE IF r.verb = "ws" /\ ~(authorized /\ r.rpc /\ r.permitted) THEN "stop"
    ELSE "answer"

\* Mutant: a request that the handshake protocol claimed is dispatched again.
protocol_rpc_unlatched(p, r) ==
    IF r.verb = "post" /\ ~(r.headers /\ r.rpc) THEN "reject"
    ELSE IF r.verb = "ws" /\ ~(authorized /\ r.rpc) THEN "stop"
    ELSE IF r.method \notin chain[p].methods
      THEN IF chain[p].kind = "electrum" THEN "answer" ELSE "pass"
    ELSE IF r.permitted THEN "handle"
    ELSE IF r.verb = "post" THEN "reject"
    ELSE "stop"

\* protocol_rpc: the handshake protocol, then the terminal electrum protocol,
\* which answers the methods that neither defines (handle_unclaimed).
protocol_rpc(p, r) ==
    IF claimed THEN "pass"
    ELSE IF r.verb = "post" /\ ~(r.headers /\ r.rpc) THEN "reject"
    ELSE IF r.verb = "ws" /\ ~(authorized /\ r.rpc) THEN "stop"
    ELSE IF r.method \notin chain[p].methods
      THEN IF chain[p].kind = "electrum" THEN "answer" ELSE "pass"
    ELSE IF r.permitted THEN "handle"
    ELSE IF r.verb = "post" THEN "reject"
    ELSE "stop"

Verdict(p, r) ==
    IF chain[p].kind = "rest" THEN rest(p, r)
    ELSE IF chain[p].kind = "btcd" THEN btcd(p, r)
    ELSE IF chain[p].kind = "subgroup" THEN subgroup(p, r)
    ELSE IF chain[p].kind = "bitcoind" THEN bitcoind(p, r)
    ELSE protocol_rpc(p, r)

\* The electrum family, whose channel caches the identity of each request.
IsRpcFamily == \E p \in Positions : chain[p].kind = "electrum"

\* The protocol caches the request context (set_rpc_request).
set_rpc_request(p) ==
    IF IsRpcFamily THEN cached ELSE [cached EXCEPT ![p] = id]

\* The context is cached before these http errors, which do not reset it.
ContextSet(p, r) ==
    /\ r.headers
    /\ \/ chain[p].kind = "rest"
       \/ chain[p].kind \in {"subgroup", "bitcoind"} /\ r.verb = "post" /\ r.rpc

-----------------------------------------------------------------------------
(* The channel.                                                            *)

\* The next request is read once the last is settled.  The electrum family
\* subscribes the post and websocket transports only.
Receive(r) ==
    /\ open /\ outstanding = 0 /\ at > Len(chain) /\ handling = 0
    /\ id < MaxRequests
    /\ IsRpcFamily => r.verb \in {"post", "ws"}
    /\ request' = r
    /\ id' = id + 1 /\ outstanding' = id + 1
    /\ at' = 1 /\ claimed' = FALSE
    /\ cached' = [p \in Positions |->
                    IF IsRpcFamily /\ r.rpc THEN id + 1 ELSE cached[p]]
    /\ UNCHANGED <<chain, handling, answers, authorized, open>>

\* A notification over a websocket, to which the bitcoind family sends nothing.
Silent == ~IsRpcFamily /\ request.notification /\ request.verb = "ws"

\* The response of protocol p with an identity, which the bitcoind family
\* resets.
send_rpc(p, identity) ==
    /\ outstanding' = 0
    /\ cached' = IF IsRpcFamily THEN cached ELSE [cached EXCEPT ![p] = 0]
    /\ answers' = IF Silent THEN answers ELSE Append(answers, identity)

Offered == open /\ at <= Len(chain)

Pass ==
    /\ Offered /\ Verdict(at, request) = "pass"
    /\ at' = at + 1
    /\ UNCHANGED <<chain, request, id, claimed, handling, cached, outstanding, answers,
                   authorized, open>>

\* An http error, formed from the request itself.  The terminal responder of
\* the bitcoind family does not claim.
Reject ==
    /\ Offered /\ Verdict(at, request) = "reject"
    /\ at' = at + 1
    /\ claimed' = (claimed \/ chain[at].kind # "bitcoind")
    /\ cached' = IF ContextSet(at, request) THEN set_rpc_request(at) ELSE cached
    /\ outstanding' = 0 /\ answers' = Append(answers, id)
    /\ UNCHANGED <<chain, request, id, handling, authorized, open>>

\* A json-rpc error.  Only btcd is not terminal, and claims.
Respond ==
    /\ Offered /\ Verdict(at, request) = "answer"
    /\ at' = at + 1
    /\ claimed' = (claimed \/ chain[at].kind = "btcd")
    /\ send_rpc(at, set_rpc_request(at)[at])
    /\ UNCHANGED <<chain, request, id, handling, authorized, open>>

\* Claimed, cached and dispatched to the handler, or stopped if the
\* dispatcher refuses the parameters.
Handle ==
    /\ Offered /\ Verdict(at, request) = "handle"
    /\ at' = at + 1 /\ claimed' = TRUE
    /\ cached' = set_rpc_request(at)
    /\ \/ handling' = at /\ UNCHANGED open
       \/ chain[at].kind # "rest" /\ open' = FALSE /\ UNCHANGED handling
    /\ UNCHANGED <<chain, request, id, outstanding, answers, authorized>>

StopOffered ==
    /\ Offered /\ Verdict(at, request) = "stop"
    /\ open' = FALSE
    /\ UNCHANGED <<chain, request, id, at, claimed, handling, cached, outstanding, answers,
                   authorized>>

IsAuthenticate == request.verb = "ws" /\ request.method = Authenticate

\* The handler answers, with the identity its protocol cached.
Complete ==
    /\ open /\ handling # 0 /\ ~IsAuthenticate
    /\ handling' = 0
    /\ send_rpc(handling, cached[handling])
    /\ UNCHANGED <<chain, request, id, at, claimed, authorized, open>>

\* "A zero timeout waits indefinitely": until a block, if there ever is one.
Waiting ==
    handling # 0 /\ chain[handling].kind = "subgroup" /\ request.method \in Untimed

\* Authorized from here on, or answered and stopped (once the error is sent).
handle_authenticate ==
    /\ open /\ handling # 0 /\ IsAuthenticate
    /\ handling' = 0
    /\ send_rpc(handling, cached[handling])
    /\ authorized' \in BOOLEAN /\ open' = authorized'
    /\ UNCHANGED <<chain, request, id, at, claimed>>

\* The peer or the server stops the channel.
Stop ==
    /\ open
    /\ open' = FALSE
    /\ UNCHANGED <<chain, request, id, at, claimed, handling, cached, outstanding, answers,
                   authorized>>

-----------------------------------------------------------------------------
\* Authorized by the upgrade, by having no credentials, or not yet.
Init ==
    /\ chain \in Sessions
    /\ request = <<>> /\ id = 0 /\ at = Len(chain) + 1 /\ claimed = FALSE
    /\ handling = 0 /\ cached = [p \in Positions |-> 0]
    /\ outstanding = 0 /\ answers = <<>>
    /\ authorized \in BOOLEAN
    /\ open = TRUE

Dispatch == Pass \/ Reject \/ Respond \/ Handle \/ StopOffered
Handler == Complete \/ handle_authenticate

Next == (\E r \in Request : Receive(r)) \/ Dispatch \/ Handler \/ Stop

\* The strand runs what is posted to it, and handlers complete, but for those
\* that wait for a block.
Spec == Init /\ [][Next]_vars /\ WF_vars(Dispatch) /\ WF_vars(~Waiting /\ Handler)
-----------------------------------------------------------------------------
(* Properties.                                                             *)

\* The channel implements the request/response service.
Service == INSTANCE RpcService WITH
    taken <- id, silent <- (id # 0 /\ Silent), waits <- Waiting

\* Each request is answered once and with its own identity before the next is
\* taken, however many protocols define its method and however they share it
\* ("default responses are sent here exactly once and only when no subgroup
\* has claimed the request", protocol_bitcoind.hpp).  It is answered in the end,
\* or the channel stops, unless its handler waits for a block with no timeout.
OneAnswerEach == Service!ServiceSpec

\* A request is handled by the first attached protocol that defines its method
\* ("A protocol attached earlier owns the method (overrides this one)"); until
\* authorized nothing but the authentication of btcd is handled over a websocket,
\* and it is not handled again after.
FirstOwnerHandles ==
    /\ handling # 0 /\ request.verb # "get" =>
        /\ request.method \in chain[handling].methods
        /\ \A p \in 1..(handling - 1) : request.method \notin chain[p].methods
    /\ handling # 0 /\ request.verb = "ws" =>
        (authorized <=> request.method # Authenticate)
=============================================================================
