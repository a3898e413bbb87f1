--------------------------- MODULE RpcChannel_proof ---------------------------
(***************************************************************************)
(* A channel of the RPC family: the dispatch of its requests, and two of   *)
(* the protocols that go on with a request afterwards.                     *)
(*                                                                         *)
(* RpcDispatch: FirstOwnerHandles, and the implementation of RpcService by *)
(* the chain of protocols (its safety part), for any sessions composed as  *)
(* sessions.hpp composes them: any number of subgroups, of any methods.    *)
(*                                                                         *)
(* AdminFilter, which notifies log messages, and BitcoindWait, which       *)
(* answers a wait, for any bits and blocks and any number of requests and  *)
(* events.  The three share no state.                                      *)
(***************************************************************************)
EXTENDS RpcDispatch, AdminFilter, BitcoindWait, TLAPS

NumberInv ==
    /\ chain \in Sessions
    /\ id \in Nat /\ at \in 1..(Len(chain) + 1) /\ handling \in 0..Len(chain)
    /\ cached \in [Positions -> Nat] /\ outstanding \in {0, id}
    /\ IF id = 0 THEN at > Len(chain) /\ handling = 0 ELSE request \in Request

TypeInv ==
    /\ NumberInv
    /\ claimed \in BOOLEAN /\ authorized \in BOOLEAN /\ open \in BOOLEAN

\* No protocol after one that defines the method and passes would handle it.
Unhandled ==
    \/ request.verb = "options" \/ ~request.rpc
    \/ request.verb = "post" /\ (~request.headers \/ request.method = Authenticate)
    \/ request.verb = "ws" /\ ~authorized

\* The latch is what makes the dispatch exact.  While it is clear the request
\* is outstanding and is still to be offered to a protocol that answers; once
\* it is set the request is settled or its handler runs, with its identity.
LatchInv ==
    /\ claimed => at > 1 /\ request.verb # "options"
    /\ at <= Len(chain) /\ ~claimed => outstanding = id /\ handling = 0
    /\ handling # 0 => claimed /\ outstanding = id /\ cached[handling] = id
    /\ open /\ handling = 0 /\ (claimed \/ at > Len(chain)) => outstanding = 0

\* The channel of the electrum family caches the identity ahead of dispatch.
ChannelInv ==
    IsRpcFamily /\ id # 0 =>
        /\ request.verb \in {"post", "ws"}
        /\ request.rpc => \A p \in Positions : cached[p] = id

OwnerInv ==
    at <= Len(chain) /\ ~claimed /\ request.verb # "get" =>
        \A p \in 1..(at - 1) : request.method \in chain[p].methods => Unhandled

DispatchInv == TypeInv /\ LatchInv /\ ChannelInv /\ OwnerInv /\ FirstOwnerHandles

-----------------------------------------------------------------------------
\* What ChainAssumption says of the protocols attached to this channel.
LEMMA ChainFacts ==
    ASSUME chain \in Sessions
    PROVE  /\ Len(chain) \in Nat \ {0} /\ Positions = 1..Len(chain)
           /\ \A p \in Positions :
                /\ chain[p].kind \in Kind
                /\ chain[p].kind \in {"bitcoind", "electrum"} <=> p = Len(chain)
                /\ chain[p].kind \in {"rest", "btcd"} => p = 1
                /\ chain[p].kind \in {"handshake", "electrum"} <=> IsRpcFamily
                /\ chain[p].kind = "rest" => chain[p].methods = {}
                /\ Authenticate \in chain[p].methods => chain[p].kind = "btcd"
<1>1. chain \in Seq([kind : Kind, methods : SUBSET Method]) /\ chain # <<>>
  BY ChainAssumption, Zenon
<1>2. Len(chain) \in Nat \ {0} /\ Positions = 1..Len(chain)
  BY <1>1 DEF Positions
<1>3. \A p \in Positions : chain[p].kind \in Kind
  <2> SUFFICES ASSUME NEW p \in Positions PROVE chain[p].kind \in Kind  BY Zenon
  <2> DEFINE P == [kind : Kind, methods : SUBSET Method]
  <2>1. chain \in Seq(P) /\ p \in 1..Len(chain)  BY <1>1, <1>2, Zenon
  <2>2. chain[p] \in P
    <3> HIDE DEF P
    <3> QED  BY <2>1
  <2> QED  BY <2>2, Zenon
<1>4. \A p \in Positions :
         /\ chain[p].kind \in {"bitcoind", "electrum"} <=> p = Len(chain)
         /\ chain[p].kind \in {"rest", "btcd"} => p = 1
         /\ chain[p].kind \in {"handshake", "electrum"} <=> chain[Len(chain)].kind = "electrum"
         /\ chain[p].kind = "rest" => chain[p].methods = {}
         /\ Authenticate \in chain[p].methods => chain[p].kind = "btcd"
  BY <1>2, ChainAssumption, Zenon
<1>5. IsRpcFamily <=> chain[Len(chain)].kind = "electrum"
  <2>1. Len(chain) \in Positions  BY <1>2, SMTT(30)
  <2> QED  BY <1>4, <2>1, Zenon DEF IsRpcFamily
<1> QED  BY <1>2, <1>3, <1>4, <1>5, Zenon

\* The protocol that a request is offered to, and the request.
LEMMA OfferedFacts ==
    ASSUME DispatchInv, Offered
    PROVE  /\ at \in Positions /\ id # 0 /\ id \in Nat /\ request \in Request
           /\ chain[at].kind \in Kind
           /\ chain[at].kind \in {"rest", "btcd"} => ~claimed
<1>1. at \in Positions /\ id # 0 /\ id \in Nat /\ request \in Request
  BY ChainFacts DEF DispatchInv, TypeInv, NumberInv, Offered
<1> QED  BY <1>1, ChainFacts DEF DispatchInv, TypeInv, NumberInv, LatchInv

\* A protocol that would answer a claimed request does not see one: the latch
\* is clear whenever a request is rejected, answered or handled.
LEMMA LatchClear ==
    ASSUME DispatchInv, Offered, Verdict(at, request) \in {"reject", "answer", "handle"}
    PROVE  ~claimed
<1>1. chain[at].kind \in Kind /\ (chain[at].kind \in {"rest", "btcd"} => ~claimed)
  BY OfferedFacts, Zenon
<1>2. claimed => request.verb # "options"
  BY ZenonT(30) DEF DispatchInv, LatchInv
<1> QED
  BY <1>1, <1>2, Zenon DEF Verdict, Kind, subgroup, bitcoind, protocol_rpc

\* What a verdict says of the request, from the branches of each protocol.
LEMMA HandleVerdict ==
    ASSUME DispatchInv, Offered, Verdict(at, request) = "handle"
    PROVE  /\ request.verb # "options" /\ (request.verb = "get" => chain[at].kind = "rest")
           /\ request.verb # "get" =>
                /\ request.method \in chain[at].methods /\ request.rpc
                /\ request.verb = "post" => request.headers /\ request.method # Authenticate
                /\ request.verb = "ws" => (authorized <=> request.method # Authenticate)
<1>1. /\ at \in Positions /\ request \in Request /\ chain[at].kind \in Kind
      /\ Authenticate \in chain[at].methods => chain[at].kind = "btcd"
      /\ chain[at].kind \in {"handshake", "electrum"} => request.verb \in {"post", "ws"}
  BY OfferedFacts, ChainFacts, Zenon DEF DispatchInv, TypeInv, NumberInv, ChannelInv
<1>2. request.verb \in {"get", "options", "post", "ws"} /\ authorized \in BOOLEAN
  BY <1>1, Zenon DEF Request, DispatchInv, TypeInv, NumberInv
<1> QED
  BY <1>1, <1>2 DEF Verdict, Kind, rest, btcd, subgroup, bitcoind, protocol_rpc

\* A json-rpc error never answers an options request, nor on an rpc channel
\* what did not parse, and only btcd answers so before the last protocol.
LEMMA AnswerVerdict ==
    ASSUME DispatchInv, Offered, Verdict(at, request) = "answer"
    PROVE  /\ request.verb # "options"
           /\ IsRpcFamily => request.rpc
           /\ chain[at].kind # "btcd" => at = Len(chain)
<1>1. /\ at \in Positions /\ request \in Request /\ chain[at].kind \in Kind
      /\ chain[at].kind \in {"bitcoind", "electrum"} => at = Len(chain)
      /\ chain[at].kind \in {"handshake", "electrum"} <=> IsRpcFamily
      /\ IsRpcFamily => request.verb \in {"post", "ws"}
  BY OfferedFacts, ChainFacts, Zenon DEF DispatchInv, TypeInv, NumberInv, ChannelInv
<1> QED
  BY <1>1, Zenon DEF Verdict, Kind, rest, btcd, subgroup, bitcoind, protocol_rpc

\* An http error never answers a websocket message, and only bitcoind answers
\* an options request so.
LEMMA RejectVerdict ==
    ASSUME DispatchInv, Offered, Verdict(at, request) = "reject"
    PROVE  /\ request.verb # "ws"
           /\ chain[at].kind # "bitcoind" => request.verb # "options"
<1>1. chain[at].kind \in Kind /\ request \in Request
  BY OfferedFacts, Zenon
<1>2. request.verb \in {"get", "options", "post", "ws"}
  BY <1>1, Zenon DEF Request
<1> QED
  BY <1>1, <1>2, ZenonT(30) DEF Verdict, Kind, rest, btcd, subgroup, bitcoind, protocol_rpc

\* The last protocol passes on only what is claimed, and no protocol passes
\* on an unclaimed request for a method of its own that it could handle.
LEMMA PassVerdict ==
    ASSUME DispatchInv, Offered, Verdict(at, request) = "pass"
    PROVE  /\ at = Len(chain) => claimed
           /\ ~claimed /\ request.verb # "get" /\ request.method \in chain[at].methods
                => Unhandled
<1>1. /\ at \in Positions /\ request \in Request /\ chain[at].kind \in Kind
      /\ at = Len(chain) => chain[at].kind \in {"bitcoind", "electrum"}
      /\ chain[at].kind = "rest" => chain[at].methods = {}
  BY OfferedFacts, ChainFacts, Zenon DEF DispatchInv, TypeInv, NumberInv
<1>2. request.verb \in {"get", "options", "post", "ws"} /\ authorized \in BOOLEAN
  BY <1>1, Zenon DEF Request, DispatchInv, TypeInv, NumberInv
<1> QED
  BY <1>1, <1>2 DEF Verdict, Kind, rest, btcd, subgroup, bitcoind, protocol_rpc, Unhandled

-----------------------------------------------------------------------------
\* Before the first request nothing is claimed, handled or outstanding.
LEMMA InitDispatch == Init => DispatchInv
<1> SUFFICES ASSUME Init PROVE DispatchInv  BY Zenon
<1>1. Len(chain) \in Nat /\ Positions = 1..Len(chain)
  BY ChainFacts, Zenon DEF Init
<1>2. cached \in [Positions -> Nat]
  BY Zenon DEF Init
<1>3. TypeInv
  <2>1. NumberInv  BY <1>1, <1>2 DEF Init, NumberInv
  <2> QED  BY <2>1, Zenon DEF Init, TypeInv
<1>4. LatchInv /\ ChannelInv /\ OwnerInv /\ FirstOwnerHandles
  BY <1>1 DEF Init, LatchInv, ChannelInv, OwnerInv, FirstOwnerHandles
<1> QED
  BY <1>3, <1>4, Zenon DEF DispatchInv

\* The next request is read when the last is settled, and is offered to the
\* first protocol with the latch clear.
LEMMA ReceiveStep ==
    ASSUME DispatchInv, NEW r \in Request, Receive(r) PROVE DispatchInv'
<1>1. Len(chain) \in Nat \ {0} /\ Positions = 1..Len(chain) /\ id \in Nat
  BY ChainFacts, Zenon DEF DispatchInv, TypeInv, NumberInv
<1>2. /\ chain' = chain /\ request' = r /\ id' = id + 1 /\ outstanding' = id + 1
      /\ at' = 1 /\ claimed' = FALSE /\ handling' = 0 /\ authorized' = authorized
      /\ open' = open
      /\ cached' = [p \in Positions |->
                      IF IsRpcFamily /\ r.rpc THEN id + 1 ELSE cached[p]]
  BY Zenon DEF Receive
<1>3. IsRpcFamily' = IsRpcFamily /\ Positions' = Positions
  BY <1>2, Zenon DEF IsRpcFamily, Positions
<1>4. TypeInv'
  <2>1. cached' \in [Positions -> Nat]
    BY <1>1, <1>2, SMTT(30) DEF DispatchInv, TypeInv, NumberInv
  <2>2. NumberInv'  BY <1>1, <1>2, <1>3, <2>1, SMTT(30) DEF DispatchInv, TypeInv, NumberInv
  <2> QED  BY <1>2, <2>2, Zenon DEF DispatchInv, TypeInv
<1>5. LatchInv' /\ OwnerInv' /\ FirstOwnerHandles'
  BY <1>1, <1>2 DEF LatchInv, OwnerInv, FirstOwnerHandles
<1>6. ChannelInv'
  BY <1>2, <1>3, Zenon DEF ChannelInv, Receive
<1> QED  BY <1>4, <1>5, <1>6, Zenon DEF DispatchInv

\* A protocol that passes leaves the request to the next.
LEMMA PassStep == ASSUME DispatchInv, Pass PROVE DispatchInv'
<1>1. /\ Len(chain) \in Nat \ {0} /\ at \in Positions /\ id # 0 /\ Positions = 1..Len(chain)
  BY OfferedFacts, ChainFacts, Zenon DEF Pass, DispatchInv, TypeInv, NumberInv
<1>2. /\ at = Len(chain) => claimed
      /\ ~claimed /\ request.verb # "get" /\ request.method \in chain[at].methods
            => Unhandled
  BY PassVerdict, Zenon DEF Pass
<1>3. /\ at' = at + 1
      /\ UNCHANGED <<chain, request, id, claimed, handling, cached, outstanding, answers,
                     authorized, open>>
  BY Zenon DEF Pass
<1>4. /\ IsRpcFamily' = IsRpcFamily /\ Positions' = Positions /\ Unhandled' = Unhandled
  BY <1>3, Zenon DEF IsRpcFamily, Positions, Unhandled
<1>5. TypeInv'
  BY <1>1, <1>3, <1>4, SMTT(30) DEF DispatchInv, TypeInv, NumberInv
<1>6. LatchInv'
  BY <1>1, <1>2, <1>3 DEF DispatchInv, LatchInv
<1>7. ChannelInv' /\ FirstOwnerHandles'
  BY <1>3, <1>4, Zenon DEF DispatchInv, ChannelInv, FirstOwnerHandles
<1>8. OwnerInv'
  BY <1>1, <1>2, <1>3, <1>4 DEF DispatchInv, OwnerInv
<1> QED  BY <1>5, <1>6, <1>7, <1>8, Zenon DEF DispatchInv

\* A request that is answered at once is settled, and is offered to no
\* protocol that would answer it again.
LEMMA SettleStep ==
    ASSUME DispatchInv, Offered, ~claimed,
           at' = at + 1, claimed' \in BOOLEAN,
           claimed' \/ at = Len(chain), claimed' => request.verb # "options",
           outstanding' = 0, cached' \in [Positions -> Nat],
           IsRpcFamily => cached' = cached,
           UNCHANGED <<chain, request, id, handling, authorized, open>>
    PROVE  DispatchInv'
<1>1. /\ Len(chain) \in Nat \ {0} /\ at \in Positions /\ id # 0 /\ Positions = 1..Len(chain)
      /\ handling = 0
  BY OfferedFacts, ChainFacts, Zenon DEF DispatchInv, TypeInv, NumberInv, LatchInv
<1>2. IsRpcFamily' = IsRpcFamily /\ Positions' = Positions
  BY Zenon DEF IsRpcFamily, Positions
<1>3. TypeInv'
  BY <1>1, <1>2, SMTT(30) DEF DispatchInv, TypeInv, NumberInv
<1>4. LatchInv' /\ OwnerInv' /\ FirstOwnerHandles'
  BY <1>1 DEF LatchInv, OwnerInv, FirstOwnerHandles
<1>5. ChannelInv'
  BY <1>2, Zenon DEF DispatchInv, ChannelInv
<1> QED  BY <1>3, <1>4, <1>5, Zenon DEF DispatchInv

\* A protocol answers with an http error.
LEMMA RejectStep == ASSUME DispatchInv, Reject PROVE DispatchInv'
<1>1. Offered /\ ~claimed /\ Len(chain) \in Nat /\ at \in Positions /\ chain[at].kind \in Kind
  BY LatchClear, OfferedFacts, ChainFacts, Zenon DEF Reject, DispatchInv, TypeInv, NumberInv
<1>2. chain[at].kind = "bitcoind" => at = Len(chain)
  BY <1>1, ChainFacts, Zenon DEF DispatchInv, TypeInv, NumberInv
<1>3. claimed' = (chain[at].kind # "bitcoind")
  BY <1>1, Zenon DEF Reject
<1>4. chain[at].kind # "bitcoind" => request.verb # "options"
  BY <1>1, RejectVerdict, Zenon DEF Reject
<1>5. cached' \in [Positions -> Nat] /\ (IsRpcFamily => cached' = cached)
  BY <1>1, Zenon DEF Reject, set_rpc_request, DispatchInv, TypeInv, NumberInv
<1> QED
  BY <1>1, <1>2, <1>3, <1>4, <1>5, SettleStep, Zenon DEF Reject

\* A protocol answers with a json-rpc error.
LEMMA RespondStep == ASSUME DispatchInv, Respond PROVE DispatchInv'
<1>1. Offered /\ ~claimed /\ Len(chain) \in Nat /\ at \in Positions /\ chain[at].kind \in Kind
  BY LatchClear, OfferedFacts, ChainFacts, Zenon DEF Respond, DispatchInv, TypeInv, NumberInv
<1>2. request.verb # "options" /\ (chain[at].kind # "btcd" => at = Len(chain))
  BY <1>1, AnswerVerdict, Zenon DEF Respond
<1>3. claimed' = (chain[at].kind = "btcd")
  BY <1>1, Zenon DEF Respond
<1>4. cached' \in [Positions -> Nat] /\ (IsRpcFamily => cached' = cached)
  BY <1>1, Zenon DEF Respond, send_rpc, DispatchInv, TypeInv, NumberInv
<1> QED
  BY <1>1, <1>2, <1>3, <1>4, SettleStep, Zenon DEF Respond, send_rpc

\* A protocol that handles a request owns its method, and no earlier one does.
LEMMA HandleStep == ASSUME DispatchInv, Handle PROVE DispatchInv'
<1>1. /\ Offered /\ ~claimed /\ Len(chain) \in Nat \ {0} /\ at \in Positions
      /\ id \in Nat \ {0} /\ Positions = 1..Len(chain) /\ handling = 0 /\ outstanding = id
  BY LatchClear, OfferedFacts, ChainFacts, Zenon DEF Handle, Offered, DispatchInv, TypeInv,
     NumberInv, LatchInv
<1>2. /\ request.verb # "options"
      /\ request.verb # "get" =>
            /\ request.method \in chain[at].methods /\ request.rpc
            /\ request.verb = "post" => request.headers /\ request.method # Authenticate
            /\ request.verb = "ws" => (authorized <=> request.method # Authenticate)
  BY <1>1, HandleVerdict, Zenon DEF Handle
<1>3. /\ at' = at + 1 /\ claimed' = TRUE /\ cached' = set_rpc_request(at)
      /\ \/ handling' = at /\ open' = open
         \/ handling' = handling /\ open' = FALSE
      /\ UNCHANGED <<chain, request, id, outstanding, answers, authorized>>
  BY Zenon DEF Handle
<1>4. IsRpcFamily' = IsRpcFamily /\ Positions' = Positions
  BY <1>3, Zenon DEF IsRpcFamily, Positions
<1>5. IsRpcFamily => request.verb \in {"post", "ws"} /\ cached[at] = id
  BY <1>1, <1>2, Zenon DEF DispatchInv, ChannelInv
<1>6. cached' \in [Positions -> Nat] /\ cached'[at] = id /\ (IsRpcFamily => cached' = cached)
  BY <1>1, <1>3, <1>5, Zenon DEF set_rpc_request, DispatchInv, TypeInv, NumberInv
<1>7. TypeInv'
  <2>1. NumberInv'  BY <1>1, <1>3, <1>4, <1>6, SMTT(30) DEF DispatchInv, TypeInv, NumberInv
  <2> QED  BY <1>3, <2>1, Zenon DEF DispatchInv, TypeInv
<1>8. LatchInv'
  BY <1>1, <1>2, <1>3, <1>6 DEF LatchInv
<1>9. ChannelInv' /\ OwnerInv'
  BY <1>3, <1>4, <1>6, Zenon DEF DispatchInv, ChannelInv, OwnerInv
<1>10. FirstOwnerHandles'
  <2>1. request.verb = "ws" /\ request.verb # "get" => (authorized <=> request.method # Authenticate)
    BY <1>2, Zenon
  <2>2. ASSUME request.verb # "get", NEW p \in 1..(at - 1)
        PROVE  request.method \notin chain[p].methods
    <3> SUFFICES ASSUME request.method \in chain[p].methods PROVE FALSE  BY Zenon
    <3>1. Unhandled  BY <1>1, <2>2, Zenon DEF DispatchInv, OwnerInv, Offered
    <3>2. request.verb = "ws" /\ ~authorized
      BY <1>2, <2>2, <3>1, Zenon DEF Unhandled
    <3>3. request.method = Authenticate  BY <1>2, <2>2, <3>2, Zenon
    <3>4. p \in Positions /\ p # at /\ at \in Positions  BY <1>1
    <3>5. chain[p].kind = "btcd" /\ chain[at].kind = "btcd" /\ p = 1 /\ at = 1
      BY <1>2, <2>2, <3>3, <3>4, ChainFacts, ZenonT(30) DEF DispatchInv, TypeInv, NumberInv
    <3> QED  BY <3>4, <3>5, Zenon
  <2> QED  BY <1>1, <1>2, <1>3, <2>1, <2>2, Zenon DEF FirstOwnerHandles
<1> QED  BY <1>7, <1>8, <1>9, <1>10, Zenon DEF DispatchInv

\* The handler settles the request.
LEMMA CompleteStep ==
    ASSUME DispatchInv, handling # 0, handling' = 0, send_rpc(handling, cached[handling]),
           authorized' \in BOOLEAN, open' \in BOOLEAN,
           UNCHANGED <<chain, request, id, at, claimed>>
    PROVE  DispatchInv'
<1>1. /\ Len(chain) \in Nat \ {0} /\ Positions = 1..Len(chain) /\ handling \in Positions
      /\ claimed /\ id \in Nat
  BY ChainFacts DEF DispatchInv, TypeInv, NumberInv, LatchInv
<1>2. IsRpcFamily' = IsRpcFamily /\ Positions' = Positions
  BY Zenon DEF IsRpcFamily, Positions
<1>3. outstanding' = 0 /\ cached' \in [Positions -> Nat] /\ (IsRpcFamily => cached' = cached)
  BY <1>1, Zenon DEF send_rpc, DispatchInv, TypeInv, NumberInv
<1>4. TypeInv'
  BY <1>1, <1>2, <1>3 DEF DispatchInv, TypeInv, NumberInv
<1>5. LatchInv' /\ OwnerInv' /\ FirstOwnerHandles'
  BY <1>1, <1>3, Zenon DEF DispatchInv, LatchInv, OwnerInv, FirstOwnerHandles
<1>6. ChannelInv'
  BY <1>2, <1>3, Zenon DEF DispatchInv, ChannelInv
<1> QED  BY <1>4, <1>5, <1>6, Zenon DEF DispatchInv

\* Stopping the channel, or stuttering.
LEMMA StopStep ==
    ASSUME DispatchInv, open' \in BOOLEAN, open' => open,
           UNCHANGED <<chain, request, id, at, claimed, handling, cached, outstanding,
                       authorized>>
    PROVE  DispatchInv'
<1>1. /\ IsRpcFamily' = IsRpcFamily /\ Positions' = Positions /\ Unhandled' = Unhandled
  BY Zenon DEF IsRpcFamily, Positions, Unhandled
<1>2. TypeInv' /\ LatchInv'
  BY <1>1, Zenon DEF DispatchInv, TypeInv, NumberInv, LatchInv
<1>3. ChannelInv' /\ OwnerInv' /\ FirstOwnerHandles'
  BY <1>1, Zenon DEF DispatchInv, ChannelInv, OwnerInv, FirstOwnerHandles
<1> QED  BY <1>2, <1>3, Zenon DEF DispatchInv

\* Every step preserves the invariant.
LEMMA NextDispatch == DispatchInv /\ [Next]_vars => DispatchInv'
<1> SUFFICES ASSUME DispatchInv, [Next]_vars PROVE DispatchInv'  BY Zenon
<1>1. CASE UNCHANGED vars
  <2>1. open' \in BOOLEAN  BY <1>1, Zenon DEF vars, DispatchInv, TypeInv, NumberInv
  <2> QED  BY <1>1, <2>1, StopStep, Zenon DEF vars
<1>2. ASSUME NEW r \in Request, Receive(r) PROVE DispatchInv'
  BY <1>2, ReceiveStep, Zenon
<1>3. CASE Dispatch
  BY <1>3, PassStep, RejectStep, RespondStep, HandleStep, StopStep, Zenon DEF Dispatch,
     StopOffered
<1>4. CASE Handler
  <2>1. CASE Complete
    <3>1. authorized' \in BOOLEAN /\ open' \in BOOLEAN
      BY <2>1, Zenon DEF Complete, DispatchInv, TypeInv, NumberInv
    <3> QED  BY <2>1, <3>1, CompleteStep, Zenon DEF Complete
  <2>2. CASE handle_authenticate
    BY <2>2, CompleteStep, Zenon DEF handle_authenticate
  <2> QED  BY <1>4, <2>1, <2>2, Zenon DEF Handler
<1>5. CASE Stop
  BY <1>5, StopStep, Zenon DEF Stop
<1> QED  BY <1>1, <1>2, <1>3, <1>4, <1>5, Zenon DEF Next

\* For any composition of subgroups, a request is handled by the first attached
\* protocol that defines its method, and over a websocket only once authorized,
\* but for the authentication itself (the claim latch, protocol_bitcoind_dispatch).
THEOREM FirstOwnerHandlesTheorem == Spec => []FirstOwnerHandles
<1>1. DispatchInv => FirstOwnerHandles  BY Zenon DEF DispatchInv
<1> QED  BY InitDispatch, NextDispatch, <1>1, PTL DEF Spec

-----------------------------------------------------------------------------
(* The chain implements RpcService: each step takes a request, settles the *)
(* outstanding one with its identity, ends the channel, or is invisible.   *)

\* What the service sees of a step that does not touch it.
LEMMA InvisibleStep ==
    ASSUME UNCHANGED <<chain, request, id, outstanding, answers, open>>, Waiting' = Waiting
    PROVE  UNCHANGED Service!service
<1>1. Silent' = Silent  BY Zenon DEF Silent, IsRpcFamily, Positions
<1> QED  BY <1>1, Zenon DEF Service!service

\* No handler waits while none runs.
LEMMA NoneWaits == handling = 0 => Waiting = FALSE
BY SMT DEF Waiting

LEMMA NoneWaitsNext == handling' = 0 => Waiting' = FALSE
BY SMT DEF Waiting

LEMMA SameWaits ==
    ASSUME UNCHANGED <<chain, request, handling>>
    PROVE  Waiting' = Waiting
BY Zenon DEF Waiting

\* A response settles the outstanding request with the identity it carries.
LEMMA AnswerStep ==
    ASSUME DispatchInv, open, outstanding = id, id # 0, outstanding' = 0, open' \in BOOLEAN,
           handling' = 0, UNCHANGED <<chain, request, id>>,
           answers' = IF Silent THEN answers ELSE Append(answers, id)
    PROVE  Service!Answer
<1>1. Silent' = Silent  BY Zenon DEF Silent, IsRpcFamily, Positions
<1>2. Waiting' = FALSE  BY NoneWaitsNext, Zenon
<1> QED  BY <1>1, <1>2, Zenon DEF Service!Answer

\* Ending the channel.
LEMMA EndStep ==
    ASSUME open, open' = FALSE, UNCHANGED <<chain, request, id, handling, outstanding, answers>>
    PROVE  Service!End
<1>1. Silent' = Silent  BY Zenon DEF Silent, IsRpcFamily, Positions
<1>2. Waiting' = Waiting  BY SameWaits, Zenon
<1> QED  BY <1>1, <1>2, Zenon DEF Service!End

\* A handler begins: of a wait, or not seen.
LEMMA BeginStep ==
    ASSUME open, outstanding # 0, handling = 0,
           UNCHANGED <<chain, request, id, outstanding, answers, open>>
    PROVE  Service!Await \/ UNCHANGED Service!service
<1>1. Waiting = FALSE  BY NoneWaits, Zenon
<1>2. Silent' = Silent  BY Zenon DEF Silent, IsRpcFamily, Positions
<1>3. Waiting' = FALSE \/ Waiting' = TRUE  BY SMT DEF Waiting
<1>4. CASE Waiting' = FALSE  BY <1>1, <1>4, InvisibleStep, Zenon
<1>5. CASE Waiting' = TRUE  BY <1>1, <1>2, <1>5, Zenon DEF Service!Await
<1> QED  BY <1>3, <1>4, <1>5, Zenon

\* Each step of the dispatch is one of the service, or is not seen by it.
LEMMA StepImplements ==
    ASSUME DispatchInv, [Next]_vars
    PROVE  [Service!ServiceNext]_Service!service
<1> USE DEF Service!ServiceNext
<1>1. CASE UNCHANGED vars
  BY <1>1, InvisibleStep, SameWaits, Zenon DEF vars
<1>2. ASSUME NEW r \in Request, Receive(r) PROVE Service!Take
  <2>1. /\ open /\ outstanding = 0 /\ id' = id + 1 /\ outstanding' = id'
        /\ UNCHANGED <<answers, open>> /\ handling = 0 /\ handling' = handling
    BY <1>2, Zenon DEF Receive
  <2>2. (id' # 0 /\ Silent') \in BOOLEAN  BY Zenon
  <2>3. Waiting' = Waiting  BY <2>1, NoneWaits, NoneWaitsNext, Zenon
  <2> QED  BY <2>1, <2>2, <2>3, Zenon DEF Service!Take
<1>3. CASE Pass
  BY <1>3, InvisibleStep, SameWaits, Zenon DEF Pass
<1>4. CASE Reject
  <2>1. /\ Offered /\ ~claimed /\ open /\ id # 0 /\ outstanding = id /\ open \in BOOLEAN
    BY <1>4, LatchClear, OfferedFacts, Zenon DEF Reject, Offered, DispatchInv, LatchInv, TypeInv
  <2>2. request.verb # "ws"  BY <1>4, RejectVerdict, Zenon DEF Reject
  <2>3. ~Silent  BY <2>2, Zenon DEF Silent
  <2>4. handling' = 0  BY <1>4, <2>1, Zenon DEF Reject, DispatchInv, LatchInv
  <2> QED  BY <1>4, <2>1, <2>3, <2>4, AnswerStep, Zenon DEF Reject
<1>5. CASE Respond
  <2>1. /\ Offered /\ ~claimed /\ open /\ id # 0 /\ outstanding = id /\ open \in BOOLEAN
        /\ at \in Positions
    BY <1>5, LatchClear, OfferedFacts, Zenon DEF Respond, Offered, DispatchInv, LatchInv,
       TypeInv
  <2>2. set_rpc_request(at)[at] = id
    <3>1. IsRpcFamily => cached[at] = id
      BY <1>5, <2>1, AnswerVerdict, Zenon DEF Respond, DispatchInv, ChannelInv
    <3> QED  BY <2>1, <3>1, Zenon DEF set_rpc_request, DispatchInv, TypeInv, NumberInv
  <2>3. handling' = 0  BY <1>5, <2>1, Zenon DEF Respond, DispatchInv, LatchInv
  <2> QED  BY <1>5, <2>1, <2>2, <2>3, AnswerStep, Zenon DEF Respond, send_rpc
<1>6. CASE Handle
  <2>1. /\ Offered /\ ~claimed /\ open /\ id # 0 /\ outstanding = id /\ handling = 0
    BY <1>6, LatchClear, OfferedFacts, Zenon DEF Handle, Offered, DispatchInv, LatchInv, TypeInv
  <2>2. CASE open' = open
    <3>1. UNCHANGED <<chain, request, id, outstanding, answers, open>>
      BY <1>6, <2>2, Zenon DEF Handle
    <3> QED  BY <2>1, <3>1, BeginStep, Zenon
  <2>3. CASE open' = FALSE /\ handling' = handling
    BY <1>6, <2>1, <2>3, EndStep, Zenon DEF Handle
  <2> QED  BY <1>6, <2>2, <2>3, Zenon DEF Handle
<1>7. CASE StopOffered \/ Stop
  BY <1>7, EndStep, Zenon DEF StopOffered, Offered, Stop
<1>8. CASE Handler
  <2>1. /\ open /\ handling # 0 /\ send_rpc(handling, cached[handling])
        /\ UNCHANGED <<chain, request, id>> /\ open' \in BOOLEAN
    BY <1>8, Zenon DEF Handler, Complete, handle_authenticate, DispatchInv, TypeInv
  <2>2. id # 0 /\ outstanding = id /\ cached[handling] = id
    BY <2>1, Zenon DEF DispatchInv, TypeInv, NumberInv, LatchInv
  <2>3. handling' = 0  BY <1>8, Zenon DEF Handler, Complete, handle_authenticate
  <2> QED  BY <2>1, <2>2, <2>3, AnswerStep, Zenon DEF send_rpc
<1> QED  BY <1>1, <1>2, <1>3, <1>4, <1>5, <1>6, <1>7, <1>8, Zenon DEF Next, Dispatch

\* For any composition of subgroups, the chain of protocols implements the
\* request/response service: each request is settled once, with its own identity,
\* before the next is taken (the safety part of OneAnswerEach).
THEOREM OneAnswerEachTheorem == Spec => Service!ServiceSafety
<1>1. Init => Service!ServiceInit  BY NoneWaits, Zenon DEF Init, Service!ServiceInit
<1>2. DispatchInv /\ [Next]_vars => [Service!ServiceNext]_Service!service
  BY StepImplements, Zenon
<1> QED  BY InitDispatch, NextDispatch, <1>1, <1>2, PTL DEF Spec, Service!ServiceSafety
-----------------------------------------------------------------------------
(* The sentinel protocol of the admin filter, and the order in which log   *)
(* messages are notified.                                                  *)

\* TypeOK says enough of the message in progress (its handlers are registered)
\* for the sentinel property and the last filter to be inductive with it.
FilterInv == TypeOK /\ HandlerPerSentinel /\ FilterIsLast

\* Addition associates (used to count registrations).
LEMMA PlusAssociates == \A a, b, c \in Nat : a + (b + c) = a + b + c
OBVIOUS

\* Initially no handler is registered and the sentinel is clear.
LEMMA InitFilter == FilterInit => FilterInv
<1> SUFFICES ASSUME FilterInit PROVE FilterInv  BY Zenon
<1>1. filter \in Word /\ filter.bits = {} /\ filter.on = 0
  BY Zenon DEF FilterInit, Off, Word
<1>2. TypeOK  BY <1>1, Zenon DEF FilterInit, TypeOK
<1>3. HandlerPerSentinel /\ FilterIsLast
  BY <1>1 DEF FilterInit, HandlerPerSentinel, FilterIsLast
<1> QED  BY <1>2, <1>3, Zenon DEF FilterInv

\* The handlers still to be notified remain registered.
LEMMA DoneType ==
    ASSUME TypeOK, message # Idle, NEW h \in Nat, h >= handlers - 1
    PROVE  \/ Done = Idle
           \/ /\ Done \in [bit : SUBSET Bit, todo : Nat \ {0},
                           loaded : Word \union {Unread}]
              /\ Done.todo <= h
<1>1. CASE message.todo = 1  BY <1>1, Zenon DEF Done
<1>2. CASE message.todo # 1
  <2>1. /\ message \in [bit : SUBSET Bit, todo : Nat \ {0},
                        loaded : Word \union {Unread}]
        /\ message.todo <= handlers /\ handlers \in Nat
    BY Zenon DEF TypeOK
  <2>2. Done = [message EXCEPT !.todo = message.todo - 1, !.loaded = Unread]
    BY <1>2, Zenon DEF Done
  <2>3. Done = [bit |-> message.bit, todo |-> message.todo - 1, loaded |-> Unread]
    BY <2>1, <2>2, Zenon
  <2>4. message.todo - 1 \in Nat \ {0} /\ message.todo - 1 <= h
    BY <2>1, <1>2
  <2> QED  BY <2>1, <2>3, <2>4, Zenon
<1> QED  BY <1>1, <1>2, Zenon

\* A message in progress has a registered handler.
LEMMA BusyHandler ==
    ASSUME TypeOK, message # Idle PROVE handlers >= 1 /\ handlers - 1 \in Nat
BY DEF TypeOK

\* The steps of the channel strand (update_filter and what it posts) keep the
\* count of handlers and the sentinel in agreement.
LEMMA StrandSteps ==
    ASSUME FilterInv,
           \/ \E value \in SUBSET Bit : handle_log_subscribe(value)
           \/ subscribe_messages \/ do_log \/ Upgrade \/ StopLog
    PROVE  FilterInv'
<1> USE DEF FilterInv
<1>1. ASSUME NEW value \in SUBSET Bit, handle_log_subscribe(value)
      PROVE  FilterInv'
  <2>1. filter' \in Word /\ filter'.bits = value
    BY <1>1, Zenon DEF handle_log_subscribe, update_filter, TypeOK, Word
  <2>2. TypeOK'
    BY <1>1, <2>1 DEF handle_log_subscribe, channel, TypeOK, Word
  <2>3. FilterIsLast'
    BY <1>1, <2>1, Zenon DEF handle_log_subscribe, FilterIsLast
  <2>4. HandlerPerSentinel'
    <3>1. CASE value = {}
      BY <1>1, <3>1, Zenon DEF handle_log_subscribe, update_filter, channel,
         TypeOK, Word,
         HandlerPerSentinel
    <3>2. CASE value # {}
      <4>1. filter'.on = 1
        BY <1>1, <3>2, Zenon DEF handle_log_subscribe, update_filter
      <4>2. registering' + filter.on = 1
        BY <1>1, <3>2, SMTT(30) DEF handle_log_subscribe, TypeOK, Word
      <4>3. pending + handlers = filter.on /\ pending' = pending /\ handlers' = handlers
        BY <1>1 DEF handle_log_subscribe, channel, TypeOK, Word,
           HandlerPerSentinel
      <4>4. registering' \in Nat /\ pending \in Nat /\ handlers \in Nat
        BY <1>1, Zenon DEF handle_log_subscribe, TypeOK
      <4>5. registering' + (pending + handlers) = 1  BY <4>2, <4>3, Zenon
      <4>6. registering' + pending' + handlers' = 1
        BY <4>3, <4>4, <4>5, PlusAssociates, ZenonT(30)
      <4> QED  BY <4>1, <4>6, Zenon DEF HandlerPerSentinel
    <3> QED  BY <3>1, <3>2, Zenon
  <2> QED  BY <2>2, <2>3, <2>4, Zenon
<1>2. CASE subscribe_messages
  BY <1>2 DEF subscribe_messages, client, channel, TypeOK,
     HandlerPerSentinel, FilterIsLast
<1>3. CASE do_log
  BY <1>3, Zenon DEF do_log, client, channel, TypeOK,
     HandlerPerSentinel, FilterIsLast
<1>4. CASE Upgrade \/ StopLog
  BY <1>4, Zenon DEF Upgrade, StopLog, client, channel, TypeOK,
     HandlerPerSentinel, FilterIsLast
<1> QED  BY <1>1, <1>2, <1>3, <1>4, Zenon

\* So do those of the log strand, get_filter included.
LEMMA LogSteps == ASSUME FilterInv, LogStep PROVE FilterInv'
<1> USE DEF FilterInv
<1>1. CASE Register
  BY <1>1, SMTT(30) DEF Register, client, channel, TypeOK,
     HandlerPerSentinel, FilterIsLast
<1>2. ASSUME NEW b \in Bit, Notify(b) PROVE FilterInv'
  BY <1>2 DEF Notify, client, channel, TypeOK,
     HandlerPerSentinel, FilterIsLast
<1>3. CASE handle_log
  <2>1. CASE closed
    <3>1. handlers' = handlers - 1 /\ message' = Done /\ handlers' \in Nat
      BY <1>3, <2>1, BusyHandler, Zenon DEF handle_log
    <3> QED
      BY <1>3, <2>1, <3>1, DoneType DEF handle_log, client, channel,
         TypeOK,
         HandlerPerSentinel, FilterIsLast
  <2>2. CASE ~closed
    BY <1>3, <2>2, Zenon DEF handle_log, client, channel, TypeOK,
       HandlerPerSentinel, FilterIsLast
  <2> QED  BY <2>1, <2>2, Zenon
<1>4. CASE get_filter
  <2>1. message # Idle /\ handlers >= 1 /\ handlers - 1 \in Nat
    BY <1>4, BusyHandler, Zenon DEF get_filter
  <2>2. CASE filter' = Off /\ filter.bits = {} /\ handlers' = handlers - 1
    <3>1. TypeOK'
      <4>1. filter' \in Word  BY <2>2, Zenon DEF Off, Word
      <4> QED
        BY <1>4, <2>1, <2>2, <4>1, DoneType DEF get_filter, client, channel,
           TypeOK
    <3>2. HandlerPerSentinel'
      BY <1>4, <2>1, <2>2 DEF get_filter, channel, TypeOK, Off,
         Word, HandlerPerSentinel
    <3>3. FilterIsLast'
      BY <1>4, <2>2, Zenon DEF get_filter, client, Off, FilterIsLast
    <3> QED  BY <3>1, <3>2, <3>3, ZenonT(30)
  <2>3. CASE UNCHANGED <<filter, handlers>>
    <3>1. handlers \in Nat /\ handlers >= handlers - 1  BY DEF TypeOK
    <3> QED
      BY <1>4, <2>1, <2>3, <3>1, DoneType, Zenon DEF get_filter, client,
         channel, TypeOK,
         HandlerPerSentinel, FilterIsLast
  <2> QED  BY <1>4, <2>2, <2>3, Zenon DEF get_filter
<1> QED  BY <1>1, <1>2, <1>3, <1>4, ZenonT(30) DEF LogStep

\* Every step preserves the invariant.
LEMMA NextFilter == FilterInv /\ [FilterNext]_(filterVars) => FilterInv'
<1> SUFFICES ASSUME FilterInv, [FilterNext]_(filterVars) PROVE FilterInv'  BY Zenon
<1>1. CASE UNCHANGED filterVars
  BY <1>1, Zenon DEF filterVars, client, channel, FilterInv, TypeOK,
     HandlerPerSentinel, FilterIsLast
<1>2. CASE FilterNext  BY <1>2, StrandSteps, LogSteps, Zenon DEF FilterNext
<1> QED  BY <1>1, <1>2, Zenon

\* In every behaviour the sentinel of a live admin channel stands for exactly
\* one registered (or about to be registered) handler, and a filter with bits
\* has it (update_filter against get_filter).
THEOREM HandlerPerSentinelTheorem == FilterSpec => []HandlerPerSentinel
<1>1. FilterInv => HandlerPerSentinel  BY Zenon DEF FilterInv
<1> QED  BY InitFilter, NextFilter, <1>1, PTL DEF FilterSpec

\* In every behaviour the log strand preserves the client's last filter.
THEOREM FilterIsLastTheorem == FilterSpec => []FilterIsLast
<1>1. FilterInv => FilterIsLast  BY Zenon DEF FilterInv
<1> QED  BY InitFilter, NextFilter, <1>1, PTL DEF FilterSpec

-----------------------------------------------------------------------------
(* The order of notifications.                                             *)

Increasing(s) == \A i, j \in 1..Len(s) : i < j => s[i] < s[j]
Precedes(s, t) == \A i \in 1..Len(s), j \in 1..Len(t) : s[i] < t[j]
AtMost(s, n) == \A i \in 1..Len(s) : s[i] <= n

\* There is never a second handler, stopped or not, so that a message has one
\* handler to go through; what was posted is older than the message in progress.
OrderInv ==
    /\ logs \in Seq(Nat) /\ notified \in Seq(Nat)
    /\ registering + pending + handlers <= 1
    /\ Increasing(notified) /\ Increasing(logs) /\ Precedes(notified, logs)
    /\ AtMost(notified, count) /\ AtMost(logs, count)
    /\ message # Idle => AtMost(notified, count - 1) /\ AtMost(logs, count - 1)

\* A greater number is appended.
LEMMA IncreasingAppend ==
    ASSUME NEW s \in Seq(Nat), NEW r \in Seq(Nat), NEW n \in Nat, Increasing(s), AtMost(s, n - 1),
           Precedes(r, s), AtMost(r, n - 1)
    PROVE  /\ Append(s, n) \in Seq(Nat) /\ Increasing(Append(s, n))
           /\ AtMost(Append(s, n), n) /\ Precedes(r, Append(s, n))
<1> DEFINE t == Append(s, n)
           k == Len(s)
<1>1. t \in Seq(Nat) /\ Len(t) = k + 1 /\ k \in Nat /\ t[k + 1] = n /\ \A i \in 1..k : t[i] = s[i] /\ s[i] \in Nat
  BY SMTT(30)
<1> HIDE DEF t, k
<1>2. \A i \in 1..(k + 1) : i \in 1..k \/ i = k + 1  BY <1>1
<1>3. \A i \in 1..k : s[i] < n
  <2>1. \A i \in 1..k : s[i] <= n - 1  BY Zenon DEF AtMost, k
  <2>2. \A i \in 1..k : s[i] \in Nat  BY <1>1, Zenon
  <2> QED  BY <2>1, <2>2
<1>4. ASSUME NEW i \in 1..(k + 1), NEW j \in 1..(k + 1), i < j PROVE t[i] < t[j]
  <2>1. i \in 1..k  BY <1>1, <1>4
  <2>2. CASE j \in 1..k  BY <1>1, <1>4, <2>1, <2>2, Zenon DEF Increasing, k
  <2>3. CASE j = k + 1  BY <1>1, <1>3, <2>1, <2>3, Zenon
  <2> QED  BY <1>2, <2>2, <2>3, Zenon
<1>5. ASSUME NEW i \in 1..(k + 1) PROVE t[i] <= n
  <2>1. CASE i \in 1..k
    <3>1. t[i] = s[i] /\ s[i] \in Nat /\ s[i] < n  BY <1>1, <1>3, <2>1, Zenon
    <3>2. s[i] <= n  BY <3>1, SMTT(30)
    <3> QED  BY <3>1, <3>2, Zenon
  <2>2. CASE i = k + 1  BY <1>1, <2>2
  <2> QED  BY <1>2, <2>1, <2>2, Zenon
<1>6. ASSUME NEW i \in 1..Len(r), NEW j \in 1..(k + 1) PROVE r[i] < t[j]
  <2>1. CASE j \in 1..k  BY <1>1, <2>1, Zenon DEF Precedes, k
  <2>2. CASE j = k + 1
    <3>1. r[i] \in Nat /\ r[i] <= n - 1  BY SMTT(30) DEF AtMost
    <3> QED  BY <1>1, <2>2, <3>1, SMTT(30)
  <2> QED  BY <1>2, <2>1, <2>2, Zenon
<1> QED  BY <1>1, <1>4, <1>5, <1>6, Zenon DEF Increasing, AtMost, Precedes, t

\* The first number of a queue is taken, and appended to what precedes it.
LEMMA IncreasingTail ==
    ASSUME NEW s \in Seq(Nat), s # <<>>, NEW r \in Seq(Nat), Increasing(s), Increasing(r), Precedes(r, s)
    PROVE  /\ Tail(s) \in Seq(Nat) /\ Increasing(Tail(s)) /\ Precedes(r, Tail(s))
           /\ Append(r, Head(s)) \in Seq(Nat) /\ Increasing(Append(r, Head(s)))
           /\ Precedes(Append(r, Head(s)), Tail(s))
           /\ \A n : AtMost(s, n) => AtMost(Tail(s), n)
           /\ \A n : AtMost(s, n) /\ AtMost(r, n) => AtMost(Append(r, Head(s)), n)
<1> DEFINE t == Tail(s)
           k == Len(s)
           h == Head(s)
           q == Append(r, h)
           n == Len(r)
<1>1. /\ h = s[1] /\ h \in Nat /\ k \in Nat /\ k >= 1 /\ Len(t) = k - 1 /\ t \in Seq(Nat)
      /\ \A i \in 1..(k - 1) : t[i] = s[i + 1]
  OBVIOUS
<1>2. q \in Seq(Nat) /\ Len(q) = n + 1 /\ n \in Nat /\ q[n + 1] = h /\ \A i \in 1..n : q[i] = r[i]
  BY <1>1
<1> HIDE DEF t, k, h, q, n
<1>3. 1 \in 1..k /\ \A i \in 1..(k - 1) : i + 1 \in 1..k /\ 1 < i + 1 /\ i \in Nat  BY <1>1
<1>4. \A i \in 1..(n + 1) : i \in 1..n \/ i = n + 1  BY <1>2
<1>5. \A i \in 1..n : r[i] < h  BY <1>1, <1>3, Zenon DEF Precedes, k, n
<1>6. \A j \in 1..(k - 1) : h < t[j]  BY <1>1, <1>3, Zenon DEF Increasing, k
<1>7. ASSUME NEW i \in 1..(k - 1), NEW j \in 1..(k - 1), i < j PROVE t[i] < t[j]
  <2>1. i + 1 \in 1..k /\ j + 1 \in 1..k /\ i + 1 < j + 1  BY <1>3, <1>7
  <2>2. t[i] = s[i + 1] /\ t[j] = s[j + 1]  BY <1>1, Zenon
  <2> QED  BY <2>1, <2>2, Zenon DEF Increasing, k
<1>8. ASSUME NEW i \in 1..n, NEW j \in 1..(k - 1) PROVE r[i] < t[j]
  BY <1>1, <1>3, Zenon DEF Precedes, k, n
<1>9. ASSUME NEW i \in 1..(n + 1), NEW j \in 1..(n + 1), i < j PROVE q[i] < q[j]
  <2>1. i \in 1..n  BY <1>2, <1>9
  <2>2. CASE j \in 1..n  BY <1>2, <1>9, <2>1, <2>2, Zenon DEF Increasing, n
  <2>3. CASE j = n + 1  BY <1>2, <1>5, <2>1, <2>3, Zenon
  <2> QED  BY <1>4, <2>2, <2>3, Zenon
<1>10. ASSUME NEW i \in 1..(n + 1), NEW j \in 1..(k - 1) PROVE q[i] < t[j]
  <2>1. CASE i \in 1..n  BY <1>2, <1>8, <2>1, Zenon
  <2>2. CASE i = n + 1  BY <1>2, <1>6, <2>2, Zenon
  <2> QED  BY <1>4, <2>1, <2>2, Zenon
<1>11. ASSUME NEW b, AtMost(s, b), NEW i \in 1..(k - 1) PROVE t[i] <= b
  BY <1>1, <1>3, <1>11, Zenon DEF AtMost, k
<1>12. ASSUME NEW b, AtMost(s, b), AtMost(r, b), NEW i \in 1..(n + 1) PROVE q[i] <= b
  <2>1. CASE i \in 1..n  BY <1>2, <1>12, <2>1, Zenon DEF AtMost, n
  <2>2. CASE i = n + 1  BY <1>1, <1>2, <1>3, <1>12, <2>2, Zenon DEF AtMost, k
  <2> QED  BY <1>4, <2>1, <2>2, Zenon
<1> QED
  <2>1. Increasing(t) /\ Increasing(q)  BY <1>1, <1>2, <1>7, <1>9, Zenon DEF Increasing
  <2>2. Precedes(r, t) /\ Precedes(q, t)  BY <1>1, <1>2, <1>8, <1>10, Zenon DEF Precedes, n
  <2>3. \A b : AtMost(s, b) => AtMost(t, b)  BY <1>1, <1>11, Zenon DEF AtMost
  <2>4. \A b : AtMost(s, b) /\ AtMost(r, b) => AtMost(q, b)  BY <1>2, <1>12, Zenon DEF AtMost
  <2> QED  BY <1>1, <1>2, <2>1, <2>2, <2>3, <2>4, Zenon DEF t, q, h

\* A greater bound.
LEMMA AtMostRises == ASSUME NEW s \in Seq(Nat), NEW n \in Nat, NEW m \in Nat, n <= m, AtMost(s, n) PROVE AtMost(s, m)
<1>1. \A i \in 1..Len(s) : s[i] \in Nat  OBVIOUS
<1> QED  BY <1>1 DEF AtMost

\* At the start there is no handler and nothing is posted.
LEMMA InitOrder == FilterInit => OrderInv
<1> SUFFICES ASSUME FilterInit PROVE OrderInv  BY Zenon
<1>1. logs = <<>> /\ notified = <<>> /\ message = Idle /\ registering = 0 /\ pending = 0 /\ handlers = 0
  BY Zenon DEF FilterInit
<1> QED  BY <1>1 DEF OrderInv, Increasing, Precedes, AtMost

\* No step makes a second handler.
LEMMA NextHandlers ==
    ASSUME FilterInv, FilterInv', registering + pending + handlers <= 1, [FilterNext]_(filterVars)
    PROVE  registering' + pending' + handlers' <= 1
<1>1. CASE ~closed'
  <2>1. filter' \in Word  BY Zenon DEF FilterInv, TypeOK
  <2>2. filter'.on \in {0, 1}  BY <2>1, Zenon DEF Word
  <2>3. registering' + pending' + handlers' = filter'.on
    BY <1>1, Zenon DEF FilterInv, HandlerPerSentinel
  <2>4. filter'.on <= 1  BY <2>2
  <2> QED  BY <2>3, <2>4, Zenon
<1>2. CASE closed'
  <2>1. registering \in Nat /\ pending \in Nat /\ handlers \in Nat
    BY DEF FilterInv, TypeOK
  <2>2. ASSUME NEW value \in SUBSET Bit PROVE ~handle_log_subscribe(value)
    BY <1>2, Zenon DEF handle_log_subscribe, channel
  <2>3. CASE subscribe_messages  BY <2>1, <2>3 DEF subscribe_messages
  <2>4. CASE Register  BY <2>1, <2>4, SMTT(30) DEF Register
  <2>5. CASE handle_log \/ get_filter
    BY <2>1, <2>5 DEF handle_log, get_filter
  <2>6. CASE UNCHANGED <<registering, pending, handlers>>  BY <2>6, Zenon
  <2> QED
    BY <2>2, <2>3, <2>4, <2>5, <2>6, Zenon DEF FilterNext, LogStep, do_log,
       Upgrade, StopLog, Notify, filterVars
<1> QED  BY <1>1, <1>2, Zenon

\* Every step keeps the order.
LEMMA NextOrder == ASSUME FilterInv, FilterInv', OrderInv, [FilterNext]_(filterVars) PROVE OrderInv'
<1>1. registering' + pending' + handlers' <= 1  BY NextHandlers, Zenon DEF OrderInv
<1>2. count \in Nat /\ count' \in Nat  BY Zenon DEF FilterInv, TypeOK
<1>3. message # Idle => message.todo = 1
  <2> SUFFICES ASSUME message # Idle PROVE message.todo = 1  BY Zenon
  <2>1. /\ message.todo \in Nat \ {0} /\ message.todo <= handlers
        /\ registering \in Nat /\ pending \in Nat /\ handlers \in Nat
    BY DEF FilterInv, TypeOK
  <2>2. handlers <= 1  BY <2>1 DEF OrderInv
  <2> QED  BY <2>1, <2>2
<1>4. CASE UNCHANGED <<logs, notified, count>> /\ (message' # Idle => message # Idle)
  BY <1>1, <1>4, Zenon DEF OrderInv
<1>5. CASE do_log
  <2>1. UNCHANGED <<message, count>> /\ logs # <<>> /\ logs' = Tail(logs)
        /\ (notified' = notified \/ notified' = Append(notified, Head(logs)))
    BY <1>5, Zenon DEF do_log
  <2>2. /\ logs' \in Seq(Nat) /\ notified' \in Seq(Nat)
        /\ Increasing(logs') /\ Increasing(notified') /\ Precedes(notified', logs')
        /\ \A n : AtMost(logs, n) => AtMost(logs', n)
        /\ \A n : AtMost(logs, n) /\ AtMost(notified, n) => AtMost(notified', n)
    BY <2>1, IncreasingTail, ZenonT(30) DEF OrderInv
  <2> QED  BY <1>1, <2>1, <2>2, Zenon DEF OrderInv
<1>6. ASSUME NEW b \in Bit, Notify(b) PROVE OrderInv'
  <2>1. UNCHANGED <<logs, notified>> /\ count' = count + 1  BY <1>6, Zenon DEF Notify
  <2>2. count' - 1 = count  BY <1>2, <2>1, SMTT(30)
  <2>3. AtMost(notified, count') /\ AtMost(logs, count')
    BY <1>2, <2>1, AtMostRises DEF OrderInv
  <2> QED  BY <1>1, <2>1, <2>2, <2>3, Zenon DEF OrderInv
<1>7. CASE get_filter
  <2>1. message # Idle /\ message' = Idle /\ UNCHANGED <<notified, count>>
    BY <1>3, <1>7, Zenon DEF get_filter, Done
  <2>2. CASE logs' = logs  BY <1>1, <2>1, <2>2, Zenon DEF OrderInv
  <2>3. CASE logs' = Append(logs, count)
    <3>1. /\ logs' \in Seq(Nat) /\ Increasing(logs') /\ AtMost(logs', count) /\ Precedes(notified, logs')
      BY <1>2, <2>1, <2>3, IncreasingAppend, Zenon DEF OrderInv
    <3> QED  BY <1>1, <2>1, <3>1, Zenon DEF OrderInv
  <2> QED  BY <1>7, <2>2, <2>3, Zenon DEF get_filter
<1>8. ASSUME NEW value \in SUBSET Bit, handle_log_subscribe(value) PROVE OrderInv'
  BY <1>4, <1>8, Zenon DEF handle_log_subscribe
<1>9. CASE handle_log
  BY <1>3, <1>4, <1>9, Zenon DEF handle_log, Done
<1>10. CASE subscribe_messages \/ Upgrade \/ StopLog \/ Register \/ UNCHANGED filterVars
  BY <1>4, <1>10, Zenon DEF subscribe_messages, Upgrade, StopLog,
     Register, filterVars
<1> QED
  BY <1>5, <1>6, <1>7, <1>8, <1>9, <1>10, Zenon DEF FilterNext, LogStep

\* In every behaviour a log message is notified to the client at most once, and
\* in the order logged, whatever requests and stops race the log strand.
THEOREM NotifiedOnceInOrderTheorem == FilterSpec => []NotifiedOnceInOrder
<1>1. FilterInit => FilterInv /\ OrderInv  BY InitFilter, InitOrder, Zenon
<1>2. FilterInv /\ OrderInv /\ [FilterNext]_(filterVars) => (FilterInv /\ OrderInv)'
  BY NextFilter, NextOrder, Zenon
<1>3. FilterInv /\ OrderInv => NotifiedOnceInOrder
  <2> SUFFICES ASSUME OrderInv PROVE NotifiedOnceInOrder  BY Zenon
  <2> DEFINE sent == notified \o logs
             n == Len(notified)
             k == Len(logs)
  <2>1. logs \in Seq(Nat) /\ notified \in Seq(Nat)  BY Zenon DEF OrderInv
  <2>2. /\ Len(sent) = n + k /\ n \in Nat /\ k \in Nat
        /\ \A i \in 1..n : sent[i] = notified[i]
        /\ \A i \in (n + 1)..(n + k) : sent[i] = logs[i - n]
    BY <2>1, SMTT(30)
  <2> HIDE DEF sent, n, k
  <2>3. \A i \in 1..(n + k) : i \in 1..n \/ (i \in (n + 1)..(n + k) /\ i - n \in 1..k)  BY <2>2
  <2>4. ASSUME NEW i \in 1..(n + k), NEW j \in 1..(n + k), i < j PROVE sent[i] < sent[j]
    <3>1. CASE j \in 1..n
      <4>1. i \in 1..n  BY <2>2, <2>4, <3>1
      <4> QED  BY <2>2, <2>4, <3>1, <4>1, ZenonT(30) DEF OrderInv, Increasing, n
    <3>2. CASE j \notin 1..n /\ i \in 1..n
      <4>1. sent[j] = logs[j - n] /\ j - n \in 1..k /\ sent[i] = notified[i]
        BY <2>2, <2>3, <3>2, Zenon
      <4> QED  BY <3>2, <4>1, Zenon DEF OrderInv, Precedes, n, k
    <3>3. CASE i \notin 1..n /\ j \notin 1..n
      <4>1. sent[j] = logs[j - n] /\ j - n \in 1..k /\ sent[i] = logs[i - n] /\ i - n \in 1..k
        BY <2>2, <2>3, <3>3, Zenon
      <4>2. i - n < j - n  BY <2>2, <2>4, SMTT(30)
      <4> QED  BY <4>1, <4>2, Zenon DEF OrderInv, Increasing, k
    <3> QED  BY <3>1, <3>2, <3>3, Zenon
  <2> QED  BY <2>2, <2>4, Zenon DEF NotifiedOnceInOrder, sent
<1> QED  BY <1>1, <1>2, <1>3, PTL DEF FilterSpec
-----------------------------------------------------------------------------
(* The waits of bitcoind.                                                  *)
(*                                                                         *)
(* The waiter is that of the last request, or none.  A timer is known by   *)
(* the number of its request wherever it is (running, expired or canceled),*)
(* so that what remains of an earlier one never has the waiter's number.   *)
(* A wait that is met has an event on its way.                             *)

Post == [op : {"event", "timeout"}, for : Nat]

WaitTypes ==
    /\ posts \in Seq(Post) /\ answered \in Seq(Nat) /\ events \in Seq({"chase"})
    /\ asked \in Nat /\ armed \in Nat /\ timer \in Nat
    /\ step \in {"idle", "check", "arm"}
    /\ subscribed \in BOOLEAN /\ stopped \in BOOLEAN
    /\ met \in BOOLEAN /\ missed \in BOOLEAN /\ early \in BOOLEAN
    /\ wait.timed \in BOOLEAN

\* The waiter, and what has been answered.
WaiterInv ==
    /\ armed # 0 => armed = asked /\ step = "idle"
    /\ step # "idle" => asked > 0
    /\ \A i \in 1..Len(answered) : answered[i] = i
    /\ ~stopped => Len(answered) = IF Outstanding THEN asked - 1 ELSE asked

\* The number n of a timer: no later than the requests, earlier than the one
\* being armed, and the waiter's only if that has a timeout.
TimerOf(n) ==
    /\ n <= asked
    /\ step # "idle" => n < asked
    /\ n = armed => wait.timed

TimerInv ==
    /\ timer # 0 => TimerOf(timer)
    /\ \A i \in 1..Len(posts) :
        posts[i].op = "timeout" => posts[i].for # 0 /\ TimerOf(posts[i].for)

\* A wait that is met was seen to be, and is not answered before.
MetInv ==
    /\ wait_done(wait, blocks) => met
    /\ ~early

\* An event is on its way to a wait that is met and was tested before that.
Coming == events # <<>> \/ \E i \in 1..Len(posts) : posts[i].op = "event"

WakeInv ==
    ~stopped /\ (armed # 0 \/ step = "arm") /\ ~missed /\ wait_done(wait, blocks)
        => Coming

WaitInv == WaitTypes /\ WaiterInv /\ TimerInv /\ MetInv /\ WakeInv
-----------------------------------------------------------------------------
\* What is posted is added at the end, and nothing posted before is lost.
LEMMA AppendPost ==
  ASSUME NEW S, NEW s \in Seq(S), NEW e \in S
  PROVE  /\ Append(s, e) \in Seq(S)
         /\ Len(Append(s, e)) = Len(s) + 1
         /\ \A i \in 1..Len(s) : Append(s, e)[i] = s[i]
         /\ Append(s, e)[Len(s) + 1] = e
  OBVIOUS

\* What runs is removed from the front, and the rest keeps its order.
LEMMA TailPost ==
  ASSUME NEW S, NEW s \in Seq(S), s # <<>>
  PROVE  /\ Tail(s) \in Seq(S) /\ Head(s) \in S /\ Head(s) = s[1]
         /\ Len(s) \in Nat /\ Len(s) > 0 /\ Len(Tail(s)) = Len(s) - 1
         /\ \A i \in 1..(Len(s) - 1) : Tail(s)[i] = s[i + 1]
  OBVIOUS

\* Whatever is posted has a number.
LEMMA PostNumber ==
  ASSUME NEW s \in Seq(Post)
  PROVE  \A i \in 1..Len(s) : s[i].for \in Nat
  <1>1. \A i \in 1..Len(s) : s[i] \in Post
    OBVIOUS
  <1> QED
    BY <1>1, Zenon DEF Post

\* The first block, no request and no timer.
LEMMA InitWait == WaitInit => WaitInv
  <1> SUFFICES ASSUME WaitInit PROVE WaitInv
    BY Zenon
  <1>1. WaitTypes
    <2>1. wait.timed = FALSE
      BY Zenon DEF WaitInit, NoWait
    <2>2. posts \in Seq(Post) /\ answered \in Seq(Nat) /\ events \in Seq({"chase"})
      BY DEF WaitInit
    <2> QED
      BY <2>1, <2>2, Zenon DEF WaitInit, WaitTypes
  <1>2. WaiterInv
    BY DEF WaitInit, WaiterInv, Outstanding
  <1>3. TimerInv
    BY DEF WaitInit, TimerInv
  <1>4. MetInv
    BY Zenon DEF WaitInit, MetInv, NoWait, wait_done
  <1>5. WakeInv
    BY Zenon DEF WaitInit, WakeInv, NoWait
  <1> QED
    BY <1>1, <1>2, <1>3, <1>4, <1>5, Zenon DEF WaitInv

\* A change of the chain is followed by its event, if subscribed.
LEMMA ChangeStep ==
  ASSUME WaitInv, NEW c, Change(c)
  PROVE  WaitInv'
  <1> USE DEF WaitInv
  <1>1. WaitTypes'
    BY AppendPost, Zenon DEF Change, WaitTypes
  <1>2. WaiterInv'
    BY Zenon DEF Change, WaiterInv, Outstanding
  <1>3. TimerInv'
    BY Zenon DEF Change, TimerInv, TimerOf
  <1>4. MetInv'
    BY Zenon DEF Change, MetInv, wait_done, WaitTypes
  <1>5. WakeInv'
    <2>1. CASE subscribed
      <3>1. events' # <<>>
        BY <2>1, AppendPost DEF Change, WaitTypes
      <3> QED
        BY <3>1, ZenonT(30) DEF WakeInv, Coming
    <2>2. CASE ~subscribed
      BY <2>2, Zenon DEF Change, WakeInv, WaitTypes
    <2> QED
      BY <2>1, <2>2, Zenon
  <1> QED
    BY <1>1, <1>2, <1>3, <1>4, <1>5, Zenon

\* The event is posted to the strand.
LEMMA ChaseStep ==
  ASSUME WaitInv, handle_chase
  PROVE  WaitInv'
  <1> USE DEF WaitInv
  <1> DEFINE post == [op |-> "event", for |-> 0]
  <1>0. post \in Post /\ post.op = "event"
    BY Zenon DEF Post
  <1>1. posts' = posts \/ (~stopped /\ posts' = Append(posts, post))
    BY Zenon DEF handle_chase, WaitTypes
  <1>2. stopped => posts' = posts
    BY Zenon DEF handle_chase, WaitTypes
  <1>3. ~stopped => posts' = Append(posts, post)
    BY ZenonT(30) DEF handle_chase, WaitTypes
  <1> HIDE DEF post
  <1>4. WaitTypes'
    BY <1>0, <1>1, AppendPost, TailPost, SMTT(30) DEF handle_chase, history, WaitTypes
  <1>5. WaiterInv'
    BY Zenon DEF handle_chase, WaiterInv, Outstanding
  <1>6. TimerInv'
    <2>1. CASE stopped
      BY <1>2, <2>1, Zenon DEF handle_chase, TimerInv, TimerOf
    <2>2. CASE ~stopped
      <3>1. \A i \in 1..Len(posts') : posts'[i].op = "timeout" =>
              i \in 1..Len(posts) /\ posts'[i] = posts[i]
        <4>1. Len(posts) \in Nat /\ Len(posts') = Len(posts) + 1
              /\ posts'[Len(posts) + 1].op = "event"
          BY <1>0, <1>3, <2>2, AppendPost, SMTT(30) DEF WaitTypes
        <4>2. \A i \in 1..Len(posts) : posts'[i] = posts[i]
          <5>1. posts \in Seq(Post)
            BY Zenon DEF WaitTypes
          <5>2. \A i \in 1..Len(posts) : Append(posts, post)[i] = posts[i]
            BY <1>0, <5>1, AppendPost, SMTT(30)
          <5> QED
            BY <1>3, <2>2, <5>2, Zenon
        <4> QED
          BY <4>1, <4>2, SMTT(30)
      <3> QED
        BY <3>1, ZenonT(30) DEF handle_chase, TimerInv, TimerOf
    <2> QED
      BY <2>1, <2>2, Zenon
  <1>7. MetInv'
    BY Zenon DEF handle_chase, history, MetInv, wait_done
  <1>8. WakeInv'
    <2>1. CASE stopped
      BY <2>1, Zenon DEF handle_chase, WakeInv
    <2>2. CASE ~stopped
      <3>1. Len(posts) \in Nat /\ Len(posts') = Len(posts) + 1
            /\ posts'[Len(posts) + 1].op = "event"
        BY <1>0, <1>3, <2>2, AppendPost DEF WaitTypes
      <3>2. Len(posts) + 1 \in 1..Len(posts')
        BY <3>1
      <3> QED
        BY <3>1, <3>2, ZenonT(30) DEF WakeInv, Coming
    <2> QED
      BY <2>1, <2>2, Zenon
  <1> QED
    BY <1>4, <1>5, <1>6, <1>7, <1>8, Zenon

\* A request takes the next number, which no timer has.
LEMMA RequestInv ==
  ASSUME WaitInv, (handle_wait /\ wait'.timed \in BOOLEAN) \/ handle_wait_at_once
  PROVE  WaitInv'
  <1> USE DEF WaitInv
  <1>1. CASE handle_wait /\ wait'.timed \in BOOLEAN
    <2>1. WaitTypes'
      <3>1. met' \in BOOLEAN
        BY <1>1, Zenon DEF handle_wait, wait_done
      <3>2. wait'.timed \in BOOLEAN
        BY <1>1, Zenon DEF handle_wait
      <3>3. missed' = FALSE /\ step' = "check"
        BY <1>1, Zenon DEF handle_wait
      <3>4. asked' \in Nat
        BY <1>1, SMTT(30) DEF handle_wait, WaitTypes
      <3> QED
        BY <1>1, <3>1, <3>2, <3>3, <3>4, Zenon DEF handle_wait, node, WaitTypes
    <2>2. WaiterInv'
      BY <1>1 DEF handle_wait, WaiterInv, Outstanding, WaitTypes
    <2>3. TimerInv'
      <3>1. \A n \in Nat : TimerOf(n) /\ n # 0 => TimerOf(n)'
        BY <1>1 DEF handle_wait, TimerOf, Outstanding, WaitTypes
      <3>2. \A i \in 1..Len(posts) : posts[i].for \in Nat
        BY PostNumber, Zenon DEF WaitTypes
      <3> QED
        BY <1>1, <3>1, <3>2, ZenonT(30) DEF handle_wait, TimerInv, WaitTypes
    <2>4. MetInv'
      BY <1>1, Zenon DEF handle_wait, node, MetInv, wait_done
    <2>5. WakeInv'
      BY <1>1, ZenonT(30) DEF handle_wait, Outstanding, WakeInv
    <2> QED
      BY <2>1, <2>2, <2>3, <2>4, <2>5, Zenon
  <1>2. CASE handle_wait_at_once
    <2>1. WaitTypes'
      BY <1>2, AppendPost DEF handle_wait_at_once, node, history, WaitTypes
    <2>2. WaiterInv'
      <3>1. Len(answered) = asked /\ Len(answered') = asked + 1
        BY <1>2, AppendPost, SMTT(30) DEF handle_wait_at_once, Outstanding, WaiterInv, WaitTypes
      <3>2. \A i \in 1..Len(answered') : answered'[i] = i
        <4>1. asked + 1 \in Nat /\ answered \in Seq(Nat)
          BY SMTT(30) DEF WaitTypes
        <4>2. \A i \in 1..Len(answered) : Append(answered, asked + 1)[i] = answered[i]
          BY <4>1, AppendPost, SMTT(30)
        <4>3. Append(answered, asked + 1)[asked + 1] = asked + 1
          BY <3>1, <4>1, AppendPost, SMTT(30)
        <4>4. answered' = Append(answered, asked + 1)
          BY <1>2, Zenon DEF handle_wait_at_once
        <4> QED
          BY <3>1, <4>1, <4>2, <4>3, <4>4, SMTT(30) DEF WaiterInv
      <3> QED
        BY <1>2, <3>1, <3>2, ZenonT(30) DEF handle_wait_at_once, Outstanding, WaiterInv,
           WaitTypes
    <2>3. TimerInv'
      <3>1. \A n \in Nat : TimerOf(n) /\ n # 0 => TimerOf(n)'
        BY <1>2, SMTT(30) DEF handle_wait_at_once, TimerOf, Outstanding, WaitTypes
      <3>2. \A i \in 1..Len(posts) : posts[i].for \in Nat
        BY PostNumber, Zenon DEF WaitTypes
      <3> QED
        BY <1>2, <3>1, <3>2, ZenonT(30) DEF handle_wait_at_once, TimerInv, WaitTypes
    <2>4. MetInv'
      BY <1>2, Zenon DEF handle_wait_at_once, node, history, MetInv,
         wait_done
    <2>5. WakeInv'
      BY <1>2, Zenon DEF handle_wait_at_once, Outstanding, WakeInv
    <2> QED
      BY <2>1, <2>2, <2>3, <2>4, <2>5, Zenon
  <1> QED
    BY <1>1, <1>2, Zenon

\* The answer of an outstanding request is the next, and is not early if the
\* wait is met or has a timeout.
LEMMA SendTop ==
  ASSUME WaitInv, Outstanding, send_top(asked), stopped' = stopped, met \/ wait.timed
  PROVE  /\ answered' \in Seq(Nat) /\ early' = FALSE
         /\ \A i \in 1..Len(answered') : answered'[i] = i
         /\ ~stopped => Len(answered') = asked
  <1> USE DEF WaitInv
  <1>1. early' = FALSE
    BY Zenon DEF send_top, MetInv, WaitTypes
  <1>2. CASE stopped
    BY <1>1, <1>2, Zenon DEF send_top, WaiterInv, WaitTypes
  <1>3. CASE ~stopped
    <2>1. answered' = Append(answered, asked) /\ asked \in Nat /\ answered \in Seq(Nat)
      BY <1>3, Zenon DEF send_top, WaitTypes
    <2>2. Len(answered) = asked - 1
      BY <1>3, Zenon DEF WaiterInv, WaitTypes
    <2>3. Append(answered, asked) \in Seq(Nat) /\ Len(Append(answered, asked)) = Len(answered) + 1
          /\ Append(answered, asked)[Len(answered) + 1] = asked
      BY <2>1, AppendPost, ZenonT(30)
    <2>4. \A i \in 1..Len(answered) : Append(answered, asked)[i] = answered[i]
      BY <2>1, AppendPost
    <2> QED
      BY <1>1, <2>1, <2>2, <2>3, <2>4, SMTT(30) DEF WaiterInv
  <1> QED
    BY <1>2, <1>3, Zenon

\* The wait is tested, and stored if it is not met.
LEMMA ArmStep ==
  ASSUME WaitInv, arm_wait_check \/ arm_wait
  PROVE  WaitInv'
  <1> USE DEF WaitInv
  <1>1. CASE arm_wait_check /\ wait_done(wait, blocks)
    <2>1. send_top(asked) /\ step' = "idle" /\ Outstanding /\ met
      BY <1>1, Zenon DEF arm_wait_check, Outstanding, MetInv
    <2>2. /\ answered' \in Seq(Nat) /\ early' = FALSE
          /\ \A i \in 1..Len(answered') : answered'[i] = i
          /\ ~stopped => Len(answered') = asked
      BY <1>1, <2>1, SendTop, Zenon DEF arm_wait_check
    <2>3. WaitTypes'
      BY <1>1, <2>1, <2>2, Zenon DEF arm_wait_check, node, WaitTypes
    <2>4. WaiterInv'
      BY <1>1, <2>1, <2>2, Zenon DEF arm_wait_check, WaiterInv, Outstanding
    <2>5. TimerInv'
      BY <1>1, <2>1, Zenon DEF arm_wait_check, TimerInv, TimerOf
    <2>6. MetInv'
      BY <1>1, <2>2, Zenon DEF arm_wait_check, node, MetInv, wait_done
    <2>7. WakeInv'
      BY <1>1, <2>1, Zenon DEF arm_wait_check, WakeInv, WaiterInv
    <2> QED
      BY <2>3, <2>4, <2>5, <2>6, <2>7, Zenon
  <1>2. CASE arm_wait_check /\ ~wait_done(wait, blocks)
    <2>1. step = "check" /\ step' = "arm" /\ answered' = answered /\ early' = early
      BY <1>2, Zenon DEF arm_wait_check
    <2>2. WaitTypes'
      BY <1>2, <2>1, Zenon DEF arm_wait_check, node, WaitTypes
    <2>3. WaiterInv'
      BY <1>2, <2>1, Zenon DEF arm_wait_check, WaiterInv, Outstanding
    <2>4. TimerInv'
      BY <1>2, <2>1, Zenon DEF arm_wait_check, TimerInv, TimerOf
    <2>5. MetInv'
      BY <1>2, <2>1, Zenon DEF arm_wait_check, node, MetInv, wait_done
    <2>6. WakeInv'
      BY <1>2, ZenonT(30) DEF arm_wait_check, node, WakeInv, wait_done
    <2> QED
      BY <2>2, <2>3, <2>4, <2>5, <2>6, Zenon
  <1>3. CASE arm_wait
    <2>1. WaitTypes'
      BY <1>3, ZenonT(30) DEF arm_wait, node, history, WaitTypes
    <2>2. WaiterInv'
      BY <1>3 DEF arm_wait, WaiterInv, Outstanding, WaitTypes
    <2>3. TimerInv'
      <3>1. \A n \in Nat : TimerOf(n) => TimerOf(n)'
        BY <1>3 DEF arm_wait, TimerOf, WaitTypes
      <3>2. \A i \in 1..Len(posts) : posts[i].for \in Nat
        BY PostNumber, Zenon DEF WaitTypes
      <3>3. wait.timed => TimerOf(asked)'
        BY <1>3 DEF arm_wait, TimerOf, WaitTypes
      <3> QED
        BY <1>3, <3>1, <3>2, <3>3, ZenonT(30) DEF arm_wait, TimerInv, WaitTypes
    <2>4. MetInv'
      BY <1>3, Zenon DEF arm_wait, node, history, MetInv, wait_done
    <2>5. WakeInv'
      BY <1>3, Zenon DEF arm_wait, node, history, WakeInv, Coming, wait_done
    <2> QED
      BY <2>1, <2>2, <2>3, <2>4, <2>5, Zenon
  <1> QED
    BY <1>1, <1>2, <1>3, Zenon

\* A post that completes nothing is dropped: a timer's, or an event that finds
\* no waiter or finds it not met.
LEMMA DropStep ==
  ASSUME WaitInv, step = "idle", posts # <<>>, posts' = Tail(posts),
         Head(posts).op = "timeout" \/ armed = 0 \/ ~wait_done(wait, blocks),
         UNCHANGED <<node, subscribed, step, wait, armed, timer, asked, answered,
                     history, stopped, down>>
  PROVE  WaitInv'
  <1> USE DEF WaitInv
  <1>1. posts \in Seq(Post)
    BY Zenon DEF WaitTypes
  <1>2. /\ posts' \in Seq(Post) /\ Head(posts) = posts[1] /\ Len(posts) \in Nat
        /\ Len(posts') = Len(posts) - 1
    BY <1>1, TailPost, Zenon
  <1>3. \A i \in 1..(Len(posts) - 1) : posts'[i] = posts[i + 1]
    <2>1. \A i \in 1..(Len(posts) - 1) : Tail(posts)[i] = posts[i + 1]
      BY <1>1, TailPost, Zenon
    <2> QED
      BY <2>1, Zenon
  <1>4. WaitTypes'
    BY <1>2, Zenon DEF node, history, WaitTypes
  <1>5. WaiterInv'
    BY ZenonT(30) DEF WaiterInv, Outstanding
  <1>6. TimerInv'
    <2>1. \A i \in 1..Len(posts') : i + 1 \in 1..Len(posts) /\ posts'[i] = posts[i + 1]
      BY <1>2, <1>3
    <2> QED
      BY <2>1, SMTT(30) DEF TimerInv, TimerOf
  <1>7. MetInv'
    BY Zenon DEF node, history, MetInv, wait_done
  <1>8. WakeInv'
    <2>1. CASE armed = 0 \/ ~wait_done(wait, blocks)
      BY <2>1, Zenon DEF node, WakeInv, wait_done
    <2>2. CASE Head(posts).op = "timeout"
      <3>1. Coming => Coming'
        <4>1. \A i \in 1..Len(posts) : posts[i].op = "event" =>
                i - 1 \in 1..Len(posts') /\ posts'[i - 1] = posts[i]
          BY <1>2, <1>3, <2>2, SMTT(30)
        <4> QED
          BY <4>1, Zenon DEF node, Coming
      <3> QED
        BY <3>1, Zenon DEF node, history, WakeInv, wait_done
    <2> QED
      BY <2>1, <2>2, Zenon
  <1> QED
    BY <1>4, <1>5, <1>6, <1>7, <1>8, Zenon

\* A post that completes the wait removes the waiter before it answers; what
\* the cancel of its timer posts has a number that is no waiter's.
LEMMA CompleteWait ==
  ASSUME WaitInv, step = "idle", posts # <<>>, armed # 0, armed' = 0,
         complete_wait(armed), met \/ wait.timed,
         UNCHANGED <<node, subscribed, step, wait, asked, met, missed, stopped, down>>
  PROVE  WaitInv'
  <1> USE DEF WaitInv
  <1> DEFINE cancel == [op |-> "timeout", for |-> timer]
  <1>1. posts \in Seq(Post) /\ armed = asked /\ Outstanding
    BY Zenon DEF WaitTypes, WaiterInv, Outstanding
  <1>2. /\ answered' \in Seq(Nat) /\ early' = FALSE
        /\ \A i \in 1..Len(answered') : answered'[i] = i
        /\ ~stopped => Len(answered') = asked
    BY <1>1, SendTop, Zenon DEF complete_wait
  <1>3. /\ Tail(posts) \in Seq(Post) /\ Len(posts) \in Nat
        /\ Len(Tail(posts)) = Len(posts) - 1
    BY <1>1, TailPost, Zenon
  <1>4. \A i \in 1..(Len(posts) - 1) : Tail(posts)[i] = posts[i + 1]
    BY <1>1, TailPost, Zenon
  <1>5. cancel \in Post /\ cancel.op = "timeout" /\ cancel.for = timer
    BY Zenon DEF WaitTypes, Post
  <1>6. timer' = 0 /\ \/ posts' = Tail(posts)
                      \/ timer # 0 /\ posts' = Append(Tail(posts), cancel)
    BY Zenon DEF complete_wait, WaitTypes
  <1> HIDE DEF cancel
  <1>7. posts' \in Seq(Post)
    BY <1>3, <1>5, <1>6, AppendPost, Zenon
  <1>8. WaitTypes'
    BY <1>2, <1>6, <1>7, Zenon DEF node, WaitTypes
  <1>9. WaiterInv'
    BY <1>2, Zenon DEF WaiterInv, Outstanding
  <1>10. TimerInv'
    <2>1. \A n \in Nat : n # 0 /\ n <= asked => TimerOf(n)'
      BY Zenon DEF TimerOf
    <2>2. \A i \in 1..Len(Tail(posts)) : i + 1 \in 1..Len(posts) /\ Tail(posts)[i] = posts[i + 1]
      BY <1>3, <1>4
    <2>3. \A i \in 1..Len(Tail(posts)) : Tail(posts)[i].op = "timeout" =>
            Tail(posts)[i].for # 0 /\ Tail(posts)[i].for <= asked
      BY <2>2, Zenon DEF TimerInv, TimerOf
    <2>4. \A i \in 1..Len(posts') : posts'[i].op = "timeout" =>
            posts'[i].for # 0 /\ posts'[i].for <= asked
      <3>1. CASE posts' = Tail(posts)
        BY <2>3, <3>1, Zenon
      <3>2. CASE timer # 0 /\ posts' = Append(Tail(posts), cancel)
        <4>1. \A i \in 1..Len(Tail(posts)) : Append(Tail(posts), cancel)[i] = Tail(posts)[i]
          BY <1>3, <1>5, AppendPost, SMTT(30)
        <4>2. /\ Len(Append(Tail(posts), cancel)) = Len(Tail(posts)) + 1
              /\ Append(Tail(posts), cancel)[Len(Tail(posts)) + 1] = cancel
          BY <1>3, <1>5, AppendPost, SMTT(30)
        <4>3. \A i \in 1..Len(posts') :
                i = Len(Tail(posts)) + 1 \/ i \in 1..Len(Tail(posts))
          <5>1. Len(Tail(posts)) \in Nat
            BY <1>3
          <5>2. Len(posts') = Len(Tail(posts)) + 1
            BY <3>2, <4>2, Zenon
          <5> QED
            BY <5>1, <5>2, SMTT(30)
        <4>4. \A i \in 1..Len(posts') :
                posts'[i] = cancel \/ (i \in 1..Len(Tail(posts)) /\ posts'[i] = Tail(posts)[i])
          BY <3>2, <4>1, <4>2, <4>3, Zenon
        <4>5. cancel.for # 0 /\ cancel.for <= asked
          BY <1>5, <3>2, Zenon DEF TimerInv, TimerOf
        <4> QED
          BY <2>3, <4>4, <4>5, ZenonT(30)
      <3> QED
        BY <1>6, <3>1, <3>2, Zenon
    <2>5. \A i \in 1..Len(posts') : posts'[i].for \in Nat
      BY <1>7, PostNumber, Zenon
    <2> QED
      BY <1>6, <2>1, <2>4, <2>5, Zenon DEF TimerInv
  <1>11. MetInv'
    BY <1>2, Zenon DEF node, MetInv, wait_done
  <1>12. WakeInv'
    BY Zenon DEF WakeInv
  <1> QED
    BY <1>8, <1>9, <1>10, <1>11, <1>12, Zenon

\* Posted work: an event completes a wait that is met, a timeout that of its
\* own number, which has one.
LEMMA RunStep ==
  ASSUME WaitInv, do_wait_event \/ handle_wait_timeout
  PROVE  WaitInv'
  <1>1. CASE do_wait_event
    <2>1. CASE armed = 0 \/ ~wait_done(wait, blocks)
      BY <1>1, <2>1, DropStep, Zenon DEF do_wait_event, Run, history
    <2>2. CASE armed # 0 /\ wait_done(wait, blocks)
      <3>1. met
        BY <2>2, Zenon DEF WaitInv, MetInv
      <3> QED
        BY <1>1, <2>2, <3>1, CompleteWait, Zenon DEF do_wait_event, Run
    <2> QED
      BY <2>1, <2>2, Zenon
  <1>2. CASE handle_wait_timeout
    <2>1. Head(posts) = posts[1] /\ Head(posts).op = "timeout" /\ posts # <<>>
          /\ 1 \in 1..Len(posts)
      BY <1>2, TailPost DEF handle_wait_timeout, Run, WaitInv, WaitTypes
    <2>2. CASE armed # Head(posts).for
      BY <1>2, <2>1, <2>2, DropStep, Zenon DEF handle_wait_timeout, Run, history
    <2>3. CASE armed = Head(posts).for
      <3>1. armed # 0 /\ wait.timed
        BY <2>1, <2>3, Zenon DEF WaitInv, TimerInv, TimerOf
      <3> QED
        BY <1>2, <2>3, <3>1, CompleteWait, Zenon DEF handle_wait_timeout, Run
    <2> QED
      BY <2>2, <2>3, ZenonT(30)
  <1> QED
    BY <1>1, <1>2, Zenon

\* The timer expires: what it posts has its number.
LEMMA ExpireStep ==
  ASSUME WaitInv, Expire
  PROVE  WaitInv'
  <1> USE DEF WaitInv
  <1> DEFINE expiry == [op |-> "timeout", for |-> timer]
  <1>1. posts \in Seq(Post) /\ timer \in Nat /\ timer # 0
    BY Zenon DEF Expire, WaitTypes
  <1>2. expiry \in Post /\ expiry.op = "timeout" /\ expiry.for = timer
    BY <1>1, Zenon DEF Post
  <1>3. posts' = Append(posts, expiry)
    BY Zenon DEF Expire
  <1> HIDE DEF expiry
  <1>4. \A i \in 1..Len(posts) : Append(posts, expiry)[i] = posts[i]
    BY <1>1, <1>2, AppendPost, SMTT(30)
  <1>5. /\ Append(posts, expiry) \in Seq(Post)
        /\ Len(Append(posts, expiry)) = Len(posts) + 1
        /\ Append(posts, expiry)[Len(posts) + 1] = expiry
    BY <1>1, <1>2, AppendPost, SMTT(30)
  <1>6. Len(posts) \in Nat
    BY <1>1
  <1>7. WaitTypes'
    BY <1>3, <1>5, Zenon DEF Expire, node, history, WaitTypes
  <1>8. WaiterInv'
    BY Zenon DEF Expire, WaiterInv, Outstanding
  <1>9. TimerInv'
    <2>1. \A i \in 1..Len(posts') :
            posts'[i] = expiry \/ (i \in 1..Len(posts) /\ posts'[i] = posts[i])
      <3>1. \A i \in 1..(Len(posts) + 1) : i = Len(posts) + 1 \/ i \in 1..Len(posts)
        BY <1>6
      <3> QED
        BY <1>3, <1>4, <1>5, <3>1, Zenon
    <2>2. \A i \in 1..Len(posts') : posts'[i].op = "timeout" =>
            posts'[i].for # 0 /\ TimerOf(posts'[i].for)
      BY <1>1, <1>2, <2>1, Zenon DEF TimerInv
    <2>3. timer' = 0
      BY Zenon DEF Expire
    <2> QED
      BY <2>2, <2>3, Zenon DEF Expire, TimerInv, TimerOf
  <1>10. MetInv'
    BY Zenon DEF Expire, node, history, MetInv, wait_done
  <1>11. WakeInv'
    <2>1. Coming => Coming'
      <3>1. \A i \in 1..Len(posts) : i \in 1..Len(posts') /\ posts'[i] = posts[i]
        BY <1>3, <1>4, <1>5, <1>6
      <3> QED
        BY <3>1, Zenon DEF Expire, node, Coming
    <2> QED
      BY <2>1, Zenon DEF Expire, node, history, WakeInv, wait_done
  <1> QED
    BY <1>7, <1>8, <1>9, <1>10, <1>11, Zenon

\* The subscription takes effect, the channel stops, and then the protocol,
\* which drops the waiter.
LEMMA StopWaits ==
  ASSUME WaitInv, ChaseSubscribed \/ StopWait \/ stopping \/ UNCHANGED waitVars
  PROVE  WaitInv'
  <1> USE DEF WaitInv
  <1>1. WaitTypes'
    <2>1. CASE ChaseSubscribed
      BY <2>1, Zenon DEF ChaseSubscribed, node, history, WaitTypes
    <2>2. CASE StopWait
      BY <2>2, Zenon DEF StopWait, node, history, WaitTypes
    <2>3. CASE stopping
      BY <2>3, Zenon DEF stopping, node, history, WaitTypes
    <2>4. CASE UNCHANGED waitVars
      BY <2>4, Zenon DEF waitVars, node, history, WaitTypes
    <2> QED
      BY <2>1, <2>2, <2>3, <2>4, Zenon
  <1>2. WaiterInv'
    BY Zenon DEF ChaseSubscribed, StopWait, stopping, waitVars, WaiterInv,
       Outstanding, WaitTypes
  <1>3. TimerInv'
    <2>1. CASE ChaseSubscribed \/ StopWait \/ UNCHANGED waitVars
      BY <2>1, Zenon DEF ChaseSubscribed, StopWait, waitVars, TimerInv, TimerOf
    <2>2. CASE stopping
      BY <2>2, ZenonT(30) DEF stopping, TimerInv, TimerOf
    <2> QED
      BY <2>1, <2>2, Zenon
  <1>4. MetInv'
    <2>1. UNCHANGED <<wait, blocks, met, early>>
      BY Zenon DEF ChaseSubscribed, StopWait, stopping, waitVars, node, history
    <2> QED
      BY <2>1, Zenon DEF MetInv, wait_done
  <1>5. WakeInv'
    BY Zenon DEF ChaseSubscribed, StopWait, stopping, waitVars, node,
       history, WakeInv, Coming, wait_done
  <1> QED
    BY <1>1, <1>2, <1>3, <1>4, <1>5, Zenon

\* IInv holds throughout.
LEMMA Invariance == WaitSpec => []WaitInv
  <1>1. ASSUME WaitInv, [WaitNext]_(waitVars) PROVE WaitInv'
    <2>1. CASE NodeStep
      BY <1>1, <2>1, ChangeStep, StopWaits, Zenon DEF NodeStep, Organize,
         Reorganize
    <2>2. CASE RequestStep
      <3>1. ASSUME NEW timed \in BOOLEAN, handle_wait_for_new_block(timed) PROVE WaitInv'
        BY <1>1, <3>1, RequestInv, Zenon DEF handle_wait_for_new_block
      <3>2. ASSUME NEW timed \in BOOLEAN, NEW h, handle_wait_for_block_height(h, timed)
            PROVE  WaitInv'
        BY <1>1, <3>2, RequestInv, Zenon DEF handle_wait_for_block_height
      <3>3. ASSUME NEW timed \in BOOLEAN, NEW b, handle_wait_for_block(b, timed)
            PROVE  WaitInv'
        BY <1>1, <3>3, RequestInv, Zenon DEF handle_wait_for_block
      <3>4. CASE handle_wait_at_once
        BY <1>1, <3>4, RequestInv, Zenon
      <3> QED
        BY <2>2, <3>1, <3>2, <3>3, <3>4, Zenon DEF RequestStep
    <2>3. CASE StrandStep
      BY <1>1, <2>3, ArmStep, RunStep, StopWaits, Zenon DEF StrandStep
    <2> QED
      BY <1>1, <2>1, <2>2, <2>3, ChaseStep, ExpireStep, StopWaits, Zenon DEF WaitNext
  <1> QED
    BY InitWait, <1>1, PTL DEF WaitSpec

-----------------------------------------------------------------------------
\* For any requests, changes and events, a request is answered once, in turn,
\* and one without a timeout only if met, however complete_wait and the cancel
\* it causes interleave with later requests.
THEOREM OneAnswerTheorem == WaitSpec => []OneAnswer
  <1>1. WaitInv => OneAnswer
    BY Zenon DEF WaitInv, WaiterInv, MetInv, OneAnswer
  <1> QED
    BY Invariance, <1>1, PTL

\* For any interleaving of the node with arm_wait, a stored wait that is met has
\* an event on its way.
THEOREM NoLostWakeUpTheorem == WaitSpec => []NoLostWakeUp
  <1>1. WaitInv => NoLostWakeUp
    BY Zenon DEF WaitInv, WakeInv, Coming, NoLostWakeUp
  <1> QED
    BY Invariance, <1>1, PTL
=============================================================================
