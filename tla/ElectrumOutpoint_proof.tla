------------------------ MODULE ElectrumOutpoint_proof ------------------------
(***************************************************************************)
(* An electrum channel, for any configured bounds and client versions, any *)
(* transactions, any chain and any reorganizations of it: the handshake,   *)
(* the types of the subscriptions of the protocol it attaches, and its     *)
(* header and height subscriptions.                                        *)
(***************************************************************************)
EXTENDS ElectrumOutpoint, TLAPS

-----------------------------------------------------------------------------
(* Version negotiation.                                                    *)

Floor(d, value) ==
    d \in Defined /\ d <= value /\ \A e \in Defined : e <= value => e <= d

\* Every number has a greatest defined version at or below it (0.0 at least).
LEMMA FloorExists == ASSUME NEW value \in Nat PROVE \E d : Floor(d, value)
<1>1. CASE value >= 10400
  BY <1>1 DEF Floor, Defined, v0_0, v1_4, v1_6, restricted_maximum
<1>2. CASE value < 10400
  BY <1>2 DEF Floor, Defined, v0_0, v1_4, v1_6, restricted_maximum
<1> QED  BY <1>1, <1>2

\* Versions are natural numbers.
LEMMA DefinedNat == Defined \subseteq Nat
BY DEF Defined, v0_0, v1_4, v1_6, restricted_maximum

\* version_floor returns the greatest defined version not above its argument.
LEMMA FloorType ==
    ASSUME NEW value \in Nat PROVE Floor(version_floor(value), value)
BY FloorExists, Zenon DEF Floor, version_floor

\* The effective maximum is a number, at most the configured one, and at most
\* 1.4.2 on a restricted channel.
LEMMA MaximumBound ==
    /\ Maximum \in Nat /\ Maximum <= ProtocolMaximum
    /\ restricted => Maximum <= restricted_maximum
BY VersionAssumption DEF Maximum, Smaller, restricted_maximum

\* For every request, negotiate yields the greatest defined version in the
\* overlap of the client's range and the bounds in force, or none.
LEMMA NegotiateGreatest == NegotiatesGreatest
<1> SUFFICES ASSUME NEW r \in Request
             PROVE  LET overlap == {d \in Defined \ {v0_0} :
                                       /\ r.valid /\ r.min <= d /\ d <= r.max
                                       /\ ProtocolMinimum <= d /\ d <= Maximum}
                        v == negotiate(r, ProtocolMinimum, Maximum)
                    IN  IF overlap = {} THEN v = v0_0
                        ELSE v \in overlap /\ \A d \in overlap : d <= v
  BY Zenon DEF NegotiatesGreatest
<1> DEFINE overlap == {d \in Defined \ {v0_0} :
                         /\ r.valid /\ r.min <= d /\ d <= r.max
                         /\ ProtocolMinimum <= d /\ d <= Maximum}
           v == negotiate(r, ProtocolMinimum, Maximum)
           lower == Larger(r.min, ProtocolMinimum)
           upper == Smaller(r.max, Maximum)
           f == version_floor(upper)
<1> SUFFICES IF overlap = {} THEN v = v0_0
             ELSE v \in overlap /\ \A d \in overlap : d <= v
  BY Zenon
<1>1. r.min \in Nat /\ r.max \in Nat  BY VersionAssumption, Zenon DEF Request
<1>2. /\ lower \in Nat /\ upper \in Nat
      /\ \A d \in Nat : r.min <= d /\ ProtocolMinimum <= d <=> lower <= d
      /\ \A d \in Nat : d <= r.max /\ d <= Maximum <=> d <= upper
  BY <1>1, VersionAssumption, MaximumBound DEF Larger, Smaller
<1>3. f \in Defined /\ f <= upper /\ \A e \in Defined : e <= upper => e <= f
  BY <1>2, FloorType, Zenon DEF Floor
<1>4. v = IF ~r.valid \/ f < lower THEN v0_0 ELSE f  BY Zenon DEF negotiate
<1>5. \A d : d \in overlap <=>
          d \in Defined /\ d # v0_0 /\ r.valid /\ lower <= d /\ d <= upper
  BY <1>2, DefinedNat, Zenon
<1>6. f \in Nat /\ v0_0 = 0  BY <1>3, DefinedNat, Zenon DEF v0_0
<1> HIDE DEF overlap, v, lower, upper, f
<1>7. CASE ~r.valid
  <2>1. overlap = {}  BY <1>5, <1>7, Zenon
  <2> QED  BY <1>4, <1>7, <2>1, Zenon
<1>8. CASE r.valid /\ f < lower
  <2>1. overlap = {}
    <3> SUFFICES ASSUME NEW d \in overlap PROVE FALSE  BY Zenon
    <3>1. d <= f /\ lower <= d /\ d \in Nat  BY <1>3, <1>5, DefinedNat, Zenon
    <3> QED  BY <1>2, <1>6, <1>8, <3>1
  <2> QED  BY <1>4, <1>8, <2>1, Zenon
<1>9. CASE r.valid /\ ~(f < lower) /\ f = v0_0
  <2>1. overlap = {}
    <3> SUFFICES ASSUME NEW d \in overlap PROVE FALSE  BY Zenon
    <3>1. d <= f /\ d # v0_0 /\ d \in Nat  BY <1>3, <1>5, DefinedNat, Zenon
    <3> QED  BY <1>6, <1>9, <3>1
  <2> QED  BY <1>4, <1>9, <2>1, Zenon
<1>10. CASE r.valid /\ ~(f < lower) /\ f # v0_0
  <2>1. v = f  BY <1>4, <1>10, Zenon
  <2>2. f \in overlap  BY <1>2, <1>3, <1>5, <1>6, <1>10
  <2>3. \A d \in overlap : d <= f  BY <1>3, <1>5, Zenon
  <2> QED  BY <2>1, <2>2, <2>3, Zenon
<1> QED  BY <1>7, <1>8, <1>9, <1>10, Zenon

\* Throughout the life of a channel every request would be negotiated to the
\* greatest defined version in the overlap (electrum_version.cpp negotiate).
THEOREM NegotiatesGreatestTheorem ==
    (Spec => []NegotiatesGreatest) /\ (SpecAll => []NegotiatesGreatest)
BY NegotiateGreatest, PTL

-----------------------------------------------------------------------------
\* A version negotiated during the handshake leaves the channel paused until
\* the handler is reset, so the opener default cannot replace it.
NegotiationInv ==
    /\ handler = "held" => calls = <<>>
    /\ negotiated /\ handler = "held" => paused
    /\ NegotiatedWithinBounds

\* Initially nothing is negotiated.
LEMMA InitNegotiation == Init => NegotiationInv
BY Zenon DEF Init, NegotiationInv, NegotiatedWithinBounds

\* What an accepted negotiation yields.
LEMMA AgreedBounds ==
    ASSUME NEW r \in Request, negotiate(r, ProtocolMinimum, Maximum) # v0_0
    PROVE  LET v == negotiate(r, ProtocolMinimum, Maximum) IN
           /\ v \in Defined \ {v0_0}
           /\ ProtocolMinimum <= v /\ v <= ProtocolMaximum
           /\ restricted => v < v1_6
<1> DEFINE v == negotiate(r, ProtocolMinimum, Maximum)
<1>1. v \in Defined \ {v0_0} /\ ProtocolMinimum <= v /\ v <= Maximum
  BY NegotiateGreatest, Zenon DEF NegotiatesGreatest
<1>2. v \in Nat  BY <1>1, DefinedNat, Zenon
<1> HIDE DEF v
<1>3. v <= ProtocolMaximum /\ (restricted => v < v1_6)
  BY <1>1, <1>2, MaximumBound, VersionAssumption DEF restricted_maximum, v1_6
<1> QED  BY <1>1, <1>3, Zenon DEF v

\* Each step preserves the invariant, and a negotiated version.
LEMMA NextNegotiation ==
    ASSUME NegotiationInv, [Next]_vars
    PROVE  NegotiationInv' /\ (negotiated => negotiated' /\ version' = version)
<1> USE DEF NegotiationInv
<1>1. CASE UNCHANGED vars
  BY <1>1, Zenon DEF vars, channel, NegotiatedWithinBounds
<1>2. ASSUME NEW r \in Request, handle_server_version(r)
      PROVE  NegotiationInv' /\ (negotiated => negotiated' /\ version' = version)
  <2> DEFINE v == negotiate(r, ProtocolMinimum, Maximum)
  <2>1. handler' = handler /\ calls' = calls /\ (handler = "held" => paused')
    BY <1>2, Zenon DEF handle_server_version, pause
  <2>2. CASE UNCHANGED channel
    BY <2>1, <2>2, Zenon DEF channel, NegotiatedWithinBounds
  <2>3. CASE Agreed(v) /\ version' = v /\ negotiated' = TRUE /\ restricted' = restricted
    <3>1. NegotiatedWithinBounds'
      BY <2>3, AgreedBounds, Zenon DEF Agreed, NegotiatedWithinBounds
    <3>2. negotiated => version' = version  BY <2>3, Zenon DEF Agreed
    <3> QED  BY <2>1, <2>3, <3>1, <3>2, Zenon
  <2> QED  BY <1>2, <2>2, <2>3, Zenon DEF handle_server_version
<1>3. CASE handle_unclaimed
  <2>1. CASE handler = "held"
    <3>1. ~negotiated  BY <1>3, <2>1, Zenon DEF handle_unclaimed, Receive
    <3>2. handler' = "reset" /\ negotiated' = negotiated
      BY <1>3, <2>1, Zenon DEF handle_unclaimed, finished
    <3> QED  BY <3>1, <3>2, Zenon DEF NegotiatedWithinBounds
  <2>2. CASE handler # "held"
    BY <1>3, <2>2 DEF handle_unclaimed, channel, NegotiatedWithinBounds
  <2> QED  BY <2>1, <2>2, Zenon
<1>4. CASE SendComplete
  BY <1>4, Zenon DEF SendComplete, finished, channel, NegotiatedWithinBounds
<1>5. CASE HandshakeComplete
  BY <1>5, Zenon DEF HandshakeComplete, channel, NegotiatedWithinBounds
<1>6. CASE Stop
  BY <1>6, Zenon DEF Stop, channel, NegotiatedWithinBounds
<1> QED  BY <1>1, <1>2, <1>3, <1>4, <1>5, <1>6, Zenon DEF Next

\* Stuttering of the handshake but for the count of requests.
Apart == UNCHANGED <<handler, calls, paused, attached, channel, sending, stopped>>

\* A step of the composed channel is one of the handshake, or leaves it alone.
LEMMA HandshakePart == [NextAll]_all => [Next]_vars \/ Apart
<1> SUFFICES ASSUME [NextAll]_all PROVE [Next]_vars \/ Apart  BY Zenon
<1> USE DEF Apart
<1>1. CASE UNCHANGED all
  BY <1>1, Zenon DEF all
<1>2. CASE Handshake \/ HandshakeStep \/ StopChannel
  BY <1>2, Zenon DEF Handshake, HandshakeStep, StopChannel, Next
<1>3. CASE Node
  BY <1>3, Zenon DEF Node, Disconnect, AcceptTx, Organize
<1>4. CASE handle_chase \/ Upgrade
  BY <1>4, Zenon DEF handle_chase, Upgrade
<1>5. CASE Requests
  BY <1>5, Zenon DEF Requests, AskUnchanged, handle_blockchain_outpoint_subscribe,
     handle_blockchain_outpoint_unsubscribe, handle_blockchain_headers_subscribe,
     handle_blockchain_number_of_blocks_subscribe
<1>6. CASE ChannelStep
  BY <1>6, Zenon DEF ChannelStep, store_header, send_height, do_height, do_header,
     complete_outpoint_subscribe, complete_outpoint_unsubscribe, outpoint_notify
<1>7. CASE NotificationStep
  BY <1>7, Zenon DEF NotificationStep, refuse_outpoint_subscribe, do_outpoint_subscribe,
     emplace_outpoint, store_outpoint, do_outpoint_unsubscribe, do_outpoint,
     read_funder, notify_outpoint
<1> QED  BY <1>1, <1>2, <1>3, <1>4, <1>5, <1>6, <1>7, Zenon DEF NextAll

\* So the negotiation is preserved by the composed channel.
LEMMA NextAllNegotiation ==
    ASSUME NegotiationInv, [NextAll]_all
    PROVE  NegotiationInv' /\ (negotiated => negotiated' /\ version' = version)
<1>1. CASE [Next]_vars  BY <1>1, NextNegotiation, Zenon
<1>2. CASE Apart
  BY <1>2, Zenon DEF Apart, channel, NegotiationInv, NegotiatedWithinBounds
<1> QED  BY <1>1, <1>2, HandshakePart, Zenon

\* For any bounds and any requests, a negotiated version is defined, within the
\* configured bounds, and below 1.6 on a restricted channel (set_version); in
\* the handshake alone and with the protocol it attaches.
THEOREM NegotiatedWithinBoundsTheorem ==
    (Spec => []NegotiatedWithinBounds) /\ (SpecAll => []NegotiatedWithinBounds)
<1>1. NegotiationInv /\ [Next]_vars => NegotiationInv'  BY NextNegotiation, Zenon
<1>2. NegotiationInv /\ [NextAll]_all => NegotiationInv'  BY NextAllNegotiation, Zenon
<1>3. NegotiationInv => NegotiatedWithinBounds  BY Zenon DEF NegotiationInv
<1>4. InitAll => NegotiationInv  BY InitNegotiation, Zenon DEF InitAll
<1> QED  BY InitNegotiation, <1>1, <1>2, <1>3, <1>4, PTL DEF Spec, SpecAll

\* A negotiated version never changes (handle_server_version, handle_unclaimed).
THEOREM VersionFixedTheorem == (Spec => VersionFixed) /\ (SpecAll => VersionFixed)
<1>1. NegotiationInv /\ [Next]_vars => NegotiationInv'  BY NextNegotiation, Zenon
<1>2. NegotiationInv /\ [NextAll]_all => NegotiationInv'  BY NextAllNegotiation, Zenon
<1>3. NegotiationInv /\ [Next]_vars
      => [negotiated => negotiated' /\ version' = version]_vars
  BY NextNegotiation, Zenon
<1>4. NegotiationInv /\ [NextAll]_all
      => [negotiated => negotiated' /\ version' = version]_vars
  BY NextAllNegotiation, Zenon
<1>5. InitAll => NegotiationInv  BY InitNegotiation, Zenon DEF InitAll
<1> QED
  BY InitNegotiation, <1>1, <1>2, <1>3, <1>4, <1>5, PTL DEF Spec, SpecAll, VersionFixed

-----------------------------------------------------------------------------
(* The session's handler.                                                  *)

\* HandlerOnce is inductive once it is known what the calls look like.
HandlerInv == HandlerOnce /\ (calls = <<>> \/ \E c : calls = <<c>>)

\* Initially the handler is held and not called.
LEMMA InitHandler == Init => HandlerInv
BY DEF Init, HandlerInv, HandlerOnce

\* The handler is reset by the call of it.
LEMMA FinishedOnce ==
    ASSUME HandlerInv, NEW code, finished(code)
    PROVE  /\ handler' = "reset"
           /\ handler = "held" => calls' = <<code>>
           /\ handler # "held" => calls' = calls /\ calls # <<>>
<1>1. CASE handler = "held"
  <2>1. calls = <<>>  BY <1>1, Zenon DEF HandlerInv, HandlerOnce
  <2>2. calls' = Append(<<>>, code)  BY <1>1, <2>1, Zenon DEF finished
  <2>3. Append(<<>>, code) = <<code>>  OBVIOUS
  <2> QED  BY <1>1, <2>2, <2>3, Zenon DEF finished
<1>2. CASE handler # "held"
  BY <1>2, Zenon DEF HandlerInv, HandlerOnce, finished
<1> QED  BY <1>1, <1>2, Zenon

\* Each step of the handshake preserves it.
LEMMA NextHandler == ASSUME HandlerInv, [Next]_vars PROVE HandlerInv'
<1>1. ASSUME UNCHANGED <<handler, calls, paused, attached, sending>>, stopped' \/ ~stopped
      PROVE  HandlerInv'
  BY <1>1, Zenon DEF HandlerInv, HandlerOnce
<1>2. CASE UNCHANGED vars
  BY <1>1, <1>2, Zenon DEF vars
<1>3. ASSUME NEW r \in Request, handle_server_version(r) PROVE HandlerInv'
  BY <1>3, Zenon DEF handle_server_version, Receive, pause, HandlerInv, HandlerOnce
<1>4. CASE handle_unclaimed
  <2>1. CASE handler = "held"
    <3>1. handler' = "reset" /\ calls' = <<"success">> /\ paused' = TRUE
      BY <1>4, <2>1, FinishedOnce, Zenon DEF handle_unclaimed, pause
    <3> QED  BY <3>1 DEF HandlerInv, HandlerOnce
  <2>2. CASE handler # "held"
    BY <1>4, <2>2, Zenon DEF handle_unclaimed, Receive, pause, HandlerInv, HandlerOnce
  <2> QED  BY <2>1, <2>2, Zenon
<1>5. CASE SendComplete
  <2>1. PICK code \in sending : finished(code)
    BY <1>5, Zenon DEF SendComplete
  <2>2. sending # {} /\ sending' = {} /\ ~stopped /\ UNCHANGED <<paused, attached, stopped>>
    BY <1>5, Zenon DEF SendComplete
  <2>3. CASE handler = "held"
    <3>1. handler' = "reset" /\ calls' = <<code>> /\ calls = <<>>
      BY <2>1, <2>3, FinishedOnce, Zenon DEF HandlerInv, HandlerOnce
    <3>2. ~attached /\ paused
      BY <2>2, <3>1, Zenon DEF HandlerInv, HandlerOnce
    <3> QED  BY <2>2, <3>1, <3>2 DEF HandlerInv, HandlerOnce
  <2>4. CASE handler # "held"
    <3>1. handler' = "reset" /\ calls' = calls /\ calls # <<>>
      BY <2>1, <2>4, FinishedOnce, Zenon
    <3> QED  BY <2>2, <3>1, Zenon DEF HandlerInv, HandlerOnce
  <2> QED  BY <2>3, <2>4, Zenon
<1>6. CASE HandshakeComplete
  BY <1>6 DEF HandshakeComplete, HandlerInv, HandlerOnce
<1>7. CASE Stop
  BY <1>1, <1>7, Zenon DEF Stop
<1> QED  BY <1>2, <1>3, <1>4, <1>5, <1>6, <1>7, Zenon DEF Next

\* The session's handler is called exactly once, and the channel is paused from
\* the request that decides the handshake until the session acts on it
\* (session_handshake.hpp), for any bounds, versions and number of requests.
THEOREM HandlerOnceTheorem == (Spec => []HandlerOnce) /\ (SpecAll => []HandlerOnce)
<1>1. HandlerInv /\ [Next]_vars => HandlerInv'  BY NextHandler, Zenon
<1>2. HandlerInv /\ [NextAll]_all => HandlerInv'
  <2> SUFFICES ASSUME HandlerInv, [NextAll]_all PROVE HandlerInv'  BY Zenon
  <2>1. CASE [Next]_vars  BY <2>1, NextHandler, Zenon
  <2>2. CASE Apart  BY <2>2, Zenon DEF Apart, HandlerInv, HandlerOnce
  <2> QED  BY <2>1, <2>2, HandshakePart, Zenon
<1>3. HandlerInv => HandlerOnce  BY Zenon DEF HandlerInv
<1>4. InitAll => HandlerInv  BY InitHandler, Zenon DEF InitAll
<1> QED  BY InitHandler, <1>1, <1>2, <1>3, <1>4, PTL DEF Spec, SpecAll

-----------------------------------------------------------------------------
(* Queues.                                                                 *)

None(s, op) == \A i \in 1..Len(s) : s[i].op # op
LastOf(s, op, i) ==
    i \in 1..Len(s) /\ s[i].op = op /\ \A j \in (i + 1)..Len(s) : s[j].op # op

\* x is the last entry of its kind.
Latest(s, op, x) == \E i : LastOf(s, op, i) /\ s[i] = x

\* t is s with e appended.
Gains(s, t, e) == t = Append(s, e)

\* Appending, and concatenating nothing or one entry (handle_chase).
LEMMA AppendFacts ==
    ASSUME NEW S, NEW s \in Seq(S), NEW e \in S
    PROVE  /\ Append(s, e) \in Seq(S) /\ Len(Append(s, e)) = Len(s) + 1 /\ Len(s) \in Nat
           /\ \A i \in 1..Len(s) : Append(s, e)[i] = s[i]
           /\ Append(s, e)[Len(s) + 1] = e
           /\ s \o <<e>> = Append(s, e) /\ s \o <<>> = s
OBVIOUS

\* Taking the first entry.
LEMMA TailFacts ==
    ASSUME NEW S, NEW s \in Seq(S), s # <<>>
    PROVE  /\ Tail(s) \in Seq(S) /\ Head(s) \in S /\ Head(s) = s[1]
           /\ Len(s) \in Nat /\ Len(s) >= 1 /\ Len(Tail(s)) = Len(s) - 1
           /\ \A i \in 1..(Len(s) - 1) : Tail(s)[i] = s[i + 1]
OBVIOUS

\* A queue gains an entry of this kind.
LEMMA GrowsLast ==
    ASSUME NEW S, NEW s \in Seq(S), NEW e \in S, NEW t, Gains(s, t, e)
    PROVE  ~None(t, e.op) /\ \A x : Latest(t, e.op, x) => x = e
<1>1. Len(t) = Len(s) + 1 /\ Len(s) \in Nat /\ t[Len(s) + 1] = e
  BY AppendFacts DEF Gains
<1>2. ~None(t, e.op)  BY <1>1 DEF None
<1>3. \A i : LastOf(t, e.op, i) => t[i] = e  BY <1>1 DEF LastOf
<1> QED  BY <1>2, <1>3, Zenon DEF Latest

\* A queue gains an entry of another kind.
LEMMA GainsOther ==
    ASSUME NEW S, NEW s \in Seq(S), NEW e \in S, NEW t, Gains(s, t, e), NEW op, e.op # op
    PROVE  /\ None(t, op) <=> None(s, op)
           /\ \A x : Latest(t, op, x) => Latest(s, op, x)
<1> DEFINE n == Len(s)
<1>1. /\ Len(t) = n + 1 /\ n \in Nat /\ t[n + 1] = e
      /\ \A i \in 1..n : t[i] = s[i]
  BY AppendFacts DEF Gains
<1>2. None(t, op) <=> None(s, op)
  <2>1. \A i \in 1..(n + 1) : i \in 1..n \/ i = n + 1  BY <1>1
  <2>2. \A i \in 1..n : i \in 1..(n + 1)  BY <1>1
  <2> QED  BY <1>1, <2>1, <2>2, Zenon DEF None
<1>3. ASSUME NEW i, LastOf(t, op, i) PROVE LastOf(s, op, i) /\ t[i] = s[i]
  <2>1. i \in 1..n  BY <1>1, <1>3 DEF LastOf
  <2>2. \A j \in (i + 1)..n : s[j].op # op
    <3> SUFFICES ASSUME NEW j \in (i + 1)..n PROVE s[j].op # op  BY Zenon
    <3>1. j \in (i + 1)..Len(t) /\ j \in 1..n  BY <1>1, <2>1
    <3> QED  BY <1>1, <1>3, <3>1, Zenon DEF LastOf
  <2> QED  BY <1>1, <1>3, <2>1, <2>2, Zenon DEF LastOf
<1> QED  BY <1>2, <1>3, Zenon DEF Latest

\* t is s without its first entry.
Drops(s, t) == s # <<>> /\ t = Tail(s)

\* The last entry of a kind after the first entry is taken.
LEMMA DropsLast ==
    ASSUME NEW S, NEW s \in Seq(S), NEW t, Drops(s, t), NEW op
    PROVE  /\ None(s, op) => None(t, op) /\ Head(s).op # op
           /\ Head(s).op # op /\ None(t, op) => None(s, op)
           /\ Head(s).op = op /\ None(t, op) => Latest(s, op, Head(s))
           /\ \A x : Latest(t, op, x) => Latest(s, op, x)
<1> DEFINE n == Len(s)
<1>1. /\ Head(s) = s[1] /\ n \in Nat /\ n >= 1 /\ Len(t) = n - 1
      /\ \A i \in 1..(n - 1) : t[i] = s[i + 1]
  BY TailFacts, Zenon DEF Drops
<1>2. \A i \in 1..n : i = 1 \/ (i - 1 \in 1..(n - 1) /\ s[i] = t[i - 1])
  <2> SUFFICES ASSUME NEW i \in 1..n, i # 1 PROVE i - 1 \in 1..(n - 1) /\ s[i] = t[i - 1]
    BY Zenon
  <2>1. i - 1 \in 1..(n - 1) /\ (i - 1) + 1 = i  BY <1>1
  <2> QED  BY <1>1, <2>1, Zenon
<1>3. None(s, op) => None(t, op) /\ Head(s).op # op
  <2> SUFFICES ASSUME None(s, op) PROVE None(t, op) /\ s[1].op # op  BY <1>1, Zenon
  <2>1. \A i \in 1..(n - 1) : i + 1 \in 1..n  BY <1>1
  <2>2. 1 \in 1..n  BY <1>1
  <2> QED  BY <1>1, <2>1, <2>2, Zenon DEF None
<1>4. Head(s).op # op /\ None(t, op) => None(s, op)
  BY <1>1, <1>2, Zenon DEF None
<1>5. Head(s).op = op /\ None(t, op) => LastOf(s, op, 1)
  <2> SUFFICES ASSUME s[1].op = op, None(t, op) PROVE LastOf(s, op, 1)  BY <1>1, Zenon
  <2>1. \A j \in 2..n : s[j].op # op
    <3> SUFFICES ASSUME NEW j \in 2..n PROVE s[j].op # op  BY Zenon
    <3>1. j \in 1..n /\ j # 1  BY <1>1
    <3> QED  BY <1>1, <1>2, <3>1, ZenonT(30) DEF None
  <2> QED  BY <1>1, <2>1 DEF LastOf
<1>6. ASSUME NEW i, LastOf(t, op, i) PROVE LastOf(s, op, i + 1) /\ t[i] = s[i + 1]
  <2>1. i \in 1..(n - 1) /\ i \in Nat /\ i + 1 \in 1..n  BY <1>1, <1>6 DEF LastOf
  <2>2. t[i] = s[i + 1]  BY <1>1, <2>1, Zenon
  <2>3. \A j \in ((i + 1) + 1)..n : s[j].op # op
    <3> SUFFICES ASSUME NEW j \in ((i + 1) + 1)..n PROVE s[j].op # op  BY Zenon
    <3>1. j \in 1..n /\ j # 1 /\ j - 1 \in (i + 1)..(n - 1)  BY <1>1, <2>1
    <3> QED  BY <1>1, <1>2, <1>6, <3>1, Zenon DEF LastOf
  <2> QED  BY <1>1, <1>6, <2>1, <2>2, <2>3, Zenon DEF LastOf
<1> QED  BY <1>1, <1>3, <1>4, <1>5, <1>6, Zenon DEF Latest

-----------------------------------------------------------------------------
(* Types.                                                                  *)

Link == [height : Nat, hash : Nat]
Block == [txs : SUBSET Tx, hash : Nat]
Event == [op : {"transaction", "reorganized"}] \union [op : {"organized"}, link : Link]
FunderRead == [valid : BOOLEAN, height : Nat]
Spender == [tx : Tx, height : Nat]
Entry == [valid : BOOLEAN, height : Nat, spenders : SUBSET Spender]

\* Posts to the channel strand, and posts to the notification strand.
Message ==
    [op : {"height", "header"}, link : Link]
      \union [op : {"subscribed"}, ok : {FALSE}]
      \union [op : {"subscribed"}, ok : {TRUE}, point : Outpoint, sub : Entry]
      \union [op : {"unsubscribed"}, point : Outpoint]
      \union [op : {"notify"}, point : Outpoint, height : Nat, spenders : SUBSET Spender]
Task == [op : {"subscribe", "unsubscribe"}, point : Outpoint] \union [op : {"outpoint"}]

\* What the notification strand is at.
Scanning ==
    [op : {"outpoint"}, point : Outpoint, todo : SUBSET Outpoint]
      \union [op : {"spenders"}, point : Outpoint, todo : SUBSET Outpoint, funder : FunderRead]
Running ==
    {NoJob} \union Scanning
      \union [op : {"subscribe"}, point : Outpoint, funder : FunderRead]
      \union [op : {"store"}, point : Outpoint, sub : Entry]

NodeType ==
    chain \in Seq(Block) /\ serial \in Nat /\ owed \in Nat /\ events \in Seq(Event) /\ pool \subseteq Tx
ChannelType ==
    /\ top \in {NoRead, [op |-> "height"]} \union [op : {"header"}, link : Link]
    /\ view = [o \in Outpoint |-> view[o]]
StrandType ==
    /\ posts \in Seq(Message) /\ jobs \in Seq(Task)
    /\ job \in Running /\ held \subseteq Outpoint /\ sub \in [Outpoint -> Entry]
TypeInv == NodeType /\ ChannelType /\ StrandType

\* The steps of the channel, without those of the handshake.
LEMMA StepCases ==
    ASSUME [NextAll]_all
    PROVE  \/ UNCHANGED <<node, protocol>>
           \/ Disconnect \/ (\E t \in Tx : AcceptTx(t)) \/ (\E txs \in SUBSET Tx : Organize(txs))
           \/ handle_chase \/ Upgrade
           \/ (\E o \in Outpoint : handle_blockchain_outpoint_subscribe(o))
           \/ (\E o \in Outpoint : handle_blockchain_outpoint_unsubscribe(o))
           \/ handle_blockchain_headers_subscribe
           \/ handle_blockchain_number_of_blocks_subscribe
           \/ store_header \/ send_height \/ do_height \/ do_header
           \/ complete_outpoint_subscribe \/ complete_outpoint_unsubscribe \/ outpoint_notify
           \/ refuse_outpoint_subscribe \/ do_outpoint_subscribe
           \/ emplace_outpoint \/ store_outpoint \/ do_outpoint_unsubscribe
           \/ do_outpoint \/ read_funder \/ notify_outpoint
BY Zenon DEF NextAll, Handshake, HandshakeStep, StopChannel, Node, Requests, ChannelStep,
       NotificationStep, all

\* What the reads of the archive return.
LEMMA ReadTypes ==
    ASSUME NodeType
    PROVE  /\ Top \in Link
           /\ \A o : FunderOf(o) \in FunderRead
           /\ \A o, f : f \in FunderRead => get_outpoint_history(o, f) \in Entry
<1>1. Len(chain) \in Nat  BY DEF NodeType
<1>2. Top \in Link
  <2>1. chain # <<>> => chain[Len(chain)] \in Block  BY <1>1 DEF NodeType
  <2> QED  BY <1>1, <2>1, Zenon DEF Top, Link, Block
<1>3. \A t : TxHeight(t) \in Nat
  <2> SUFFICES ASSUME NEW t PROVE TxHeight(t) \in Nat  BY Zenon
  <2>1. Confirms(t) \subseteq Nat  BY <1>1 DEF Confirms
  <2> QED  BY <2>1, Zenon DEF TxHeight
<1>4. \A o : FunderOf(o) \in FunderRead
  BY <1>3, Zenon DEF FunderOf, FunderRead, Archived
<1>5. \A o : SpendersOf(o) \subseteq Spender
  BY <1>3 DEF SpendersOf, Spender
<1>6. \A o, f : f \in FunderRead => get_outpoint_history(o, f) \in Entry
  BY <1>5, Zenon DEF get_outpoint_history, NotFound, Entry, FunderRead
<1> QED  BY <1>2, <1>4, <1>6, Zenon

\* What the notification strand is at, by its kind.
LEMMA RunningFields ==
    ASSUME NEW j \in Running
    PROVE  /\ j.op \in {"subscribe", "store", "outpoint", "spenders"} => j.point \in Outpoint
           /\ j.op \in {"subscribe", "spenders"} => j.funder \in FunderRead
           /\ j.op \in {"outpoint", "spenders"} => j.todo \in SUBSET Outpoint
           /\ j.op = "store" => j.sub \in Entry
<1>1. CASE j = NoJob
  BY <1>1, Zenon DEF NoJob
<1>2. CASE j \in [op : {"outpoint"}, point : Outpoint, todo : SUBSET Outpoint]
  BY <1>2, Zenon
<1>3. CASE j \in [op : {"spenders"}, point : Outpoint, todo : SUBSET Outpoint, funder : FunderRead]
  BY <1>3, Zenon
<1>4. CASE j \in [op : {"subscribe"}, point : Outpoint, funder : FunderRead]
  BY <1>4, Zenon
<1>5. CASE j \in [op : {"store"}, point : Outpoint, sub : Entry]
  BY <1>5, Zenon
<1> QED  BY <1>1, <1>2, <1>3, <1>4, <1>5, Zenon DEF Running, Scanning

\* The same of the strand itself.
LEMMA JobFields ==
    ASSUME TypeInv
    PROVE  /\ job.op \in {"subscribe", "store", "outpoint", "spenders"} => job.point \in Outpoint
           /\ job.op \in {"subscribe", "spenders"} => job.funder \in FunderRead
           /\ job.op \in {"outpoint", "spenders"} => job.todo \in SUBSET Outpoint
           /\ job.op = "store" => job.sub \in Entry
BY RunningFields, Zenon DEF TypeInv, StrandType

\* A scan takes the outpoints one by one.
LEMMA ScanType ==
    ASSUME NEW todo \in SUBSET Outpoint
    PROVE  /\ Scan(todo) \in {NoJob} \union Scanning
           /\ Scan(todo).op \in {"none", "outpoint"}
           /\ Scan(todo).op = "outpoint" =>
                 todo = Scan(todo).todo \union {Scan(todo).point}
           /\ Scan(todo).op = "none" => todo = {} /\ Scan(todo) = NoJob
<1>1. CASE todo = {}
  BY <1>1, Zenon DEF Scan, NoJob
<1>2. CASE todo # {}
  <2> DEFINE o == CHOOSE x \in todo : TRUE
  <2>1. o \in todo  BY <1>2, Zenon
  <2>2. Scan(todo) = [op |-> "outpoint", point |-> o, todo |-> todo \ {o}]
    BY <1>2, Zenon DEF Scan
  <2> HIDE DEF o
  <2> QED  BY <2>1, <2>2 DEF Scanning
<1> QED  BY <1>1, <1>2, Zenon

\* The types hold at the start.
LEMMA InitTypes == InitAll => TypeInv
<1> SUFFICES ASSUME InitAll PROVE TypeInv  BY Zenon
<1> USE DEF InitAll, Idle
<1>1. NodeType  BY DEF NodeType
<1>2. ChannelType  BY Zenon DEF ChannelType
<1>3. StrandType  BY DEF StrandType, Running, Entry, NotFound
<1> QED  BY <1>1, <1>2, <1>3, Zenon DEF TypeInv

\* The node's steps keep the types.
LEMMA NodeTypes ==
    ASSUME TypeInv,
           Disconnect \/ (\E t \in Tx : AcceptTx(t)) \/ (\E txs \in SUBSET Tx : Organize(txs))
    PROVE  TypeInv'
<1> USE DEF TypeInv
<1>1. ChannelType' /\ StrandType'
  BY Zenon DEF ChannelType, StrandType, Disconnect, AcceptTx, Organize, protocol, client,
     flags, strand
<1>2. ASSUME Disconnect PROVE NodeType'
  <2>1. Len(chain) \in Nat /\ Len(chain) >= 1  BY <1>2 DEF Disconnect, NodeType
  <2>2. chain[Len(chain)] \in Block  BY <2>1 DEF NodeType
  <2>3. SubSeq(chain, 1, Len(chain) - 1) \in Seq(Block)  BY <2>1 DEF NodeType
  <2>4. [op |-> "reorganized"] \in Event  BY Zenon DEF Event
  <2> QED  BY <1>2, <2>2, <2>3, <2>4, SMTT(30) DEF Disconnect, Raise, NodeType, Block
<1>3. ASSUME NEW t \in Tx, AcceptTx(t) PROVE NodeType'
  <2>1. [op |-> "transaction"] \in Event  BY ZenonT(30) DEF Event
  <2> QED  BY <1>3, <2>1 DEF AcceptTx, Raise, NodeType
<1>4. ASSUME NEW txs \in SUBSET Tx, Organize(txs) PROVE NodeType'
  <2>1. Len(chain) + 1 \in Nat /\ serial + 1 \in Nat  BY DEF NodeType
  <2>2. [op |-> "organized", link |-> [height |-> Len(chain) + 1, hash |-> serial + 1]] \in Event
    BY <2>1, Zenon DEF Event, Link
  <2>3. [txs |-> txs, hash |-> serial + 1] \in Block  BY <2>1, ZenonT(30) DEF Block
  <2>4. owed' \in Nat  BY <1>4 DEF Organize, NodeType
  <2> QED  BY <1>4, <2>1, <2>2, <2>3, <2>4, SMTT(30) DEF Organize, Raise, NodeType
<1> QED  BY <1>1, <1>2, <1>3, <1>4, Zenon

\* What handle_chase appends, by the event it handles.
LEMMA ChaseCases ==
    ASSUME TypeInv, handle_chase
    PROVE  /\ Head(events) \in Event /\ events' = Tail(events)
           /\ \/ Head(events).op # "organized" /\ posts' = posts
              \/ /\ Head(events).op = "organized" /\ Head(events).link \in Link
                 /\ \E mid \in Seq(Message) :
                      /\ mid = IF duplex /\ height_on
                               THEN Append(posts, [op |-> "height", link |-> Head(events).link]) ELSE posts
                      /\ posts' = IF duplex /\ header_on
                                  THEN Append(mid, [op |-> "header", link |-> Head(events).link]) ELSE mid
           /\ jobs' = IF duplex /\ Head(events).op \in {"transaction", "organized"} /\ outpoint_on
                      THEN Append(jobs, [op |-> "outpoint"]) ELSE jobs
           /\ posts' \in Seq(Message) /\ jobs' \in Seq(Task)
<1>1. posts \in Seq(Message) /\ jobs \in Seq(Task) /\ events \in Seq(Event)
  BY Zenon DEF TypeInv, StrandType, NodeType
<1> DEFINE e == Head(events)
<1>2. e \in Event /\ events' = Tail(events)  BY <1>1, TailFacts, Zenon DEF handle_chase
<1>3. jobs' = IF duplex /\ e.op \in {"transaction", "organized"} /\ outpoint_on
              THEN Append(jobs, [op |-> "outpoint"]) ELSE jobs
  <2>1. [op |-> "outpoint"] \in Task  BY Zenon DEF Task
  <2>2. jobs \o <<[op |-> "outpoint"]>> = Append(jobs, [op |-> "outpoint"]) /\ jobs \o <<>> = jobs
    BY <1>1, <2>1, AppendFacts
  <2> QED  BY <2>2, Zenon DEF handle_chase, Post
<1>4. jobs' \in Seq(Task)
  <2>1. [op |-> "outpoint"] \in Task  BY Zenon DEF Task
  <2> QED  BY <1>1, <1>3, <2>1
<1>5. posts' = posts \o Post(duplex /\ e.op = "organized" /\ height_on, [op |-> "height", link |-> e.link])
                 \o Post(duplex /\ e.op = "organized" /\ header_on, [op |-> "header", link |-> e.link])
  BY Zenon DEF handle_chase
<1>6. posts \o <<>> = posts /\ (posts \o <<>>) \o <<>> = posts  BY <1>1
<1>7. CASE e.op # "organized"
  BY <1>1, <1>2, <1>3, <1>4, <1>5, <1>6, <1>7, Zenon DEF Post
<1>8. CASE e.op = "organized"
  <2> DEFINE a == [op |-> "height", link |-> e.link]
             b == [op |-> "header", link |-> e.link]
             mid == IF duplex /\ height_on THEN Append(posts, a) ELSE posts
  <2>1. e.link \in Link  BY <1>2, <1>8, Zenon DEF Event
  <2>2. a \in Message /\ b \in Message  BY <2>1, Zenon DEF Message
  <2> HIDE DEF a, b
  <2>3. posts \o Post(duplex /\ e.op = "organized" /\ height_on, a) = mid /\ mid \in Seq(Message)
    BY <1>1, <1>8, <2>2, AppendFacts, SMTT(30) DEF Post
  <2> HIDE DEF mid
  <2>4. mid \o Post(duplex /\ e.op = "organized" /\ header_on, b) = IF duplex /\ header_on THEN Append(mid, b) ELSE mid
    BY <1>8, <2>2, <2>3, AppendFacts, SMTT(30) DEF Post
  <2>5. posts' = IF duplex /\ header_on THEN Append(mid, b) ELSE mid
    BY <1>5, <2>3, <2>4, Zenon DEF a, b
  <2>6. posts' \in Seq(Message)  BY <2>2, <2>3, <2>5
  <2> QED  BY <1>2, <1>3, <1>4, <1>8, <2>1, <2>3, <2>5, <2>6, Zenon DEF a, b, mid
<1> QED  BY <1>7, <1>8, Zenon

\* What a scan posts.
LEMMA NotifyPost ==
    ASSUME TypeInv, notify_outpoint
    PROVE  posts' = posts \/ \E p \in Message : p.op = "notify" /\ p.point = job.point /\ posts' = Append(posts, p)
<1> DEFINE o == job.point
           out == get_outpoint_history(o, job.funder)
           note == [op |-> "notify", point |-> o, height |-> out.height,
                    spenders |-> Changed(sub[o], out)]
<1>1. o \in Outpoint /\ job.funder \in FunderRead
  BY JobFields, Zenon DEF notify_outpoint
<1>2. out \in Entry  BY <1>1, ReadTypes, Zenon DEF TypeInv
<1>3. Changed(sub[o], out) \in SUBSET Spender  BY <1>2, Zenon DEF Changed, Entry
<1>4. note \in Message /\ note.op = "notify" /\ note.point = o
  BY <1>1, <1>2, <1>3, Zenon DEF Message, Entry
<1>5. posts' = posts \/ posts' = Append(posts, note)  BY Zenon DEF notify_outpoint
<1> HIDE DEF note
<1> QED  BY <1>4, <1>5, Zenon

\* What the notification strand posts.
LEMMA AnswerPosts ==
    ASSUME TypeInv,
           \/ refuse_outpoint_subscribe \/ store_outpoint \/ do_outpoint_unsubscribe
           \/ notify_outpoint
    PROVE  \/ posts' = posts
           \/ \E p \in Message : /\ p.op \notin {"height", "header"} /\ posts' = Append(posts, p)
                                 /\ p.op = "notify" => job.op = "spenders"
<1> USE DEF TypeInv
<1>1. CASE refuse_outpoint_subscribe
  <2>1. [op |-> "subscribed", ok |-> FALSE] \in Message  BY Zenon DEF Message
  <2> QED  BY <1>1, <2>1, Zenon DEF refuse_outpoint_subscribe
<1>2. CASE store_outpoint
  <2>1. job.point \in Outpoint /\ job.sub \in Entry
    BY <1>2, JobFields, Zenon DEF store_outpoint
  <2>2. [op |-> "subscribed", ok |-> TRUE, point |-> job.point, sub |-> job.sub] \in Message
    BY <2>1, Zenon DEF Message
  <2> QED  BY <1>2, <2>2, Zenon DEF store_outpoint
<1>3. CASE do_outpoint_unsubscribe
  <2>1. Head(jobs) \in Task
    BY <1>3, TailFacts, Zenon DEF do_outpoint_unsubscribe, Job, StrandType
  <2>2. Head(jobs).point \in Outpoint
    BY <1>3, <2>1, Zenon DEF do_outpoint_unsubscribe, Job, Task
  <2>3. [op |-> "unsubscribed", point |-> Head(jobs).point] \in Message
    BY <2>2, Zenon DEF Message
  <2> QED  BY <1>3, <2>3, Zenon DEF do_outpoint_unsubscribe
<1>4. CASE notify_outpoint
  BY <1>4, NotifyPost, Zenon DEF notify_outpoint
<1> QED  BY <1>1, <1>2, <1>3, <1>4, Zenon

\* What handle_chase posts, one entry at a time.
LEMMA ChasePosts ==
    ASSUME TypeInv, handle_chase
    PROVE  \E mid \in Seq(Message) :
             /\ mid = posts \/ \E a \in Message : a.op \in {"height", "header"} /\ Gains(posts, mid, a)
             /\ posts' = mid \/ \E b \in Message : b.op \in {"height", "header"} /\ Gains(mid, posts', b)
<1> DEFINE e == Head(events)
           a == [op |-> "height", link |-> e.link]
           b == [op |-> "header", link |-> e.link]
<1>1. CASE posts' = posts
  BY <1>1, Zenon DEF TypeInv, StrandType
<1>2. CASE e.link \in Link /\ \E mid \in Seq(Message) :
               /\ mid = IF duplex /\ height_on THEN Append(posts, a) ELSE posts
               /\ posts' = IF duplex /\ header_on THEN Append(mid, b) ELSE mid
  <2>1. a \in Message /\ b \in Message /\ a.op = "height" /\ b.op = "header"
    BY <1>2, Zenon DEF Message
  <2> HIDE DEF a, b
  <2> QED  BY <1>2, <2>1, Zenon DEF Gains
<1> QED  BY <1>1, <1>2, ChaseCases, Zenon

\* Every step keeps the types.
LEMMA NextTypes == ASSUME TypeInv, [NextAll]_all PROVE TypeInv'
<1> USE DEF TypeInv
<1>1. CASE UNCHANGED <<node, protocol>> \/ Upgrade
  BY <1>1, Zenon DEF Upgrade, NodeType, ChannelType, StrandType, node, protocol, client, flags, strand
<1>2. CASE Disconnect \/ (\E t \in Tx : AcceptTx(t)) \/ (\E txs \in SUBSET Tx : Organize(txs))
  BY <1>2, NodeTypes, Zenon
<1>3. CASE handle_chase
  <2>1. posts' \in Seq(Message) /\ jobs' \in Seq(Task)  BY <1>3, ChaseCases, Zenon
  <2>2. NodeType'  BY <1>3, TailFacts, Zenon DEF handle_chase, NodeType
  <2> QED  BY <1>3, <2>1, <2>2, Zenon DEF handle_chase, ChannelType, StrandType, client, flags
<1>4. ASSUME NEW o \in Outpoint,
             handle_blockchain_outpoint_subscribe(o) \/ handle_blockchain_outpoint_unsubscribe(o)
      PROVE  TypeInv'
  <2>1. \A op \in {"subscribe", "unsubscribe"} : [op |-> op, point |-> o] \in Task
    BY Zenon DEF Task
  <2>2. \E x \in Task : jobs' = Append(jobs, x)
    BY <1>4, <2>1, Zenon DEF handle_blockchain_outpoint_subscribe,
       handle_blockchain_outpoint_unsubscribe
  <2>3. jobs' \in Seq(Task)  BY <2>2, AppendFacts DEF StrandType
  <2>4. NodeType' /\ ChannelType'
    BY <1>4, Zenon DEF handle_blockchain_outpoint_subscribe,
       handle_blockchain_outpoint_unsubscribe,
       NodeType, ChannelType, node, flags
  <2>5. StrandType'
    BY <1>4, <2>3, Zenon DEF handle_blockchain_outpoint_subscribe,
       handle_blockchain_outpoint_unsubscribe,
       StrandType
  <2> QED  BY <2>4, <2>5, Zenon
<1>5. CASE \/ handle_blockchain_headers_subscribe \/ handle_blockchain_number_of_blocks_subscribe
           \/ store_header \/ send_height
  <2>1. NodeType' /\ StrandType' /\ view' = view
    BY <1>5, ZenonT(30) DEF handle_blockchain_headers_subscribe,
       handle_blockchain_number_of_blocks_subscribe,
       store_header, send_height, NodeType, StrandType, node, strand, client
  <2>2. top' \in {NoRead, [op |-> "height"]} \union [op : {"header"}, link : Link]
    BY <1>5, ReadTypes DEF handle_blockchain_headers_subscribe,
       handle_blockchain_number_of_blocks_subscribe, store_header, send_height
  <2> QED  BY <2>1, <2>2, Zenon DEF ChannelType
<1>6. CASE do_height \/ do_header \/ complete_outpoint_subscribe \/ complete_outpoint_unsubscribe
           \/ outpoint_notify
  <2>1. posts # <<>> /\ posts' = Tail(posts)
    BY <1>6, Zenon DEF do_height, do_header, complete_outpoint_subscribe,
       complete_outpoint_unsubscribe,
       outpoint_notify, Posted, Sent
  <2>2. posts' \in Seq(Message)  BY <2>1, TailFacts, Zenon DEF StrandType
  <2>3. NodeType' /\ StrandType' /\ top' = top
    BY <1>6, <2>2, Zenon DEF do_height, do_header, complete_outpoint_subscribe,
       complete_outpoint_unsubscribe, outpoint_notify, NodeType, StrandType, node, strand, flags
  <2>4. view' = [o \in Outpoint |-> view'[o]]
    BY <1>6, Zenon DEF do_height, do_header, complete_outpoint_subscribe,
       complete_outpoint_unsubscribe,
       outpoint_notify, ChannelType
  <2> QED  BY <2>3, <2>4, Zenon DEF ChannelType
<1>7. CASE \/ refuse_outpoint_subscribe \/ do_outpoint_subscribe \/ emplace_outpoint
           \/ store_outpoint \/ do_outpoint_unsubscribe \/ do_outpoint \/ read_funder
           \/ notify_outpoint
  <2>1. NodeType' /\ ChannelType'
    BY <1>7, Zenon DEF refuse_outpoint_subscribe, do_outpoint_subscribe, emplace_outpoint,
       store_outpoint,
       do_outpoint_unsubscribe, do_outpoint, read_funder, notify_outpoint, NodeType,
          ChannelType,
       node, client, flags
  <2>2. jobs' \in Seq(Task)
    BY <1>7, TailFacts, Zenon DEF refuse_outpoint_subscribe, do_outpoint_subscribe,
       emplace_outpoint,
       store_outpoint, do_outpoint_unsubscribe, do_outpoint, read_funder, notify_outpoint,
       Job, Done, StrandType
  <2>3. jobs # <<>> => Head(jobs) \in Task  BY TailFacts, Zenon DEF StrandType
  <2>4. CASE refuse_outpoint_subscribe
    <3>1. [op |-> "subscribed", ok |-> FALSE] \in Message  BY Zenon DEF Message
    <3> QED  BY <2>1, <2>2, <2>4, <3>1 DEF refuse_outpoint_subscribe, StrandType
  <2>5. CASE do_outpoint_subscribe
    <3>1. Head(jobs).point \in Outpoint
      BY <2>3, <2>5, Zenon DEF do_outpoint_subscribe, Job, Task
    <3>2. job' \in Running  BY <2>5, <3>1, ReadTypes, Zenon DEF do_outpoint_subscribe, Running
    <3> QED  BY <2>1, <2>2, <2>5, <3>2, Zenon DEF do_outpoint_subscribe, StrandType
  <2>6. CASE emplace_outpoint
    <3>1. job.point \in Outpoint /\ job.funder \in FunderRead
      BY <2>6, JobFields, Zenon DEF emplace_outpoint
    <3>2. get_outpoint_history(job.point, job.funder) \in Entry  BY <3>1, ReadTypes, Zenon
    <3>3. job' \in Running  BY <2>6, <3>1, <3>2, Zenon DEF emplace_outpoint, Running
    <3> QED  BY <2>1, <2>2, <2>6, <3>1, <3>2, <3>3, Zenon DEF emplace_outpoint, StrandType
  <2>7. CASE store_outpoint
    <3>1. job.point \in Outpoint /\ job.sub \in Entry
      BY <2>7, JobFields, Zenon DEF store_outpoint
    <3>2. [op |-> "subscribed", ok |-> TRUE, point |-> job.point, sub |-> job.sub] \in Message
      BY <3>1, Zenon DEF Message
    <3>3. posts' \in Seq(Message)
      <4>1. posts \in Seq(Message)  BY Zenon DEF StrandType
      <4>2. posts' = Append(posts, [op |-> "subscribed", ok |-> TRUE, point |-> job.point, sub |-> job.sub])
        BY <2>7, Zenon DEF store_outpoint
      <4> QED  BY <3>2, <4>1, <4>2, AppendFacts, ZenonT(30)
    <3> QED  BY <2>1, <2>2, <2>7, <3>3, Zenon DEF store_outpoint, StrandType, Running
  <2>8. CASE do_outpoint_unsubscribe
    <3>1. Head(jobs).point \in Outpoint
      BY <2>3, <2>8, Zenon DEF do_outpoint_unsubscribe, Job, Task
    <3>2. [op |-> "unsubscribed", point |-> Head(jobs).point] \in Message
      BY <3>1, Zenon DEF Message
    <3>3. posts' \in Seq(Message)
      <4>1. posts \in Seq(Message)  BY Zenon DEF StrandType
      <4>2. posts' = Append(posts, [op |-> "unsubscribed", point |-> Head(jobs).point])
        BY <2>8, Zenon DEF do_outpoint_unsubscribe
      <4> QED  BY <3>2, <4>1, <4>2, AppendFacts, Zenon
    <3> QED  BY <2>1, <2>2, <2>8, <3>3, Zenon DEF do_outpoint_unsubscribe, StrandType
  <2>9. CASE do_outpoint
    BY <2>1, <2>2, <2>9, ScanType, Zenon DEF do_outpoint, StrandType, Running
  <2>10. CASE read_funder
    <3>1. job.point \in Outpoint /\ job.todo \in SUBSET Outpoint
      BY <2>10, JobFields, Zenon DEF read_funder
    <3>2. job' \in Running  BY <2>10, <3>1, ReadTypes, Zenon DEF read_funder, Running, Scanning
    <3> QED  BY <2>1, <2>2, <2>10, <3>2, Zenon DEF read_funder, StrandType
  <2>11. CASE notify_outpoint
    <3> DEFINE o == job.point
               out == get_outpoint_history(o, job.funder)
               note == [op |-> "notify", point |-> o, height |-> out.height,
                        spenders |-> Changed(sub[o], out)]
    <3>1. o \in Outpoint /\ job.todo \in SUBSET Outpoint /\ job.funder \in FunderRead
      BY <2>11, JobFields, Zenon DEF notify_outpoint
    <3>2. out \in Entry  BY <3>1, ReadTypes, Zenon
    <3>3. Changed(sub[o], out) \in SUBSET Spender  BY <3>2, Zenon DEF Changed, Entry
    <3>4. note \in Message  BY <3>1, <3>2, <3>3, Zenon DEF Message, Entry
    <3>5. /\ posts' = posts \/ posts' = Append(posts, note)
          /\ sub' = sub \/ sub' = [sub EXCEPT ![o] = out]
          /\ job' = Scan(job.todo) /\ held' = held
      BY <2>11, Zenon DEF notify_outpoint
    <3> HIDE DEF note, out, o
    <3>6. posts' \in Seq(Message)
      <4>1. posts \in Seq(Message)  BY Zenon DEF StrandType
      <4>2. Append(posts, note) \in Seq(Message)  BY <3>4, <4>1, AppendFacts, Zenon
      <4> QED  BY <3>5, <4>1, <4>2, Zenon
    <3>7. sub' \in [Outpoint -> Entry]  BY <3>2, <3>5, Zenon DEF StrandType
    <3>8. job' \in Running  BY <3>1, <3>5, ScanType, Zenon DEF Running
    <3> QED  BY <2>1, <2>2, <3>5, <3>6, <3>7, <3>8, Zenon DEF StrandType
  <2> QED  BY <1>7, <2>4, <2>5, <2>6, <2>7, <2>8, <2>9, <2>10, <2>11, ZenonT(30)
<1> QED  BY <1>1, <1>2, <1>3, <1>4, <1>5, <1>6, <1>7, StepCases, Zenon

-----------------------------------------------------------------------------
(* Notification over http.                                                 *)

\* Until the connection is full duplex nothing is scanned and nothing is on its
\* way to the client but the answer to its request.
HalfInv ==
    ~duplex =>
       /\ None(jobs, "outpoint") /\ job.op \notin {"outpoint", "spenders"}
       /\ None(posts, "height") /\ None(posts, "header") /\ None(posts, "notify")

\* A queue that gains or loses an entry of another kind.
Keeps(S, s, t, op) ==
    t = s \/ (\E e \in S : e.op # op /\ Gains(s, t, e)) \/ (Head(s).op # op /\ Drops(s, t))

\* A queue whose first entry, of this kind, is taken.
Takes(s, t, op) == Head(s).op = op /\ Drops(s, t)

\* A queue that gains or loses another entry keeps its last one of this kind.
LEMMA KeepsLast ==
    ASSUME NEW S, NEW s \in Seq(S), NEW t, NEW op, Keeps(S, s, t, op)
    PROVE  /\ None(t, op) <=> None(s, op)
           /\ \A x : Latest(t, op, x) => Latest(s, op, x)
<1>1. CASE t = s
  BY <1>1, Zenon
<1>2. CASE \E e \in S : e.op # op /\ Gains(s, t, e)
  BY <1>2, GainsOther, Zenon
<1>3. CASE Head(s).op # op /\ Drops(s, t)
  BY <1>3, DropsLast, Zenon
<1> QED  BY <1>1, <1>2, <1>3, Zenon DEF Keeps

\* A queue whose first entry, of this kind, is taken.
LEMMA TakesLast ==
    ASSUME NEW S, NEW s \in Seq(S), NEW t, NEW op, Takes(s, t, op)
    PROVE  /\ None(t, op) => Latest(s, op, Head(s))
           /\ \A x : Latest(t, op, x) => Latest(s, op, x)
           /\ ~None(s, op)
BY DropsLast, ZenonT(30) DEF Takes

\* A queue that has none of a kind, once it gains or loses another entry.
LEMMA KeepsNone ==
    ASSUME NEW S, NEW s \in Seq(S), NEW t, NEW op, None(s, op),
           t = s \/ (\E e \in S : e.op # op /\ t = Append(s, e)) \/ (s # <<>> /\ t = Tail(s))
    PROVE  None(t, op)
<1>1. CASE t = s \/ \E e \in S : e.op # op /\ t = Append(s, e)
  <2>1. Keeps(S, s, t, op)  BY <1>1, Zenon DEF Keeps, Gains
  <2> QED  BY <2>1, KeepsLast, Zenon
<1>2. CASE s # <<>> /\ t = Tail(s)
  <2>1. Drops(s, t)  BY <1>2, Zenon DEF Drops
  <2> QED  BY <2>1, DropsLast, Zenon
<1> QED  BY <1>1, <1>2, Zenon

\* Nothing is on its way at the start.
LEMMA InitHalf == InitAll => HalfInv
<1> SUFFICES ASSUME InitAll PROVE HalfInv  BY Zenon
<1>1. jobs = <<>> /\ posts = <<>> /\ job = NoJob  BY Zenon DEF InitAll, Idle
<1>2. \A op : None(<<>>, op)  BY DEF None
<1> QED  BY <1>1, <1>2, Zenon DEF HalfInv, NoJob

\* A connection that is full duplex remains so.
LEMMA DuplexStays == ASSUME [NextAll]_all, ~duplex' PROVE ~duplex
<1>1. CASE Upgrade
  BY <1>1, Zenon DEF Upgrade
<1>2. CASE UNCHANGED <<node, protocol>>
  BY <1>2, SMTT(30) DEF protocol
<1>3. CASE Disconnect \/ (\E t \in Tx : AcceptTx(t)) \/ (\E txs \in SUBSET Tx : Organize(txs))
  <2>1. UNCHANGED protocol  BY <1>3, Zenon DEF Disconnect, AcceptTx, Organize
  <2> QED  BY <2>1, SMTT(30) DEF protocol
<1>4. CASE ~(\/ Upgrade \/ UNCHANGED <<node, protocol>>
             \/ Disconnect \/ (\E t \in Tx : AcceptTx(t)) \/ (\E txs \in SUBSET Tx : Organize(txs)))
  <2>1. duplex' = duplex
    BY <1>4, StepCases, ZenonT(30) DEF handle_chase, handle_blockchain_outpoint_subscribe,
       handle_blockchain_outpoint_unsubscribe, handle_blockchain_headers_subscribe,
       handle_blockchain_number_of_blocks_subscribe, store_header, send_height,
       do_height, do_header, complete_outpoint_subscribe, complete_outpoint_unsubscribe,
       outpoint_notify, refuse_outpoint_subscribe, do_outpoint_subscribe, emplace_outpoint,
       store_outpoint, do_outpoint_unsubscribe, do_outpoint, read_funder, notify_outpoint
  <2> QED  BY <2>1, SMTT(30)
<1> QED  BY <1>1, <1>2, <1>3, <1>4, Zenon

\* Every step keeps the invariant.
LEMMA NextHalf == ASSUME TypeInv, HalfInv, [NextAll]_all PROVE HalfInv'
<1> SUFFICES ASSUME ~duplex'
             PROVE  /\ None(jobs', "outpoint") /\ job'.op \notin {"outpoint", "spenders"}
                    /\ None(posts', "height") /\ None(posts', "header") /\ None(posts', "notify")
  BY Zenon DEF HalfInv
<1>1. /\ ~duplex /\ None(jobs, "outpoint") /\ job.op \notin {"outpoint", "spenders"}
      /\ None(posts, "height") /\ None(posts, "header") /\ None(posts, "notify")
  BY DuplexStays, Zenon DEF HalfInv
<1>2. posts \in Seq(Message) /\ jobs \in Seq(Task)  BY Zenon DEF TypeInv, StrandType
<1>3. CASE \/ UNCHANGED <<node, protocol>> \/ Upgrade
           \/ Disconnect \/ (\E t \in Tx : AcceptTx(t)) \/ (\E txs \in SUBSET Tx : Organize(txs))
           \/ handle_blockchain_headers_subscribe \/ handle_blockchain_number_of_blocks_subscribe
           \/ store_header \/ send_height
  <2>1. posts' = posts /\ jobs' = jobs /\ job' = job
    BY <1>3, ZenonT(30) DEF protocol, strand, Upgrade, Disconnect, AcceptTx, Organize,
       handle_blockchain_headers_subscribe, handle_blockchain_number_of_blocks_subscribe,
       store_header, send_height
  <2> QED  BY <1>1, <2>1, Zenon
<1>4. CASE handle_chase
  <2>1. posts' = posts /\ jobs' = jobs  BY <1>1, <1>4, ChaseCases, Zenon
  <2>2. job' = job  BY <1>4, Zenon DEF handle_chase
  <2> QED  BY <1>1, <2>1, <2>2, Zenon
<1>5. ASSUME NEW o \in Outpoint,
             handle_blockchain_outpoint_subscribe(o) \/ handle_blockchain_outpoint_unsubscribe(o)
      PROVE  /\ None(jobs', "outpoint") /\ job'.op \notin {"outpoint", "spenders"}
             /\ None(posts', "height") /\ None(posts', "header") /\ None(posts', "notify")
  <2>1. \A op \in {"subscribe", "unsubscribe"} : [op |-> op, point |-> o] \in Task
    BY Zenon DEF Task
  <2>2. /\ \E e \in Task : e.op # "outpoint" /\ jobs' = Append(jobs, e)
        /\ posts' = posts /\ job' = job
    BY <1>5, <2>1, Zenon DEF handle_blockchain_outpoint_subscribe,
       handle_blockchain_outpoint_unsubscribe
  <2>3. None(jobs', "outpoint")  BY <1>1, <1>2, <2>2, KeepsNone, Zenon
  <2> QED  BY <1>1, <2>2, <2>3, Zenon
<1>6. CASE do_height \/ do_header \/ complete_outpoint_subscribe \/ complete_outpoint_unsubscribe
           \/ outpoint_notify
  <2>1. posts # <<>> /\ posts' = Tail(posts) /\ jobs' = jobs /\ job' = job
    BY <1>6, Zenon DEF do_height, do_header, complete_outpoint_subscribe,
       complete_outpoint_unsubscribe, outpoint_notify, Posted, Sent, strand
  <2> QED  BY <1>1, <1>2, <2>1, KeepsNone, Zenon
<1>7. CASE refuse_outpoint_subscribe \/ store_outpoint \/ do_outpoint_unsubscribe
  <2>1. \/ posts' = posts
        \/ \E p \in Message : p.op \notin {"height", "header", "notify"} /\ posts' = Append(posts, p)
    BY <1>1, <1>7, AnswerPosts, Zenon
  <2>2. None(posts', "height") /\ None(posts', "header") /\ None(posts', "notify")
    BY <1>1, <1>2, <2>1, KeepsNone, Zenon
  <2>3. jobs' = jobs \/ (jobs # <<>> /\ jobs' = Tail(jobs))
    BY <1>7, Zenon DEF refuse_outpoint_subscribe, store_outpoint, do_outpoint_unsubscribe, Job, Done
  <2>4. None(jobs', "outpoint")  BY <1>1, <1>2, <2>3, KeepsNone, Zenon
  <2>5. job' = job \/ job' = NoJob
    BY <1>7, Zenon DEF refuse_outpoint_subscribe, store_outpoint, do_outpoint_unsubscribe
  <2>6. job'.op \notin {"outpoint", "spenders"}  BY <1>1, <2>5 DEF NoJob
  <2> QED  BY <1>1, <2>2, <2>4, <2>6, Zenon
<1>8. CASE do_outpoint_subscribe \/ emplace_outpoint
  <2>1. posts' = posts /\ job'.op \notin {"outpoint", "spenders"}
    <3>1. CASE do_outpoint_subscribe
      BY <3>1 DEF do_outpoint_subscribe
    <3>2. CASE emplace_outpoint
      BY <3>2 DEF emplace_outpoint
    <3> QED  BY <1>8, <3>1, <3>2, Zenon
  <2>2. jobs' = jobs \/ (jobs # <<>> /\ jobs' = Tail(jobs))
    BY <1>8, Zenon DEF do_outpoint_subscribe, emplace_outpoint, Job, Done
  <2>3. None(jobs', "outpoint")  BY <1>1, <1>2, <2>2, KeepsNone, Zenon
  <2> QED  BY <1>1, <2>1, <2>3, Zenon
<1>9. ~do_outpoint
  <2>1. jobs # <<>> => Head(jobs) = jobs[1] /\ 1 \in 1..Len(jobs)  BY <1>2
  <2> QED  BY <1>1, <2>1, Zenon DEF do_outpoint, Job, None
<1>10. ~read_funder /\ ~notify_outpoint  BY <1>1, Zenon DEF read_funder, notify_outpoint
<1> QED  BY <1>3, <1>4, <1>5, <1>6, <1>7, <1>8, <1>9, <1>10, StepCases, ZenonT(30)

-----------------------------------------------------------------------------
(* Headers and heights.                                                    *)

\* While no block is owed, the last organized event pending is the top.  With no
\* such event pending the last post is, and with no post what the client was
\* sent is, unless an event was withheld.  A client that does not subscribe is sent nothing.
EventLatest ==
    owed = 0 => \A x : Latest(events, "organized", x) => x.link = Top
HeightLatest ==
    /\ owed = 0 /\ None(events, "organized") =>
          /\ \A x : Latest(posts, "height", x) => x.link = Top
          /\ None(posts, "height") /\ "height" \notin missed => count \subseteq {Len(chain)}
    /\ ~height_on => count = {} /\ None(posts, "height") /\ top.op # "height"
HeaderLatest ==
    /\ owed = 0 /\ None(events, "organized") =>
          /\ \A x : Latest(posts, "header", x) => x.link = Top
          /\ None(posts, "header") /\ "header" \notin missed =>
                /\ top.op = "header" => top.link = Top
                /\ top.op # "header" => told \subseteq {Top}
    /\ ~header_on => told = {} /\ None(posts, "header")
LatestInv == EventLatest /\ HeightLatest /\ HeaderLatest

\* Nothing is owed or sent at the start.
LEMMA InitLatest == InitAll => LatestInv
<1> SUFFICES ASSUME InitAll PROVE LatestInv  BY Zenon
<1>1. /\ events = <<>> /\ posts = <<>> /\ told = {} /\ count = {} /\ top = NoRead
  BY Zenon DEF InitAll, Idle
<1>2. \A op : None(<<>>, op) /\ \A x : ~Latest(<<>>, op, x)  BY DEF None, Latest, LastOf
<1>3. top.op # "height" /\ top.op # "header"  BY <1>1, Zenon DEF NoRead
<1> QED  BY <1>1, <1>2, <1>3, Zenon DEF LatestInv, EventLatest, HeightLatest, HeaderLatest

\* A step that neither reads the chain nor sends a header or height.
LEMMA ApartLatest ==
    ASSUME TypeInv, LatestInv,
           UNCHANGED <<chain, owed, events, told, count, flags, missed>>,
           Keeps(Message, posts, posts', "height"), Keeps(Message, posts, posts', "header")
    PROVE  LatestInv'
<1>1. posts \in Seq(Message)  BY Zenon DEF TypeInv, StrandType
<1>2. /\ None(posts', "height") <=> None(posts, "height")
      /\ \A x : Latest(posts', "height", x) => Latest(posts, "height", x)
  BY <1>1, KeepsLast, Zenon
<1>3. /\ None(posts', "header") <=> None(posts, "header")
      /\ \A x : Latest(posts', "header", x) => Latest(posts, "header", x)
  BY <1>1, KeepsLast, Zenon
<1>4. /\ events' = events /\ owed' = owed /\ chain' = chain /\ Top' = Top
      /\ told' = told /\ count' = count /\ missed' = missed /\ top' = top
      /\ header_on' = header_on /\ height_on' = height_on
  BY Zenon DEF flags, Top
<1>5. EventLatest'  BY <1>4, Zenon DEF LatestInv, EventLatest
<1>6. HeightLatest'  BY <1>2, <1>4, Zenon DEF LatestInv, HeightLatest
<1>7. HeaderLatest'
  <2>1. owed' = 0 /\ None(events', "organized") => \A x : Latest(posts', "header", x) => x.link = Top'
    BY <1>3, <1>4, Zenon DEF LatestInv, HeaderLatest
  <2>2. owed' = 0 /\ None(events', "organized") /\ None(posts', "header") /\ "header" \notin missed' =>
          (top'.op = "header" => top'.link = Top') /\ (top'.op # "header" => told' \subseteq {Top'})
    BY <1>3, <1>4, Zenon DEF LatestInv, HeaderLatest
  <2>3. ~header_on' => told' = {} /\ None(posts', "header")
    <3>1. ~header_on => told = {} /\ None(posts, "header")  BY Zenon DEF LatestInv, HeaderLatest
    <3>2. ~header_on' => ~header_on  BY <1>4, SMTT(30)
    <3> QED  BY <1>3, <1>4, <3>1, <3>2, Zenon
  <2> QED  BY <2>1, <2>2, <2>3, Zenon DEF HeaderLatest
<1> QED  BY <1>5, <1>6, <1>7, Zenon DEF LatestInv

\* The answers to the header and height requests keep it.
LEMMA RequestLatest ==
    ASSUME TypeInv, LatestInv,
           \/ handle_blockchain_headers_subscribe \/ handle_blockchain_number_of_blocks_subscribe
           \/ store_header \/ send_height
    PROVE  LatestInv'
<1>1. events' = events /\ owed' = owed /\ chain' = chain /\ posts' = posts /\ Top' = Top
  BY Zenon DEF handle_blockchain_headers_subscribe,
     handle_blockchain_number_of_blocks_subscribe,
     store_header, send_height, node, Top
<1>2. EventLatest'  BY <1>1, Zenon DEF LatestInv, EventLatest
<1> USE DEF LatestInv, HeightLatest, HeaderLatest
<1>3. CASE handle_blockchain_headers_subscribe
  <2>1. HeightLatest'
    BY <1>1, <1>3, Zenon DEF handle_blockchain_headers_subscribe, client
  <2>2. HeaderLatest'
    BY <1>1, <1>3, Zenon DEF handle_blockchain_headers_subscribe, client
  <2> QED  BY <1>2, <2>1, <2>2, Zenon
<1>4. CASE handle_blockchain_number_of_blocks_subscribe
  <2>1. HeightLatest'
    BY <1>1, <1>4, Zenon DEF handle_blockchain_number_of_blocks_subscribe, client, histories
  <2>2. HeaderLatest'
    BY <1>1, <1>4, Zenon DEF handle_blockchain_number_of_blocks_subscribe, client, histories,
       Ask, Ready,
       NoRead
  <2> QED  BY <1>2, <2>1, <2>2, Zenon
<1>5. CASE store_header
  <2>1. HeightLatest'  BY <1>1, <1>5, Zenon DEF store_header, NoRead, histories
  <2>2. HeaderLatest'  BY <1>1, <1>5, Zenon DEF store_header, NoRead, histories
  <2> QED  BY <1>2, <2>1, <2>2, Zenon
<1>6. CASE send_height
  <2>1. HeightLatest'  BY <1>1, <1>6, Zenon DEF send_height, NoRead
  <2>2. HeaderLatest'  BY <1>1, <1>6, Zenon DEF send_height, NoRead, histories
  <2> QED  BY <1>2, <2>1, <2>2, Zenon
<1> QED  BY <1>3, <1>4, <1>5, <1>6, Zenon

\* The posts that send a header or a height keep it.
LEMMA SentLatest ==
    ASSUME TypeInv, HalfInv, LatestInv, do_height \/ do_header PROVE LatestInv'
<1>1. events' = events /\ owed' = owed /\ chain' = chain /\ Top' = Top /\ top' = top /\ top = NoRead
  BY Zenon DEF do_height, do_header, node, flags, Top, Posted
<1>2. header_on' = header_on /\ height_on' = height_on  BY Zenon DEF do_height, do_header, flags
<1>3. posts \in Seq(Message) /\ posts # <<>> /\ posts' = Tail(posts)
  BY Zenon DEF do_height, do_header, Posted, Sent, TypeInv, StrandType
<1>4. EventLatest'  BY <1>1, Zenon DEF LatestInv, EventLatest
<1>0. duplex
  <2>1. Head(posts) = posts[1] /\ 1 \in 1..Len(posts)  BY <1>3
  <2>2. ~None(posts, "height") \/ ~None(posts, "header")
    BY <2>1, Zenon DEF do_height, do_header, Posted, None
  <2> QED  BY <2>2, Zenon DEF HalfInv
<1>5. CASE do_height
  <2>1. Head(posts).op = "height" /\ Head(posts).op # "header"
    BY <1>5, Zenon DEF do_height, Posted
  <2>2. Keeps(Message, posts, posts', "header")  BY <1>3, <2>1, Zenon DEF Keeps, Drops
  <2>3. /\ None(posts', "header") <=> None(posts, "header")
        /\ \A x : Latest(posts', "header", x) => Latest(posts, "header", x)
    <3>1. posts \in Seq(Message)  BY <1>3, Zenon
    <3> QED  BY <2>2, <3>1, KeepsLast, Zenon
  <2>4. told' = told /\ missed' = missed \ {"height"}  BY <1>0, <1>5, Zenon DEF do_height
  <2>5. HeaderLatest'  BY <1>1, <1>2, <2>3, <2>4, Zenon DEF LatestInv, HeaderLatest
  <2>6. /\ None(posts', "height") => Latest(posts, "height", Head(posts))
        /\ \A x : Latest(posts', "height", x) => Latest(posts, "height", x)
        /\ ~None(posts, "height")
    <3>1. Takes(posts, posts', Head(posts).op) /\ posts \in Seq(Message)
      BY <1>3, Zenon DEF Takes, Drops
    <3> QED  BY <2>1, <3>1, TakesLast, Zenon
  <2>8. count' = {Head(posts).link.height} /\ Top.height = Len(chain)
    BY <1>0, <1>5, Zenon DEF do_height, Top
  <2>9. HeightLatest'  BY <1>1, <1>2, <2>6, <2>8, Zenon DEF LatestInv, HeightLatest
  <2> QED  BY <1>4, <2>5, <2>9, Zenon DEF LatestInv
<1>6. CASE do_header
  <2>1. Head(posts).op = "header" /\ Head(posts).op # "height"
    BY <1>6, Zenon DEF do_header, Posted
  <2>2. Keeps(Message, posts, posts', "height")  BY <1>3, <2>1, Zenon DEF Keeps, Drops
  <2>3. /\ None(posts', "height") <=> None(posts, "height")
        /\ \A x : Latest(posts', "height", x) => Latest(posts, "height", x)
    <3>1. posts \in Seq(Message)  BY <1>3, Zenon
    <3> QED  BY <2>2, <3>1, KeepsLast, Zenon
  <2>4. count' = count /\ missed' = missed \ {"header"}  BY <1>0, <1>6, Zenon DEF do_header
  <2>5. HeightLatest'  BY <1>1, <1>2, <2>3, <2>4, Zenon DEF LatestInv, HeightLatest
  <2>6. /\ None(posts', "header") => Latest(posts, "header", Head(posts))
        /\ \A x : Latest(posts', "header", x) => Latest(posts, "header", x)
        /\ ~None(posts, "header")
    <3>1. Takes(posts, posts', Head(posts).op) /\ posts \in Seq(Message)
      BY <1>3, Zenon DEF Takes, Drops
    <3> QED  BY <2>1, <3>1, TakesLast, Zenon
  <2>8. told' = {Head(posts).link}  BY <1>0, <1>6, Zenon DEF do_header
  <2>9. HeaderLatest'  BY <1>1, <1>2, <2>6, <2>8, Zenon DEF LatestInv, HeaderLatest, NoRead
  <2> QED  BY <1>4, <2>5, <2>9, Zenon DEF LatestInv
<1> QED  BY <1>5, <1>6, Zenon

\* A change of the archive raises its event in the same step.
LEMMA NodeLatest ==
    ASSUME TypeInv, LatestInv,
           Disconnect \/ (\E t \in Tx : AcceptTx(t)) \/ (\E txs \in SUBSET Tx : Organize(txs))
    PROVE  LatestInv'
<1>1. /\ posts' = posts /\ told' = told /\ count' = count /\ missed' = missed
      /\ top' = top /\ header_on' = header_on /\ height_on' = height_on
  BY Zenon DEF Disconnect, AcceptTx, Organize, protocol, client, flags, histories
<1>2. events \in Seq(Event) /\ owed \in Nat /\ chain \in Seq(Block)
  BY Zenon DEF TypeInv, NodeType
<1>3. CASE Disconnect
  <2>1. owed' # 0  BY <1>2, <1>3 DEF Disconnect
  <2> QED  BY <1>1, <2>1, Zenon DEF LatestInv, EventLatest, HeightLatest, HeaderLatest
<1>4. ASSUME NEW t \in Tx, AcceptTx(t) PROVE LatestInv'
  <2> DEFINE e == [op |-> "transaction"]
  <2>1. e \in Event /\ e.op # "organized" /\ events' = Append(events, e)
    BY <1>4, Zenon DEF AcceptTx, Raise, Event
  <2> HIDE DEF e
  <2>2. /\ None(events', "organized") <=> None(events, "organized")
        /\ \A x : Latest(events', "organized", x) => Latest(events, "organized", x)
    <3>1. Keeps(Event, events, events', "organized")  BY <2>1, Zenon DEF Keeps, Gains
    <3> QED  BY <1>2, <3>1, KeepsLast, Zenon
  <2>3. chain' = chain /\ owed' = owed /\ Top' = Top  BY <1>4, Zenon DEF AcceptTx, Top
  <2>4. EventLatest'  BY <2>2, <2>3, Zenon DEF LatestInv, EventLatest
  <2>5. HeightLatest'  BY <1>1, <2>2, <2>3, Zenon DEF LatestInv, HeightLatest
  <2>6. HeaderLatest'  BY <1>1, <2>2, <2>3, Zenon DEF LatestInv, HeaderLatest
  <2> QED  BY <2>4, <2>5, <2>6, Zenon DEF LatestInv
<1>5. ASSUME NEW txs \in SUBSET Tx, Organize(txs) PROVE LatestInv'
  <2> DEFINE link == [height |-> Len(chain) + 1, hash |-> serial + 1]
             e == [op |-> "organized", link |-> link]
             block == [txs |-> txs, hash |-> serial + 1]
  <2>1. block \in Block  BY DEF TypeInv, NodeType, Block
  <2>2. chain' = Append(chain, block)  BY <1>5, Zenon DEF Organize
  <2>3. Len(chain') = Len(chain) + 1 /\ chain'[Len(chain')] = block /\ chain' # <<>>
    <3> HIDE DEF block
    <3> QED  BY <1>2, <2>1, <2>2, AppendFacts, SMTT(30)
  <2>4. Top' = link  BY <2>3 DEF Top
  <2>5. events' = Append(events, e)  BY <1>5, ZenonT(30) DEF Organize, Raise
  <2>6. e \in Event /\ e.op = "organized" /\ e.link = link
    BY <1>2 DEF TypeInv, NodeType, Event, Link
  <2> HIDE DEF e, link
  <2>7. /\ ~None(events', "organized")
        /\ \A x : Latest(events', "organized", x) => x = e
    <3>1. Gains(events, events', e)  BY <2>5, Zenon DEF Gains
    <3>2. events \in Seq(Event) /\ e \in Event  BY <1>2, <2>6, Zenon
    <3>3. ~None(events', e.op) /\ \A x : Latest(events', e.op, x) => x = e
      BY <3>1, <3>2, GrowsLast, Zenon
    <3> QED  BY <2>6, <3>3, Zenon
  <2>8. EventLatest'  BY <2>4, <2>6, <2>7, Zenon DEF EventLatest
  <2>9. HeightLatest'  BY <1>1, <2>7, Zenon DEF LatestInv, HeightLatest
  <2>10. HeaderLatest'  BY <1>1, <2>7, Zenon DEF LatestInv, HeaderLatest
  <2> QED  BY <2>8, <2>9, <2>10, Zenon DEF LatestInv
<1> QED  BY <1>3, <1>4, <1>5, Zenon

\* handle_chase posts the organized block to the client that subscribes.
LEMMA ChaseLatest == ASSUME TypeInv, HalfInv, LatestInv, handle_chase PROVE LatestInv'
<1> DEFINE e == Head(events)
<1>1. /\ owed' = owed /\ chain' = chain /\ Top' = Top /\ told' = told /\ count' = count
      /\ top' = top /\ header_on' = header_on /\ height_on' = height_on
      /\ missed' = IF e.op = "organized" THEN missed \union Missed ELSE missed
  BY Zenon DEF handle_chase, client, flags, Top
<1>2. events \in Seq(Event) /\ events # <<>> /\ posts \in Seq(Message)
  BY Zenon DEF handle_chase, TypeInv, NodeType, StrandType
<1>3. CASE e.op # "organized"
  <2>1. posts' = posts  BY <1>3, ChaseCases, Zenon
  <2>2. Keeps(Event, events, events', "organized")
    BY <1>2, <1>3, Zenon DEF handle_chase, Keeps, Drops
  <2>3. /\ None(events', "organized") <=> None(events, "organized")
        /\ \A x : Latest(events', "organized", x) => Latest(events, "organized", x)
    BY <1>2, <2>2, KeepsLast, Zenon
  <2>4. missed' = missed  BY <1>1, <1>3, Zenon
  <2>5. EventLatest'  BY <1>1, <2>3, Zenon DEF LatestInv, EventLatest
  <2>6. HeightLatest'  BY <1>1, <2>1, <2>3, <2>4, Zenon DEF LatestInv, HeightLatest
  <2>7. HeaderLatest'  BY <1>1, <2>1, <2>3, <2>4, Zenon DEF LatestInv, HeaderLatest
  <2> QED  BY <2>5, <2>6, <2>7, Zenon DEF LatestInv
<1>4. CASE e.op = "organized"
  <2> DEFINE a == [op |-> "height", link |-> e.link]
             b == [op |-> "header", link |-> e.link]
  <2>1. Takes(events, events', "organized")  BY <1>2, <1>4, Zenon DEF handle_chase, Takes, Drops
  <2>2. /\ None(events', "organized") => Latest(events, "organized", e)
        /\ \A x : Latest(events', "organized", x) => Latest(events, "organized", x)
    BY <1>2, <2>1, TakesLast, Zenon
  <2>3. EventLatest'  BY <1>1, <2>2, Zenon DEF LatestInv, EventLatest
  <2>4. owed' = 0 /\ None(events', "organized") => e.link = Top
    BY <1>1, <2>2, Zenon DEF LatestInv, EventLatest
  <2>5. e.link \in Link  BY <1>4, ChaseCases, Zenon
  <2>6. a \in Message /\ a.op = "height" /\ b \in Message /\ b.op = "header"
        /\ a.link = e.link /\ b.link = e.link
    BY <2>5, Zenon DEF Message
  <2>7. PICK mid \in Seq(Message) :
          /\ mid = IF duplex /\ height_on THEN Append(posts, a) ELSE posts
          /\ posts' = IF duplex /\ header_on THEN Append(mid, b) ELSE mid
    BY <1>4, ChaseCases, Zenon
  <2> HIDE DEF a, b, e
  <2>8. /\ Keeps(Message, posts, mid, "header") /\ Keeps(Message, mid, posts', "height")
        /\ duplex /\ height_on => Gains(posts, mid, a)
        /\ duplex /\ header_on => Gains(mid, posts', b)
        /\ ~(duplex /\ height_on) => mid = posts
        /\ ~(duplex /\ header_on) => posts' = mid
    BY <2>6, <2>7, Zenon DEF Keeps, Gains
  <2>9. /\ None(mid, "header") <=> None(posts, "header")
        /\ \A x : Latest(mid, "header", x) => Latest(posts, "header", x)
    BY <1>2, <2>8, KeepsLast, Zenon
  <2>10. /\ None(posts', "height") <=> None(mid, "height")
         /\ \A x : Latest(posts', "height", x) => Latest(mid, "height", x)
    BY <2>8, KeepsLast, Zenon
  <2>11. duplex /\ height_on => ~None(mid, "height") /\ \A x : Latest(mid, "height", x) => x = a
    <3> SUFFICES ASSUME duplex /\ height_on
                 PROVE  ~None(mid, "height") /\ \A x : Latest(mid, "height", x) => x = a
      BY Zenon
    <3>1. Gains(posts, mid, a) /\ posts \in Seq(Message) /\ a \in Message
      BY <1>2, <2>6, <2>8, Zenon
    <3>2. ~None(mid, a.op) /\ \A x : Latest(mid, a.op, x) => x = a  BY <3>1, GrowsLast, Zenon
    <3> QED  BY <2>6, <3>2, Zenon
  <2>12. duplex /\ header_on => ~None(posts', "header") /\ \A x : Latest(posts', "header", x) => x = b
    <3> SUFFICES ASSUME duplex /\ header_on
                 PROVE  ~None(posts', "header") /\ \A x : Latest(posts', "header", x) => x = b
      BY Zenon
    <3>1. Gains(mid, posts', b) /\ b \in Message  BY <2>6, <2>8, Zenon
    <3>2. ~None(posts', b.op) /\ \A x : Latest(posts', b.op, x) => x = b
      BY <3>1, GrowsLast, Zenon
    <3> QED  BY <2>6, <3>2, Zenon
  <2>13. HeightLatest'
    <3>1. CASE duplex /\ height_on
      BY <1>1, <2>4, <2>6, <2>10, <2>11, <3>1, ZenonT(30) DEF LatestInv, HeightLatest
    <3>2. CASE ~(duplex /\ height_on)
      <4>1. None(posts, "height")  BY <3>2, Zenon DEF HalfInv, LatestInv, HeightLatest
      <4>2. None(posts', "height")  BY <2>8, <2>10, <3>2, <4>1, Zenon
      <4>3. \A x : ~Latest(posts', "height", x)  BY <4>2, Zenon DEF None, LastOf, Latest
      <4>4. ~height_on => count = {} /\ top.op # "height"
        BY Zenon DEF LatestInv, HeightLatest
      <4>5. height_on => "height" \in missed'
        BY <1>1, <1>4, <3>2 DEF Missed, On
      <4> QED  BY <1>1, <4>2, <4>3, <4>4, <4>5, Zenon DEF HeightLatest
    <3> QED  BY <3>1, <3>2, Zenon
  <2>14. HeaderLatest'
    <3>1. CASE duplex /\ header_on
      BY <1>1, <2>4, <2>6, <2>12, <3>1, Zenon DEF HeaderLatest
    <3>2. CASE ~(duplex /\ header_on)
      <4>1. None(posts, "header")  BY <3>2, Zenon DEF HalfInv, LatestInv, HeaderLatest
      <4>2. None(posts', "header")  BY <2>8, <2>9, <3>2, <4>1, Zenon
      <4>3. \A x : ~Latest(posts', "header", x)  BY <4>2, Zenon DEF None, LastOf, Latest
      <4>4. ~header_on => told = {}  BY Zenon DEF LatestInv, HeaderLatest
      <4>5. header_on \/ top.op = "header" => "header" \in missed'
        BY <1>1, <1>4, <3>2 DEF Missed, On
      <4> QED  BY <1>1, <4>2, <4>3, <4>4, <4>5, Zenon DEF HeaderLatest
    <3> QED  BY <3>1, <3>2, Zenon
  <2> QED  BY <2>3, <2>13, <2>14, Zenon DEF LatestInv
<1> QED  BY <1>3, <1>4, Zenon

\* Every step keeps the latest block on its way to the client.
LEMMA NextLatest == ASSUME TypeInv, HalfInv, LatestInv, [NextAll]_all PROVE LatestInv'
<1>1. CASE Disconnect \/ (\E t \in Tx : AcceptTx(t)) \/ (\E txs \in SUBSET Tx : Organize(txs))
  BY <1>1, NodeLatest, Zenon
<1>2. CASE handle_chase
  BY <1>2, ChaseLatest, Zenon
<1>3. CASE \/ handle_blockchain_headers_subscribe \/ handle_blockchain_number_of_blocks_subscribe
           \/ store_header \/ send_height
  BY <1>3, RequestLatest, Zenon
<1>4. CASE do_height \/ do_header
  BY <1>4, SentLatest, Zenon
<1>5. CASE \/ UNCHANGED <<node, protocol>> \/ Upgrade
           \/ \E o \in Outpoint : handle_blockchain_outpoint_subscribe(o)
           \/ \E o \in Outpoint : handle_blockchain_outpoint_unsubscribe(o)
           \/ do_outpoint_subscribe \/ emplace_outpoint \/ do_outpoint \/ read_funder
  <2>1. UNCHANGED <<chain, owed, events, told, count, flags, missed>> /\ posts' = posts
    BY <1>5, ZenonT(30) DEF node, protocol, client, flags, histories, Upgrade,
       handle_blockchain_outpoint_subscribe,
       handle_blockchain_outpoint_unsubscribe, do_outpoint_subscribe, emplace_outpoint,
       do_outpoint, read_funder
  <2>2. Keeps(Message, posts, posts', "height") /\ Keeps(Message, posts, posts', "header")
    BY <2>1, Zenon DEF Keeps
  <2> QED  BY <2>1, <2>2, ApartLatest, Zenon
<1>6. CASE complete_outpoint_subscribe \/ complete_outpoint_unsubscribe \/ outpoint_notify
  <2>1. UNCHANGED <<chain, owed, events, told, count, flags, missed>>
    BY <1>6, Zenon DEF node, histories, complete_outpoint_subscribe,
       complete_outpoint_unsubscribe,
       outpoint_notify
  <2>2. Keeps(Message, posts, posts', "height") /\ Keeps(Message, posts, posts', "header")
    BY <1>6, Zenon DEF complete_outpoint_subscribe, complete_outpoint_unsubscribe,
       outpoint_notify, Posted,
       Sent, Keeps, Drops
  <2> QED  BY <2>1, <2>2, ApartLatest, Zenon
<1>7. CASE \/ refuse_outpoint_subscribe \/ store_outpoint \/ do_outpoint_unsubscribe
           \/ notify_outpoint
  <2>1. UNCHANGED <<chain, owed, events, told, count, flags, missed>>
    BY <1>7, Zenon DEF node, client, histories, refuse_outpoint_subscribe, store_outpoint,
       do_outpoint_unsubscribe, notify_outpoint
  <2>2. posts' = posts \/ \E p \in Message : p.op \notin {"height", "header"} /\ posts' = Append(posts, p)
    BY <1>7, AnswerPosts, Zenon
  <2>3. Keeps(Message, posts, posts', "height") /\ Keeps(Message, posts, posts', "header")
    BY <2>2, Zenon DEF Keeps, Gains
  <2> QED  BY <2>1, <2>3, ApartLatest, Zenon
<1> QED  BY <1>1, <1>2, <1>3, <1>4, <1>5, <1>6, <1>7, StepCases, Zenon

\* A client of the channel that subscribes headers, or the height, knows the
\* top once all strands have drained, for any chain, any reorganizations and any
\* moment of an upgrade, unless handle_chase withheld the event of the top (over
\* http, or of headers between the read of the top and the store of the flag).
THEOREM HeaderCurrentAtRestTheorem == SpecAll => []HeaderCurrentAtRest
<1> DEFINE Inv == TypeInv /\ HalfInv /\ LatestInv
<1>1. InitAll => Inv  BY InitTypes, InitHalf, InitLatest, Zenon
<1>2. Inv /\ [NextAll]_all => Inv'  BY NextTypes, NextHalf, NextLatest, Zenon
<1>3. Inv => HeaderCurrentAtRest
  <2> SUFFICES ASSUME LatestInv, Rest
               PROVE  /\ "header" \notin missed => told \subseteq {Top}
                      /\ "height" \notin missed => count \subseteq {Len(chain)}
    BY Zenon DEF HeaderCurrentAtRest
  <2>1. /\ None(events, "organized") /\ None(posts, "header") /\ None(posts, "height")
        /\ owed = 0 /\ top.op = "none"
    BY DEF Rest, None, NoRead
  <2> QED  BY <2>1, Zenon DEF LatestInv, HeightLatest, HeaderLatest
<1> QED  BY <1>1, <1>2, <1>3, PTL DEF SpecAll

==============================================================================
