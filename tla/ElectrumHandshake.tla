-------------------------- MODULE ElectrumHandshake --------------------------
(***************************************************************************)
(* The version handshake of an electrum (or sparrow) channel:              *)
(* protocol_electrum_version.cpp, utilities/electrum_version.cpp and the   *)
(* attachment it gates in session_handshake.hpp.                           *)
(*                                                                         *)
(* The handshake protocol is attached first and holds the session's        *)
(* completion handler.  The session attaches the electrum protocol and     *)
(* resumes the channel when the handler succeeds, and stops the channel    *)
(* when it fails.  The handshake protocol stays attached: a later          *)
(* server.version reaches it again.                                        *)
(*                                                                         *)
(* A version major.minor.patch is the number 10000 major + 100 minor +     *)
(* patch.  Client names and the wording of responses are left out.         *)
(***************************************************************************)
EXTENDS Naturals, Sequences

CONSTANTS
    ProtocolMinimum, ProtocolMaximum,   \* configured, need not be defined versions
    ClientVersion,                      \* versions that clients may name
    MaxRequests                         \* bound: requests of the client

ASSUME VersionAssumption ==
    /\ ProtocolMinimum \in Nat /\ ProtocolMaximum \in Nat
    /\ ClientVersion \subseteq Nat

VARIABLES
    handler,        \* "held" (handler_ is set) or "reset"
    calls,          \* history: codes the session's handler was called with
    paused,         \* the channel does not receive
    attached,       \* the electrum protocol is attached and started
    restricted, negotiated, version,    \* channel_electrum
    sending,        \* results of sends in progress, each the code for finished
    stopped, asked

channel == <<restricted, negotiated, version>>
vars == <<handler, calls, paused, attached, channel, sending, stopped, asked>>

-----------------------------------------------------------------------------
(* Versions.                                                               *)

v0_0 == 0
v1_4 == 10400
v1_6 == 10600
restricted_maximum == 10402

Defined == {v0_0, 600, 800, 900, 1000, 10000, 10100, 10200, 10300, v1_4, 10401,
            restricted_maximum, v1_6, 10700}

Larger(a, b) == IF a > b THEN a ELSE b
Smaller(a, b) == IF a < b THEN a ELSE b

\* The greatest defined version that does not exceed value.
version_floor(value) ==
    CHOOSE d \in Defined : d <= value /\ \A e \in Defined : e <= value => e <= d

\* A request is not well formed, or names a range (one version is both ends).
Request == [valid : BOOLEAN, min : ClientVersion, max : ClientVersion]

negotiate(r, minimum, maximum) ==
    LET lower == Larger(r.min, minimum)
        floor == version_floor(Smaller(r.max, maximum))
    IN  IF ~r.valid \/ floor < lower THEN v0_0 ELSE floor

\* Mutant: a non-version opener does not restrict negotiation.
Maximum_unrestricted == ProtocolMaximum

\* A non-version opener restricts negotiation to below 1.6.
Maximum == IF restricted THEN Smaller(ProtocolMaximum, restricted_maximum)
                         ELSE ProtocolMaximum

-----------------------------------------------------------------------------
(* The channel strand.                                                     *)

\* Mutant: the handler is kept after completion.
finished_kept(code) ==
    /\ calls' = IF handler = "held" THEN Append(calls, code) ELSE calls
    /\ handler' = handler

\* Mutant: a failed handshake does not call the handler.
finished_success_only(code) ==
    IF code = "success"
    THEN /\ calls' = IF handler = "held" THEN Append(calls, code) ELSE calls
         /\ handler' = "reset"
    ELSE UNCHANGED <<calls, handler>>

\* Call the handler with the code of the handshake, at most once.
finished(code) ==
    /\ calls' = IF handler = "held" THEN Append(calls, code) ELSE calls
    /\ handler' = "reset"

\* The channel reads the next request once it is not paused and the response
\* to the last is sent (half duplex).
Receive ==
    /\ ~stopped /\ ~paused /\ sending = {} /\ asked < MaxRequests
    /\ asked' = asked + 1

\* Mutant: a repeat need not agree with the negotiated version.
Agreed_always(v) == v # v0_0

\* set_version accepts v: below 1.4 a repeat must agree with the negotiated.
Agreed(v) == v # v0_0 /\ (negotiated => v = version)

\* Mutant: the channel is left receiving while the response is sent.
pause_never == UNCHANGED paused

\* Handshake must leave the channel paused, no more receives after this one.
pause == paused' = (paused \/ handler = "held")

handle_server_version(r) ==
    LET v == negotiate(r, ProtocolMinimum, Maximum) IN
    /\ Receive
    /\ pause
    /\ \/ /\ negotiated /\ version >= v1_4
          /\ sending' = {"success"}
          /\ UNCHANGED <<channel, stopped>>
       \/ /\ ~(negotiated /\ version >= v1_4) /\ Agreed(v)
          /\ version' = v /\ negotiated' = TRUE
          /\ sending' = {"success"}
          /\ UNCHANGED <<restricted, stopped>>
       \/ /\ ~(negotiated /\ version >= v1_4) /\ ~Agreed(v)
          /\ IF handler = "held"
             THEN sending' = {"bad_request"} /\ UNCHANGED stopped
             ELSE stopped' = TRUE /\ UNCHANGED sending
          /\ UNCHANGED channel
    /\ UNCHANGED <<handler, calls, attached>>

\* A method other than server.version.  In the handshake it is a pre-1.6
\* client, which passes at the minimum version (the opener is not answered);
\* afterwards it is left to the electrum protocol, which responds.
handle_unclaimed ==
    /\ Receive
    /\ pause
    /\ \/ /\ handler = "held"
          /\ restricted' = TRUE
          /\ version' = version_floor(ProtocolMinimum)
          /\ finished("success")
          /\ UNCHANGED <<negotiated, sending>>
       \/ /\ handler # "held"
          /\ sending' = {"success"}
          /\ UNCHANGED <<handler, calls, channel>>
    /\ UNCHANGED <<attached, stopped>>

\* A send completes, with finished as its completion, or fails and stops.
SendComplete ==
    /\ sending # {} /\ ~stopped
    /\ \E code \in sending : finished(code)
    /\ sending' = {}
    /\ UNCHANGED <<paused, attached, channel, stopped, asked>>

\* The session (external): attach and resume, or stop.
HandshakeComplete ==
    /\ ~stopped /\ ~attached
    /\ \/ /\ calls # <<>> /\ Head(calls) = "success"
          /\ attached' = TRUE /\ paused' = FALSE
          /\ UNCHANGED stopped
       \/ /\ calls # <<>> /\ Head(calls) # "success"
          /\ stopped' = TRUE
          /\ UNCHANGED <<attached, paused>>
    /\ UNCHANGED <<handler, calls, channel, sending, asked>>

\* The channel stops: a failed send, the peer, a timeout, the server.
Stop ==
    /\ ~stopped
    /\ stopped' = TRUE
    /\ UNCHANGED <<handler, calls, paused, attached, channel, sending, asked>>

-----------------------------------------------------------------------------
\* shake has stored the handler and the session has resumed the channel.
Init ==
    /\ handler = "held" /\ calls = <<>> /\ paused = FALSE /\ attached = FALSE
    /\ restricted = FALSE /\ negotiated = FALSE /\ version = v0_0
    /\ sending = {} /\ stopped = FALSE /\ asked = 0

Next ==
    \/ \E r \in Request : handle_server_version(r)
    \/ handle_unclaimed
    \/ SendComplete
    \/ HandshakeComplete
    \/ Stop

\* A send completes and the session acts on its handler; clients need not send.
Spec == Init /\ [][Next]_vars /\ WF_vars(SendComplete) /\ WF_vars(HandshakeComplete)
-----------------------------------------------------------------------------
(* Properties.                                                             *)

\* The session's handler is called once, by whichever of the opener and the
\* completions of responses comes first, and only then is anything attached
\* (session_handshake.hpp: "must invoke handler one time at completion").  From
\* the request that decides the handshake until then the channel is paused, so
\* no request is received that only the handshake protocol would see.
HandlerOnce ==
    /\ handler = "held" <=> calls = <<>>
    /\ Len(calls) <= 1
    /\ attached => calls = <<"success">>
    /\ ~stopped /\ ~attached /\ (calls # <<>> \/ sending # {}) => paused

\* A negotiated version is a defined one within the configured bounds, and below
\* 1.6 after a non-version opener.
NegotiatedWithinBounds ==
    negotiated =>
        /\ version \in Defined \ {v0_0}
        /\ ProtocolMinimum <= version /\ version <= ProtocolMaximum
        /\ restricted => version < v1_6

\* "negotiation is numeric and settles on the greatest defined version in the
\* overlap" (electrum_version.cpp): negotiate against its reference definition.
NegotiatesGreatest ==
    \A r \in Request :
        LET overlap == {d \in Defined \ {v0_0} :
                           /\ r.valid /\ r.min <= d /\ d <= r.max
                           /\ ProtocolMinimum <= d /\ d <= Maximum}
            v == negotiate(r, ProtocolMinimum, Maximum)
        IN  IF overlap = {} THEN v = v0_0
            ELSE v \in overlap /\ \A d \in overlap : d <= v

\* Once negotiated the version never changes: a repeat is refused from 1.4, and
\* below it either agrees or stops the channel.
VersionFixed ==
    [][negotiated => negotiated' /\ version' = version]_vars

\* The first request is followed by the attachment or the end of the channel.
HandshakeEnds == asked > 0 ~> attached \/ stopped
=============================================================================
