--------------------------- MODULE BitcoindNetwork ---------------------------
(***************************************************************************)
(* The handlers of protocol_bitcoind_network.cpp and the diagnostic rounds *)
(* of protocol_bitcoind.cpp, in the form described in BitcoindBlockchain.  *)
(*                                                                         *)
(* Of a snapshot they read the peer channels that are connected (peers),   *)
(* those that were (closed), the addresses of the pool and whether the     *)
(* network is suspended.  A broadcast is received by every channel in its  *)
(* own time: the channels of a round are those of the read at which it is  *)
(* sent, and a row is captured of each one that is still connected at the  *)
(* next.  A handler that has the node stop a channel returns Pending, and  *)
(* complete_x is its answer.                                               *)
(***************************************************************************)
EXTENDS Archive

CONSTANTS
    Peer,           \* channels
    Group,          \* Group[p]: "inbound", "outbound" or "manual"
    Network         \* Network[p]: the network of the address of p

Pending == [pending |-> TRUE]

Terminate(a, gone) ==
    [a EXCEPT !.peers = @ \ gone, !.closed = @ \union (gone \intersect a.peers)]

\* The rows of a round that is sent to the channels of one group, or of all.
Captured(A, i, target) ==
    {p \in A[i].peers \intersect A[i + 1].peers : target \in {"all", Group[p]}}

-----------------------------------------------------------------------------
(* Totals.                                                                 *)

\* Mutant: rows are added whether or not the channel has closed since.
do_invoke_totals_all(captured, a) ==
    [rows |-> captured, accumulated |-> a.closed]

\* A channel is counted by its row or, when closed, by the totals.
do_invoke_totals(captured, a) ==
    [rows |-> captured \intersect a.peers, accumulated |-> a.closed]

\* The totals are fetched when the round is complete.
capture_totals(A, i) == do_invoke_totals(Captured(A, i, "all"), A[i + 2])

do_send_net_totals(q, totals) ==
    IF q.verdict = "fault" THEN Error("misc_error") ELSE Result(totals)

handle_get_net_totals(q, A) == do_send_net_totals(q, capture_totals(A, 1))

-----------------------------------------------------------------------------
(* Reports.                                                                *)

handle_get_network_info(q, A) ==
    LET connections == Cardinality(A[1].peers)
        inbound == Cardinality({p \in A[2].peers : Group[p] = "inbound"})
    IN  Result([connections |-> connections, connections_in |-> inbound,
                connections_out |-> FlooredSubtract(connections, inbound),
                networkactive |-> ~A[3].suspended])

handle_get_connection_count(q, A) == Result([connections |-> Cardinality(A[1].peers)])

\* Addresses of the pool by network; none has been tried.
handle_get_addrman_info(q, A) ==
    Result([n \in Range(Network) |-> Cardinality({p \in A[1].hosts : Network[p] = n})])

\* The whole pool when the count is zero; an empty pool is no error.
do_send_nodes(q, a) ==
    LET named == {p \in a.hosts : q.network \in {Absent, Network[p]}}
    IN  Result([number |-> IF q.count = 0 THEN Cardinality(named)
                           ELSE Lesser(q.count, Cardinality(named))])

handle_get_node_addresses(q, A) ==
    FirstOf(<<
        Return(~to_size(q.count) \/ q.network = Bad, Error("invalid_parameter")) >>,
        do_send_nodes(q, A[1]))

\* Nodes that are added and connected; one that is asked for must be.
do_send_added_node_info(q, captured) ==
    LET out == {p \in captured : q.node \in {Absent, p}}
    IN  FirstOf(<< Return(q.node # Absent /\ out = {}, Error("client_node_not_added")) >>,
            Result([nodes |-> out]))

handle_get_added_node_info(q, A) ==
    do_send_added_node_info(q, Captured(A, 1, "manual"))

do_send_peer_info(captured) ==
    Result({[id |-> p, connection_type |-> Group[p], network |-> Network[p]] : p \in captured})

handle_get_peer_info(q, A) == do_send_peer_info(Captured(A, 1, "all"))

\* clearbanned, listbanned and setban: there is no ban list.
handle_clear_banned(q, A) == Error("database_error")
handle_list_banned(q, A) == Error("database_error")
handle_set_ban(q, A) == Error("database_error")
handle_export_asmap(q, A) == Error("misc_error")
handle_ping(q, A) == Null

-----------------------------------------------------------------------------
(* Changes.                                                                *)

\* connect() is asynchronous, so an added node is answered at once.
handle_add_node(q, A) ==
    FirstOf(<<
        Return(q.v2transport, Error("invalid_parameter")),
        Return(q.command \notin {"add", "onetry", "remove"}, Error("misc_error")),
        Return(q.node = Bad, Error("invalid_parameter")),
        Return(q.command = "remove", Pending) >>,
        Null)

handle_disconnect_node(q, A) ==
    FirstOf(<<
        Return((q.node = Absent) = (q.nodeid = Absent), Error("invalid_parameter")),
        Return(q.nodeid = Bad, Error("invalid_parameter")),
        Return(q.node = Bad, Error("invalid_parameter")) >>,
        Pending)

\* The channels that a terminator names.
Named(q) == {p \in Peer : p \in {q.node, q.nodeid}}

do_send_stopped(q, v) ==
    FirstOf(<<
        Return(v.code # "success" /\ q.method = "add_node", Error("client_node_not_added")),
        Return(v.code # "success", Error("client_node_not_connected")) >>,
        Null)

complete_stopped(q, v, A) == do_send_stopped(q, v)

\* Resume is refused when the store is full (q.full).
handle_set_network_active(q, A) == Result([active |-> q.state /\ ~q.full])

\* What it leaves.
NetworkActive(a, q) == [a EXCEPT !.suspended = ~q.state \/ (q.full /\ @)]
-----------------------------------------------------------------------------
\* The handler of a method (protocol_bitcoind_network::start).
Subscribed(q, A) ==
    CASE q.method = "get_net_totals" -> handle_get_net_totals(q, A)
      [] q.method = "get_network_info" -> handle_get_network_info(q, A)
      [] q.method = "get_connection_count" -> handle_get_connection_count(q, A)
      [] q.method = "get_addrman_info" -> handle_get_addrman_info(q, A)
      [] q.method = "get_node_addresses" -> handle_get_node_addresses(q, A)
      [] q.method = "get_added_node_info" -> handle_get_added_node_info(q, A)
      [] q.method = "get_peer_info" -> handle_get_peer_info(q, A)
      [] q.method = "clear_banned" -> handle_clear_banned(q, A)
      [] q.method = "list_banned" -> handle_list_banned(q, A)
      [] q.method = "set_ban" -> handle_set_ban(q, A)
      [] q.method = "export_asmap" -> handle_export_asmap(q, A)
      [] q.method = "ping" -> handle_ping(q, A)
      [] q.method = "add_node" -> handle_add_node(q, A)
      [] q.method = "disconnect_node" -> handle_disconnect_node(q, A)
      [] q.method = "set_network_active" -> handle_set_network_active(q, A)

\* The answer once the node has given verdict v.
Completed(q, v, A) ==
    CASE q.method = "add_node" -> complete_stopped(q, v, A)
      [] q.method = "disconnect_node" -> complete_stopped(q, v, A)
=============================================================================
