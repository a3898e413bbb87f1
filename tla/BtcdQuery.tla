------------------------------ MODULE BtcdQuery ------------------------------
(***************************************************************************)
(* The getters of protocol_btcd_utility.cpp, the searches of               *)
(* protocol_btcd_filter.cpp and the session methods of protocol_btcd.cpp,  *)
(* in the form described in BitcoindBlockchain.  The watches and their     *)
(* notifications are in BtcdFilter.                                        *)
(***************************************************************************)
EXTENDS Archive

CONSTANTS
    BtcdHistory,            \* btcd_options().maximum_history
    Peer, Group, Network    \* see BitcoindNetwork

LOCAL Json == INSTANCE BitcoindBlockchain
LOCAL Node == INSTANCE BitcoindNetwork

Pending == [pending |-> TRUE]
InvalidKey == Error("invalid_address_or_key")
InternalError == Error("internal_error")

-----------------------------------------------------------------------------
(* Getters.                                                                *)

MaximumHorizon == 1008              \* node::estimator::maximum_horizon

\* An estimate that is not available is an error here.
handle_estimate_fee(q, A) ==
    FirstOf(<<
        Return(~to_size(q.target) \/ q.target = 0 \/ q.target > MaximumHorizon,
               Error("invalid_params")),
        Return(q.verdict = "unavailable", Error("misc_error")),
        Return(q.verdict = "fault", InternalError) >>,
        Result([fee |-> q.target - 1]))

\* The hash and the height of the top are two reads.
handle_get_best_block(q, A) ==
    Result([hash |-> to_top_confirmed(A[1]), height |-> get_top_confirmed(A[2])])

handle_get_block_chain_info(q, A) == Result(Json!chain_info(A, 1))

\* kind is "filter" or "header".
get_cfilter(q, A, kind) ==
    LET link == to_header(A[1], q.hash) IN
    FirstOf(<<
        Return(q.hash = Bad, Error("deserialization_error")),
        Return(~q.basic \/ ~FilterEnabled, InvalidKey),
        Return(~is_associated(A[2], link), InvalidKey) >>,
        Result([block |-> link, kind |-> kind]))

handle_get_cfilter(q, A) == get_cfilter(q, A, "filter")
handle_get_cfilter_header(q, A) == get_cfilter(q, A, "header")

handle_get_current_net(q, A) == Result([identifier |-> TRUE])

handle_get_difficulty(q, A) ==
    LET link == to_top_confirmed(A[1]) IN
    FirstOf(<< Return(~has_header(link), InternalError) >>, Result([header |-> link]))

\* What follows the first locator that is confirmed (the genesis block is),
\* up to stop, by one read.
get_headers(a, locator, stop) ==
    LET held == SelectSeq(locator, LAMBDA b : b \in Block /\ is_confirmed_block(a, b))
        from == IF held = <<>> THEN 0 ELSE Height[Head(held)]
        after == SubSeq(a.conf, from + 2, Len(a.conf))
        ends == {i \in DOMAIN after : after[i] = stop}
    IN  IF ends = {} THEN after ELSE SubSeq(after, 1, CHOOSE i \in ends : TRUE)

handle_get_headers(q, A) ==
    FirstOf(<<
        Return(Bad \in Range(q.locator), Error("deserialization_error")),
        Return(q.stop = Bad, Error("deserialization_error")) >>,
        Result([headers |-> get_headers(A[1], q.locator, q.stop)]))

handle_get_info(q, A) ==
    LET link == to_top_confirmed(A[1]) IN
    FirstOf(<< Return(~has_header(link), InternalError) >>,
        Result([blocks |-> get_height(link), header |-> link,
                connections |-> Cardinality(A[2].peers), chain |-> to_confirmed(A[3], 0)]))

do_send_net_totals(q, totals) ==
    IF q.verdict = "fault" THEN InternalError ELSE Result(totals)

handle_get_net_totals(q, A) == do_send_net_totals(q, Node!capture_totals(A, 1))

\* connect is answered at once, the others by the node.
handle_node(q, A) ==
    FirstOf(<<
        Return(q.command = "connect" /\ q.connect \notin {"temp", "perm", ""},
               Error("invalid_parameter")),
        Return(q.command \notin {"connect", "remove", "disconnect"}, Error("invalid_parameter")),
        Return(q.node = Bad, Error("invalid_parameter")),
        Return(q.command = "connect", Null) >>,
        Pending)

do_send_stopped(q, v, A) ==
    FirstOf(<<
        Return(v.code = "success", Null),
        Return(q.command = "remove", Error("client_node_not_added")) >>,
        Error("client_node_not_connected"))

handle_version(q, A) == Result([major |-> 1, minor |-> 3])

handle_session(q, A) == Result([id |-> TRUE])

-----------------------------------------------------------------------------
(* Searches.                                                               *)

\* Inputs and outputs are those of the filter, when there is one.
search_transaction(A, i, q, t) ==
    LET kept(k) == q.filter = {} \/ k \in q.filter
        populated == (q.prevouts \/ q.filter # {}) /\ ~IsCoinbase(t) /\ populate(A[i + 3], t)
    IN  [context |-> Json!inject_tx_context(A, i, t),
         vin |-> IF populated THEN {o \in Spends(t) : kept(Pays[o[1]][o[2]])} ELSE Spends(t),
         vout |-> {o \in Outs(t) : kept(Pays[o[1]][o[2]])}]

\* The history is one read, the context of each transaction its own.
do_search_raw_transactions(q, A) ==
    LET history == get_confirmed_history(A[1], q.key)
        order == SetToSortSeq(history,
                    LAMBDA x, y : IF q.reverse THEN x[2] > y[2] ELSE x[2] < y[2])
        skip == IF q.skip < 0 THEN 0 ELSE q.skip
        count == IF q.count < 1 THEN 1 ELSE q.count
        page == SubSeq(order, skip + 1, Lesser(skip + count, Len(order)))
    IN  FirstOf(<<
        Return(Cardinality(history) > BtcdHistory, InternalError),
        Return(page = <<>>, InvalidKey),
        Return(~q.verbose, Result([txs |-> [i \in DOMAIN page |-> page[i][1]]])) >>,
        Result([txs |-> [i \in DOMAIN page |-> search_transaction(A, 2, q, page[i][1])]]))

handle_search_raw_transactions(q, A) ==
    FirstOf(<<
        Return(~AddressEnabled, Error("misc_error")),
        Return(q.key = Bad, InvalidKey),
        Return(~to_int(q.skip) \/ ~to_int(q.count), Error("invalid_params")),
        Return(q.count = 0, Null),
        Return(Bad \in q.filter, Error("invalid_params")) >>,
        do_search_raw_transactions(q, A))

\* q.watched are the keys that are watched.  The history is searched at the
\* height of the block that is named.
do_rescan_watches(q, A) ==
    LET link == to_header(A[1], q.hash)
        matched == {t \in {h[1] : h \in UNION {get_confirmed_history(A[2], k) : k \in q.watched}} :
                        get_tx_height(A[2], t) = get_height(link)}
    IN  FirstOf(<<
        Return(link = Terminal, InvalidKey),
        Return(matched = {}, Result([discovered |-> {}])) >>,
        Result([discovered |-> {[hash |-> link, transactions |-> matched]}]))

handle_rescan_blocks(q, A) ==
    FirstOf(<<
        Return(q.hash = "nonarray", Error("invalid_params")),
        Return(q.hash = Bad, InternalError),
        Return(~AddressEnabled, Error("unimplemented")) >>,
        do_rescan_watches(q, A))

\* Only for no addresses and no outpoints; the end of the scan is notified.
handle_rescan(q, A) ==
    LET top == to_top_confirmed(A[2]) IN
    FirstOf(<<
        Return(q.hash = Bad \/ to_header(A[1], q.hash) = Terminal, InvalidKey),
        Return(q.watched # {}, Error("unimplemented")),
        Return(~has_header(top), InternalError) >>,
        Result([finished |-> top, height |-> get_height(top)]))
-----------------------------------------------------------------------------
\* The handler of a method (protocol_btcd::start).
Subscribed(q, A) ==
    CASE q.method = "estimate_fee" -> handle_estimate_fee(q, A)
      [] q.method = "get_best_block" -> handle_get_best_block(q, A)
      [] q.method = "get_block_chain_info" -> handle_get_block_chain_info(q, A)
      [] q.method = "get_cfilter" -> handle_get_cfilter(q, A)
      [] q.method = "get_cfilter_header" -> handle_get_cfilter_header(q, A)
      [] q.method = "get_current_net" -> handle_get_current_net(q, A)
      [] q.method = "get_difficulty" -> handle_get_difficulty(q, A)
      [] q.method = "get_headers" -> handle_get_headers(q, A)
      [] q.method = "get_info" -> handle_get_info(q, A)
      [] q.method = "get_net_totals" -> handle_get_net_totals(q, A)
      [] q.method = "node" -> handle_node(q, A)
      [] q.method = "version" -> handle_version(q, A)
      [] q.method = "session" -> handle_session(q, A)
      [] q.method = "search_raw_transactions" -> handle_search_raw_transactions(q, A)
      [] q.method = "rescan_blocks" -> handle_rescan_blocks(q, A)
      [] q.method = "rescan" -> handle_rescan(q, A)

\* The answer once the node has given verdict v.
Completed(q, v, A) ==
    CASE q.method = "node" -> do_send_stopped(q, v, A)
=============================================================================
