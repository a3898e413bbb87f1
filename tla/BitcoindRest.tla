------------------------------ MODULE BitcoindRest ------------------------------
(***************************************************************************)
(* The handlers of protocol_bitcoind_rest.cpp, in the form described in    *)
(* BitcoindBlockchain.  A response is sent as data, text or json; another  *)
(* media is not found.                                                     *)
(***************************************************************************)
EXTENDS Archive

LOCAL Json == INSTANCE BitcoindBlockchain

NotFound == Error("not_found")
BadRequest == Error("bad_request")
ServerError == Error("internal_server_error")

\* send_data, send_text and send_json.
Send(q, value) ==
    IF q.media \in {"data", "text", "json"} THEN Result(value) ELSE NotFound

MaxGetHeaders == 2000               \* messages::peer::max_get_headers
MaximumOutpoints == 15
MempoolHeight == 1000000            \* above any height (0x7fffffff)

handle_get_block(q, A) ==
    LET link == to_header(A[1], q.hash) IN
    FirstOf(<<
        Return(q.hash = Absent, NotFound),
        Return(~is_associated(A[2], link), NotFound) >>,
        Send(q, [block |-> link]))

handle_get_tx(q, A) ==
    LET link == to_tx(A[1], q.txid) IN
    FirstOf(<<
        Return(q.txid = Absent, NotFound),
        Return(link = Terminal, NotFound),
        Return(q.media = "json",
               Result([tx |-> link, context |-> Json!inject_tx_context(A, 2, link)])) >>,
        Send(q, [tx |-> link]))

handle_get_block_hash(q, A) ==
    LET link == to_confirmed(A[1], q.height) IN
    FirstOf(<< Return(link = Terminal, NotFound) >>, Send(q, [hash |-> link]))

handle_get_block_txs(q, A) ==
    LET link == to_header(A[1], q.hash) IN
    FirstOf(<<
        Return(q.hash = Absent, NotFound),
        Return(~is_associated(A[2], link), NotFound) >>,
        Send(q, [txs |-> link]))

handle_get_block_headers(q, A) ==
    LET link == to_header(A[1], q.hash)
        headers == get_confirmed_headers(A[3], get_height(link), Lesser(q.count, MaxGetHeaders))
    IN  FirstOf(<<
        Return(q.hash = Absent \/ q.count = 0, NotFound),
        Return(~is_confirmed_block(A[2], link), NotFound),
        Return(~has_header(link), ServerError),
        Return(headers = <<>>, NotFound) >>,
        Send(q, [headers |-> headers]))

\* part says whether the offset and size lie in the block.
handle_get_block_part(q, A) ==
    LET link == to_header(A[1], q.hash) IN
    FirstOf(<<
        Return(q.hash = Absent, NotFound),
        Return(~is_associated(A[2], link), NotFound),
        Return(q.part = "beyond", BadRequest),
        Return(q.media \notin {"data", "text"}, BadRequest) >>,
        Result([part |-> link]))

handle_get_block_spent_tx_outputs(q, A) ==
    LET link == to_header(A[1], q.hash)
        spending == {t \in Range(tx_keys(A[3], link)) : ~IsCoinbase(t)}
    IN  FirstOf(<<
        Return(q.hash = Absent, NotFound),
        Return(~is_confirmed_block(A[2], link), NotFound),
        Return(\E t \in spending : ~populate(A[3], t), ServerError) >>,
        Send(q, [block |-> link, spent |-> UNION {Prevouts[t] : t \in spending}]))

handle_get_block_filter(q, A) ==
    LET link == to_header(A[1], q.hash) IN
    FirstOf(<<
        Return(q.hash = Absent \/ ~FilterEnabled, NotFound),
        Return(~is_associated(A[2], link), NotFound) >>,
        Send(q, [filter |-> link]))

handle_get_block_filter_headers(q, A) ==
    LET link == to_header(A[1], q.hash)
        headers == get_confirmed_headers(A[3], get_height(link), Lesser(q.count, MaxGetHeaders))
    IN  FirstOf(<<
        Return(q.hash = Absent \/ ~FilterEnabled, NotFound),
        Return(~is_confirmed_block(A[2], link), NotFound),
        Return(~has_header(link), ServerError),
        Return(headers = <<>>, NotFound),
        Return(\E b \in Range(headers) : ~is_associated(A[4], b), ServerError) >>,
        Send(q, [heads |-> headers]))

handle_get_chain_information(q, A) ==
    LET link == to_top_confirmed(A[1]) IN
    FirstOf(<< Return(~has_header(link), NotFound) >>,
        Result([blocks |-> get_height(link), bestblockhash |-> link,
                chain |-> to_confirmed(A[2], 0),
                headers |-> get_top_candidate(A[3]),
                mediantime |-> Json!median_time(A, 4, link)]))

\* One outpoint.  is_confirmed_output is that of its transaction.
handle_get_utxos(q, A) ==
    LET out == to_output(A[1], q.txid, q.n)
        t == out[1]
        confirmed == is_confirmed_tx(A[2], t)
        pooled == /\ q.mempool /\ ~confirmed /\ t # Terminal
                  /\ is_pooled(A[3], t) /\ is_confirmable_tx(A[4], t)
        spent == \/ is_confirmed_spent(A[5], out)
                 \/ q.mempool /\ is_confirmable_spent(A[6], out)
        hit == (confirmed \/ pooled) /\ ~spent
        height == IF confirmed THEN get_tx_height(A[7], t) ELSE MempoolHeight
        top == to_top_confirmed(A[8])
    IN  FirstOf(<<
        Return(q.outpoints = 0 \/ q.outpoints > MaximumOutpoints, BadRequest),
        Return(hit /\ confirmed /\ ~is_confirmed_tx(A[7], t), ServerError),
        Return(~has_header(top), ServerError) >>,
        Send(q, [chainHeight |-> get_height(top), chaintipHash |-> top, hit |-> hit,
                 utxos |-> IF hit THEN {<<out, height>>} ELSE {}]))

handle_get_mempool(q, A) ==
    FirstOf(<< Return(q.verbose /\ q.sequence, BadRequest) >>,
        Result(Json!raw_mempool(A, 1, q.verbose, q.sequence)))

handle_get_mempool_information(q, A) == Result(Json!mempool_info(A, 1))

handle_get_deployment_info(q, A) ==
    LET link == IF q.hash = Absent THEN to_top_confirmed(A[1])
                ELSE to_header(A[2], q.hash)
    IN  FirstOf(<<
        Return(q.hash # Absent /\ link = Terminal, BadRequest),
        Return(~has_header(link), ServerError) >>,
        Result(Json!deployment_info(link)))
-----------------------------------------------------------------------------
\* The handler of a method (protocol_bitcoind_rest::start).
Subscribed(q, A) ==
    CASE q.method = "get_block" -> handle_get_block(q, A)
      [] q.method = "get_tx" -> handle_get_tx(q, A)
      [] q.method = "get_block_hash" -> handle_get_block_hash(q, A)
      [] q.method = "get_block_txs" -> handle_get_block_txs(q, A)
      [] q.method = "get_block_headers" -> handle_get_block_headers(q, A)
      [] q.method = "get_block_part" -> handle_get_block_part(q, A)
      [] q.method = "get_block_spent_tx_outputs" -> handle_get_block_spent_tx_outputs(q, A)
      [] q.method = "get_block_filter" -> handle_get_block_filter(q, A)
      [] q.method = "get_block_filter_headers" -> handle_get_block_filter_headers(q, A)
      [] q.method = "get_chain_information" -> handle_get_chain_information(q, A)
      [] q.method = "get_utxos" -> handle_get_utxos(q, A)
      [] q.method = "get_mempool" -> handle_get_mempool(q, A)
      [] q.method = "get_mempool_information" -> handle_get_mempool_information(q, A)
      [] q.method = "get_deployment_info" -> handle_get_deployment_info(q, A)
=============================================================================
