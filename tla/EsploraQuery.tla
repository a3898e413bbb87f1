----------------------------- MODULE EsploraQuery -----------------------------
(***************************************************************************)
(* The handlers of protocol_esplora_block.cpp, _transaction.cpp,           *)
(* _address.cpp and _mempool.cpp, in the form described in                 *)
(* BitcoindBlockchain.  A method answers in one media and declines others. *)
(***************************************************************************)
EXTENDS Archive

CONSTANTS
    TxPage,             \* transactions of a page of a block (25)
    BlockPage,          \* blocks of a page (10)
    AddressPage,        \* confirmed transactions of a page (25)
    EsploraHistory      \* options().maximum_history

LOCAL Json == INSTANCE BitcoindBlockchain
LOCAL Package == INSTANCE BitcoindTransaction
LOCAL Index == INSTANCE ElectrumQuery WITH
    Chunk <- 1, MaximumHeaders <- 1, MaxSize <- 1, MaximumHistory <- EsploraHistory

Pending == [pending |-> TRUE]
NotFound == Error("not_found")
BadRequest == Error("bad_request")
ServerError == Error("internal_server_error")
Only(q, media) == Return(q.media # media, Error("not_acceptable"))

-----------------------------------------------------------------------------
(* Serializers.                                                            *)

\* A block that is not associated is not serialized.
to_block(A, i, link) ==
    [id |-> link, height |-> get_height(link), mediantime |-> Json!median_time(A, i, link)]

to_status(a, t) ==
    LET block == find_confirmed_block(a, t)
    IN  IF block = Terminal THEN [confirmed |-> FALSE]
        ELSE [confirmed |-> TRUE, block_height |-> get_height(block), block_hash |-> block]

\* The fee is zero unless each prevout is stored.
to_tx_object(A, i, t) ==
    [txid |-> t, fee |-> ~IsCoinbase(t) /\ populate(A[i], t), status |-> to_status(A[i + 1], t)]

\* A confirmed spender before one of the mempool.
to_outspend(A, i, o) ==
    LET sunk == find_confirmed_spender(A[i], o)
        spender == IF sunk # Terminal THEN sunk ELSE find_confirmable_spender(A[i + 1], o)
    IN  IF spender = Terminal THEN [spent |-> FALSE]
        ELSE [spent |-> TRUE, txid |-> spender, status |-> to_status(A[i + 2], spender)]

-----------------------------------------------------------------------------
(* Block methods.                                                          *)

handle_get_block(q, A) ==
    LET link == to_header(A[1], q.hash) IN
    FirstOf(<<
        Return(link = Terminal, NotFound),
        Return(q.media \notin {"data", "json"}, Error("not_acceptable")),
        Return(~is_associated(A[2], link), NotFound),
        Return(q.media = "data", Result([block |-> link])) >>,
        Result(to_block(A, 3, link)))

\* start is aligned to a page.
handle_get_block_txs(q, A) ==
    LET txs == tx_keys(A[2], to_header(A[1], q.hash))
        page == SubSeq(txs, q.start + 1, Lesser(q.start + TxPage, Len(txs)))
    IN  FirstOf(<<
        Only(q, "json"),
        Return(q.start % TxPage # 0, BadRequest),
        Return(q.start >= Len(txs), NotFound) >>,
        Result([i \in DOMAIN page |-> to_tx_object(A, 3, page[i])]))

handle_get_block_header(q, A) ==
    LET link == to_header(A[1], q.hash) IN
    FirstOf(<< Only(q, "text"), Return(~has_header(link), NotFound) >>,
        Result([header |-> link]))

handle_get_block_status(q, A) ==
    LET link == to_header(A[1], q.hash)
        height == get_height(link)
        confirmed == is_confirmed_block(A[2], link)
    IN  FirstOf(<<
        Only(q, "json"),
        Return(link = Terminal, NotFound),
        Return(~confirmed \/ height >= get_top_confirmed(A[3]),
               Result([in_best_chain |-> confirmed])) >>,
        Result([in_best_chain |-> TRUE,
                next_best |-> get_header_key(to_confirmed(A[4], height + 1))]))

handle_get_block_txids(q, A) ==
    LET keys == tx_keys(A[2], to_header(A[1], q.hash)) IN
    FirstOf(<< Only(q, "json"), Return(keys = <<>>, NotFound) >>, Result([txids |-> keys]))

handle_get_block_txid(q, A) ==
    LET keys == tx_keys(A[2], to_header(A[1], q.hash)) IN
    FirstOf(<<
        Only(q, "text"),
        Return(q.pos >= Len(keys), NotFound) >>,
        Result([txid |-> IF q.pos < Len(keys) THEN keys[q.pos + 1] ELSE Terminal]))

handle_get_block_height(q, A) ==
    LET link == to_confirmed(A[1], q.height) IN
    FirstOf(<< Only(q, "text"), Return(link = Terminal, NotFound) >>, Result([hash |-> link]))

\* Downward from start (-1 is the top), each block by a read of its own.  The
\* blocks of a page past its third are read with the third.
handle_get_blocks(q, A) ==
    LET top == get_top_confirmed(A[1])
        start == IF q.height < 0 THEN top ELSE q.height
        count == Lesser(BlockPage, start + 1)
        links == [i \in 1..count |-> to_confirmed(A[1 + Lesser(i, 3)], start - i + 1)]
        missing == {i \in 1..count : ~is_associated(A[5], links[i])}
        end == IF missing = {} THEN count
               ELSE (CHOOSE i \in missing : \A j \in missing : i <= j) - 1
    IN  FirstOf(<< Only(q, "json"), Return(start > top, NotFound) >>,
        Result([blocks |-> SubSeq(links, 1, end)]))

handle_get_tip_height(q, A) ==
    FirstOf(<< Only(q, "text") >>, Result([count |-> get_top_confirmed(A[1])]))

handle_get_tip_hash(q, A) ==
    FirstOf(<< Only(q, "text") >>, Result([hash |-> to_top_confirmed(A[1])]))

-----------------------------------------------------------------------------
(* Transaction methods.                                                    *)

handle_get_tx(q, A) ==
    LET link == to_tx(A[1], q.txid) IN
    FirstOf(<<
        Return(link = Terminal, NotFound),
        Return(q.media = "json", Result(to_tx_object(A, 2, link))),
        Return(q.media \notin {"data", "text"}, Error("not_acceptable")) >>,
        Result([tx |-> link]))

handle_get_tx_status(q, A) ==
    LET link == to_tx(A[1], q.txid) IN
    FirstOf(<< Only(q, "json"), Return(link = Terminal, NotFound) >>,
        Result(to_status(A[2], link)))

handle_get_tx_merkleblock_proof(q, A) ==
    LET link == find_confirmed_block(A[1], q.txid)
        keys == tx_keys(A[3], link)
    IN  FirstOf(<<
        Only(q, "text"),
        Return(~is_associated(A[2], link), NotFound),
        Return(keys = <<>>, ServerError),
        Return(Cardinality({i \in DOMAIN keys : keys[i] = q.txid}) # 1, NotFound) >>,
        Result([block |-> link, matched |-> {q.txid}]))

handle_get_tx_merkle_proof(q, A) ==
    LET block == find_confirmed_block(A[2], to_tx(A[1], q.txid))
        keys == tx_keys(A[3], block)
    IN  FirstOf(<<
        Only(q, "json"),
        Return(block = Terminal, NotFound),
        Return(q.txid \notin Range(keys), NotFound) >>,
        Result([block |-> block, pos |-> CHOOSE i \in DOMAIN keys : keys[i] = q.txid]))

\* An index that the transaction does not have is not spent.
handle_get_tx_outspend(q, A) ==
    LET link == to_tx(A[1], q.txid) IN
    FirstOf(<< Only(q, "json"), Return(link = Terminal, NotFound) >>,
        Result(to_outspend(A, 2, <<q.txid, q.n + 1>>)))

handle_get_tx_outspends(q, A) ==
    LET link == to_tx(A[1], q.txid) IN
    FirstOf(<< Only(q, "json"), Return(link = Terminal, NotFound) >>,
        Result([outspends |-> [i \in DOMAIN PaysOf(q.txid) |-> to_outspend(A, 2, <<q.txid, i>>)]]))

handle_broadcast(q, A) ==
    FirstOf(<<
        Only(q, "text"),
        Return(q.encoding # "witness", Error("rejected")) >>,
        Pending)

\* Mutant: a transaction that is stored is refused.
complete_submit_tx_new(q, v, A) ==
    IF v.code = "success" THEN Result([txid |-> q.txs[1]]) ELSE Error("rejected")

complete_submit_tx(q, v, A) ==
    IF v.code \in {"success", "duplicate_transaction"} THEN Result([txid |-> q.txs[1]])
    ELSE Error("rejected")

handle_broadcast_package(q, A) ==
    FirstOf(<<
        Only(q, "json"),
        Return(q.txs = <<>> \/ Len(q.txs) > Package!MaximumPackage, Error("rejected")),
        Return(q.encoding # "witness", Error("rejected")) >>,
        Pending)

complete_submit_package(q, v, A) ==
    LET out == Package!package_result(A[1], v, q.txs)
    IN  IF out = Error("internal_error") THEN ServerError ELSE out

-----------------------------------------------------------------------------
(* Address methods.  The histories of the chain and of the mempool are two *)
(* reads, and each transaction is read again to be serialized.             *)

\* What every address method returns early.
Unaddressed(q) == <<
    Only(q, "json"),
    Return(q.key = Bad, BadRequest),
    Return(~AddressEnabled, Error("not_implemented")) >>

Over(history) == Return(Cardinality(history) > EsploraHistory, ServerError)

handle_get_address(q, A) ==
    LET chain == get_confirmed_history(A[2], q.key)
        mempool == get_unconfirmed_history(A[3], q.key)
    IN  FirstOf(Unaddressed(q) \o << Over(chain), Over(mempool) >>,
        Result([unspent |-> get_confirmed_unspent(A[1], q.key),
                chain_txs |-> Cardinality(chain), mempool_txs |-> Cardinality(mempool)]))

\* Newest first, from what follows last_seen.  Blocks order by height here.
NewestFirst(history) == SetToSortSeq(history, LAMBDA x, y : x[2] > y[2])

get_address_txs(q, A, last_seen, mempool, chain) ==
    LET pooled == IF mempool THEN get_unconfirmed_history(A[1], q.key) ELSE {}
        confirmed == IF chain THEN get_confirmed_history(A[2], q.key) ELSE {}
        order == NewestFirst(confirmed)
        seen == {i \in DOMAIN order : order[i][1] = last_seen}
        first == IF last_seen = Absent THEN 1 ELSE (CHOOSE i \in seen : TRUE) + 1
    IN  FirstOf(Unaddressed(q) \o <<
        Over(pooled),
        Over(confirmed),
        Return(last_seen # Absent /\ seen = {}, NotFound) >>,
        LET page == SubSeq(order, first, Lesser(first + AddressPage - 1, Len(order)))
        IN  Result([mempool |-> {to_tx_object(A, 3, t) : t \in pooled},
                    chain |-> [i \in DOMAIN page |-> to_tx_object(A, 3, page[i][1])]]))

handle_get_address_txs(q, A) == get_address_txs(q, A, Absent, TRUE, TRUE)
handle_get_address_txs_chain(q, A) == get_address_txs(q, A, q.last_seen, FALSE, TRUE)
handle_get_address_txs_mempool(q, A) == get_address_txs(q, A, Absent, TRUE, FALSE)

handle_get_address_utxo(q, A) ==
    FirstOf(Unaddressed(q),
        Result({[out |-> o, status |-> to_status(A[2], o[1])] : o \in Index!get_unspent(A[1], q.key)}))

-----------------------------------------------------------------------------
(* Mempool methods.                                                        *)

complete_get_mempool(q, value) ==
    IF q.verdict = "fault" THEN ServerError ELSE Result(value)

do_get_mempool(q, a) == complete_get_mempool(q, [size |-> Cardinality(Mempool(a))])
do_get_mempool_txids(q, a) == complete_get_mempool(q, [txs |-> Mempool(a)])

\* The most recent of the pool (fewer are modelled than the limit).
do_get_mempool_recent(q, a) == complete_get_mempool(q, [txs |-> Mempool(a)])

handle_get_mempool(q, A) == FirstOf(<< Only(q, "json") >>, do_get_mempool(q, A[1]))
handle_get_mempool_txids(q, A) == FirstOf(<< Only(q, "json") >>, do_get_mempool_txids(q, A[1]))
handle_get_mempool_recent(q, A) == FirstOf(<< Only(q, "json") >>, do_get_mempool_recent(q, A[1]))

\* One estimate after the other; a target without one is left out.
next_estimate(q) ==
    IF q.verdict = "fault" THEN ServerError
    ELSE Result([targets |-> IF q.verdict = "unavailable" THEN {} ELSE {1, 144, 1008}])

handle_get_fee_estimates(q, A) == FirstOf(<< Only(q, "json") >>, next_estimate(q))

-----------------------------------------------------------------------------
\* The handler of a method (protocol_esplora::start).
Subscribed(q, A) ==
    CASE q.method = "get_block" -> handle_get_block(q, A)
      [] q.method = "get_block_txs" -> handle_get_block_txs(q, A)
      [] q.method = "get_block_header" -> handle_get_block_header(q, A)
      [] q.method = "get_block_status" -> handle_get_block_status(q, A)
      [] q.method = "get_block_txids" -> handle_get_block_txids(q, A)
      [] q.method = "get_block_txid" -> handle_get_block_txid(q, A)
      [] q.method = "get_block_height" -> handle_get_block_height(q, A)
      [] q.method = "get_blocks" -> handle_get_blocks(q, A)
      [] q.method = "get_tip_height" -> handle_get_tip_height(q, A)
      [] q.method = "get_tip_hash" -> handle_get_tip_hash(q, A)
      [] q.method = "get_tx" -> handle_get_tx(q, A)
      [] q.method = "get_tx_status" -> handle_get_tx_status(q, A)
      [] q.method = "get_tx_merkleblock_proof" -> handle_get_tx_merkleblock_proof(q, A)
      [] q.method = "get_tx_merkle_proof" -> handle_get_tx_merkle_proof(q, A)
      [] q.method = "get_tx_outspend" -> handle_get_tx_outspend(q, A)
      [] q.method = "get_tx_outspends" -> handle_get_tx_outspends(q, A)
      [] q.method = "broadcast" -> handle_broadcast(q, A)
      [] q.method = "broadcast_package" -> handle_broadcast_package(q, A)
      [] q.method = "get_address" -> handle_get_address(q, A)
      [] q.method = "get_address_txs" -> handle_get_address_txs(q, A)
      [] q.method = "get_address_txs_chain" -> handle_get_address_txs_chain(q, A)
      [] q.method = "get_address_txs_mempool" -> handle_get_address_txs_mempool(q, A)
      [] q.method = "get_address_utxo" -> handle_get_address_utxo(q, A)
      [] q.method = "get_mempool" -> handle_get_mempool(q, A)
      [] q.method = "get_mempool_txids" -> handle_get_mempool_txids(q, A)
      [] q.method = "get_mempool_recent" -> handle_get_mempool_recent(q, A)
      [] q.method = "get_fee_estimates" -> handle_get_fee_estimates(q, A)

\* The answer once the node has given verdict v.
Completed(q, v, A) ==
    CASE q.method = "broadcast" -> complete_submit_tx(q, v, A)
      [] q.method = "broadcast_package" -> complete_submit_package(q, v, A)
=============================================================================
