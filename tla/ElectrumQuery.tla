----------------------------- MODULE ElectrumQuery -----------------------------
(***************************************************************************)
(* The query methods of protocol_electrum, in the form described in        *)
(* BitcoindBlockchain: protocol_electrum_headers.cpp, _transactions.cpp,   *)
(* _scripthash.cpp, _scriptpubkey.cpp, _addresses.cpp, _outpoints.cpp,     *)
(* _fees.cpp, _mempool.cpp and _server.cpp.  The subscriptions are in      *)
(* ElectrumSubscribe and ElectrumOutpoint.                                 *)
(*                                                                         *)
(* q.version is the version that the handshake settled on.  A method is    *)
(* refused below the version that adds it and from the one that removes    *)
(* it.                                                                     *)
(***************************************************************************)
EXTENDS Archive

CONSTANTS
    Chunk,              \* headers of a chunk (2016)
    MaximumHeaders,     \* options().maximum_headers
    MaximumHistory,     \* options().maximum_history
    MaxSize             \* the largest size_t

v1_0 == 10000
v1_1 == 10100
v1_2 == 10200
v1_3 == 10300
v1_4 == 10400
v1_6 == 10600
v1_7 == 10700

Pending == [pending |-> TRUE]
BadRequest == Error("bad_request")
DaemonError == Error("daemon_error")

\* Return for a version outside of from (inclusive) and to (exclusive).
Since(q, from) == Return(q.version < from, BadRequest)
Until(q, to) == Return(q.version >= to, BadRequest)

-----------------------------------------------------------------------------
(* Headers.                                                                *)

handle_blockchain_block_get_chunk(q, A) ==
    LET first == q.index * Chunk
        end == Lesser(first + Chunk, get_top_confirmed(A[1]) + 1)
    IN  FirstOf(<<
        Until(q, v1_4),
        Return(~to_size(q.index), BadRequest) >>,
        Result([headers |->
            get_confirmed_headers(A[2], first, FlooredSubtract(end, first))]))

handle_blockchain_block_get_header(q, A) ==
    LET link == to_confirmed(A[1], q.height) IN
    FirstOf(<<
        Until(q, v1_4),
        Return(~to_size(q.height), BadRequest),
        Return(link = Terminal, Null) >>,
        Result([header |-> link]))

\* The root of headers 0..to and the proof of header at, as of one read.
get_merkle_root_and_proof(a, at, to) ==
    IF at <= to /\ to <= get_top_confirmed(a)
    THEN [valid |-> TRUE, root |-> to_confirmed(a, to), proves |-> to_confirmed(a, at)]
    ELSE [valid |-> FALSE, root |-> Terminal, proves |-> Terminal]

is_add_overflow(left, right) == left + right > MaxSize

\* The proof is over the last header that is returned.
blockchain_block_headers(q, A, starting, quantity, waypoint, single) ==
    LET top == get_top_confirmed(A[1])
        prove == quantity # 0 /\ waypoint # 0
        links == get_confirmed_headers(A[2], starting, Lesser(quantity, MaximumHeaders))
        proving == prove /\ links # <<>>
        at == IF proving THEN starting + Len(links) - 1 ELSE 0
        proof == get_merkle_root_and_proof(A[3], at, waypoint)
    IN  FirstOf(<<
        Return(is_add_overflow(starting, quantity), BadRequest),
        Return(starting > top \/ (prove /\ waypoint > top), BadRequest),
        Return(single /\ Len(links) # 1, DaemonError),
        Return(proving /\ at > waypoint, BadRequest),
        Return(~proving, Result([headers |-> links])),
        Return(~proof.valid, DaemonError) >>,
        Result([headers |-> links, root |-> proof.root, proves |-> proof.proves]))

handle_blockchain_block_header(q, A) ==
    FirstOf(<<
        Since(q, v1_3),
        Return(~to_size(q.height) \/ ~to_size(q.cp_height), BadRequest) >>,
        blockchain_block_headers(q, A, q.height, 1, q.cp_height, TRUE))

handle_blockchain_block_headers(q, A) ==
    FirstOf(<<
        Since(q, v1_2),
        Return(~to_size(q.height) \/ ~to_size(q.count) \/ ~to_size(q.cp_height), BadRequest),
        Return(q.cp_height # 0 /\ q.version < v1_4, BadRequest) >>,
        blockchain_block_headers(q, A, q.height, q.count, q.cp_height, FALSE))

-----------------------------------------------------------------------------
(* Transactions.  encoding is what the texts decode as.                    *)

Undecoded(q) == q.encoding # "witness"

handle_blockchain_transaction_broadcast(q, A) ==
    FirstOf(<< Since(q, v1_0), Return(Undecoded(q), BadRequest) >>, Pending)

\* A transaction that is stored is not a failure; before 1.1 a failure is a text.
complete_submit_tx(q, v, A) ==
    FirstOf(<<
        Return(v.code \in {"success", "duplicate_transaction"}, Result([txid |-> q.txs[1]])),
        Return(q.version < v1_1, Result([message |-> v.code])) >>,
        DaemonError)

handle_blockchain_transaction_broadcast_package(q, A) ==
    FirstOf(<<
        Since(q, v1_6),
        Return(q.verbose, BadRequest),
        Return(q.txs = <<>> \/ Undecoded(q), BadRequest) >>,
        Pending)

complete_submit_package(q, v, A) ==
    LET failed == v.code \notin {"success", "duplicate_transaction"} IN
    Result([success |-> ~failed,
            errors |-> IF failed THEN {[txid |-> q.txs[v.index], error |-> v.code]} ELSE {}])

MaximumTestTxs == 25

handle_blockchain_transaction_testmempoolaccept(q, A) ==
    FirstOf(<<
        Since(q, v1_7),
        Return(q.txs = <<>> \/ Len(q.txs) > MaximumTestTxs \/ Undecoded(q), BadRequest) >>,
        Pending)

\* The code of the package applies to each of its transactions.
complete_test_package(q, v, A) ==
    Result([i \in DOMAIN q.txs |->
        IF v.code = "success" THEN [txid |-> q.txs[i], allowed |-> TRUE]
        ELSE [txid |-> q.txs[i], allowed |-> FALSE, reason |-> v.code]])

\* "Floor manages race between getting confirmed top and height."
handle_blockchain_transaction_get(q, A) ==
    LET link == to_tx(A[1], q.txid)
        block == find_confirmed_block(A[2], link)
        top == get_top_confirmed(A[3])
    IN  FirstOf(<<
        Since(q, v1_0),
        Return(q.verbose /\ q.version < v1_2, BadRequest),
        Return(q.txid = Bad, BadRequest),
        Return(link = Terminal, DaemonError),
        Return(~q.verbose, Result([hex |-> link])),
        Return(block = Terminal, Result([tx |-> link])) >>,
        Result([tx |-> link, blockhash |-> block,
                confirmations |-> FlooredSubtract(top, get_height(block)) + 1]))

handle_blockchain_transaction_get_merkle(q, A) ==
    LET link == to_confirmed(A[1], q.height)
        keys == tx_keys(A[2], link)
    IN  FirstOf(<<
        Since(q, v1_4),
        Return(~to_size(q.height) \/ q.txid = Bad, BadRequest),
        Return(link = Terminal, BadRequest),
        Return(keys = <<>>, DaemonError),
        Return(q.txid \notin Range(keys), BadRequest) >>,
        Result([block |-> link, pos |-> CHOOSE i \in DOMAIN keys : keys[i] = q.txid]))

handle_blockchain_transaction_id_from_position(q, A) ==
    LET link == to_confirmed(A[1], q.height)
        keys == tx_keys(A[2], link)
        tx == IF q.pos + 1 \in DOMAIN keys THEN keys[q.pos + 1] ELSE Terminal
    IN  FirstOf(<<
        Since(q, v1_4),
        Return(~to_size(q.height) \/ ~to_size(q.pos), BadRequest),
        Return(tx = Terminal, BadRequest),
        Return(~q.merkle, Result([txid |-> tx])) >>,
        Result([txid |-> tx, block |-> link]))

-----------------------------------------------------------------------------
(* Addresses: by address until 1.3, by script hash from 1.1 until 1.7 and  *)
(* by script from 1.7.  What is read is read by one call to the store.     *)

\* Outputs that no transaction spends, confirmed or in the mempool.
get_unspent(a, k) ==
    LET txs == {t \in Tx : is_confirmed_tx(a, t)} \union Mempool(a)
        outs == {o \in UNION {Outs(t) : t \in txs} : Pays[o[1]][o[2]] = k}
    IN  {o \in outs : SpendersOf(o) \intersect txs = {}}

\* The height of what is unconfirmed is zero.
Histories(a, k) ==
    get_confirmed_history(a, k) \union {<<t, 0>> : t \in get_unconfirmed_history(a, k)}

\* The common end of the queries: not indexed, over a limit, or the value,
\* which is wrapped in an object for scriptpubkey.
wrapped(value, wrap) == Result([value |-> value, wrapped |-> wrap])
Indexed(answer) == IF AddressEnabled THEN answer ELSE Error("method_not_found")

get_balance(q, A) ==
    Indexed(Result([confirmed |-> Cardinality(get_confirmed_unspent(A[1], q.key)),
                    all |-> Cardinality(get_unspent(A[1], q.key))]))

get_history(q, A, wrap) ==
    LET all == Histories(A[1], q.key)
    IN  Indexed(IF Cardinality(all) > MaximumHistory THEN DaemonError ELSE wrapped(all, wrap))

get_mempool(q, A, wrap) ==
    LET all == {<<t, 0>> : t \in get_unconfirmed_history(A[1], q.key)}
    IN  Indexed(IF Cardinality(all) > MaximumHistory THEN DaemonError ELSE wrapped(all, wrap))

list_unspent(q, A, wrap) ==
    Indexed(wrapped({<<o, get_tx_height(A[1], o[1])>> : o \in get_unspent(A[1], q.key)}, wrap))

handle_blockchain_address_get_balance(q, A) ==
    FirstOf(<< Until(q, v1_3), Return(q.key = Bad, BadRequest) >>,
        get_balance(q, A))

handle_blockchain_address_get_history(q, A) ==
    FirstOf(<< Until(q, v1_3), Return(q.key = Bad, BadRequest) >>,
        get_history(q, A, FALSE))

handle_blockchain_address_get_mempool(q, A) ==
    FirstOf(<< Until(q, v1_3), Return(q.key = Bad, BadRequest) >>,
        get_mempool(q, A, FALSE))

handle_blockchain_address_list_unspent(q, A) ==
    FirstOf(<< Until(q, v1_3), Return(q.key = Bad, BadRequest) >>,
        list_unspent(q, A, FALSE))

handle_blockchain_scripthash_get_balance(q, A) ==
    FirstOf(<< Since(q, v1_1), Until(q, v1_7), Return(q.key = Bad, BadRequest) >>,
        get_balance(q, A))

handle_blockchain_scripthash_get_history(q, A) ==
    FirstOf(<< Since(q, v1_1), Until(q, v1_7), Return(q.key = Bad, BadRequest) >>,
        get_history(q, A, FALSE))

handle_blockchain_scripthash_get_mempool(q, A) ==
    FirstOf(<< Since(q, v1_1), Until(q, v1_7), Return(q.key = Bad, BadRequest) >>,
        get_mempool(q, A, FALSE))

handle_blockchain_scripthash_list_unspent(q, A) ==
    FirstOf(<< Since(q, v1_1), Until(q, v1_7), Return(q.key = Bad, BadRequest) >>,
        list_unspent(q, A, FALSE))

handle_blockchain_scriptpubkey_get_balance(q, A) ==
    FirstOf(<< Since(q, v1_7), Return(q.key = Bad, BadRequest) >>,
        get_balance(q, A))

handle_blockchain_scriptpubkey_get_history(q, A) ==
    FirstOf(<< Since(q, v1_7), Return(q.key = Bad, BadRequest) >>,
        get_history(q, A, TRUE))

handle_blockchain_scriptpubkey_get_mempool(q, A) ==
    FirstOf(<< Since(q, v1_7), Return(q.key = Bad, BadRequest) >>,
        get_mempool(q, A, TRUE))

handle_blockchain_scriptpubkey_list_unspent(q, A) ==
    FirstOf(<< Since(q, v1_7), Return(q.key = Bad, BadRequest) >>,
        list_unspent(q, A, TRUE))

-----------------------------------------------------------------------------
(* Outpoints.                                                              *)

handle_blockchain_utxo_get_address(q, A) ==
    LET link == to_tx(A[1], q.txid)
        out == to_output(A[1], link, q.n)
    IN  FirstOf(<<
        Until(q, v1_1),
        Return(~to_size(q.n) \/ q.txid = Bad, BadRequest),
        Return(link = Terminal, Null),
        Return(out[1] = Terminal, DaemonError) >>,
        Result([address |-> Pays[q.txid][q.n + 1]]))

\* The height of the funding transaction, and of a spender, by two reads.
handle_blockchain_outpoint_get_status(q, A) ==
    LET link == to_tx(A[1], q.txid)
        spenders == {t \in SpendersOf(<<q.txid, q.n + 1>>) : is_archived(A[2], t)}
    IN  FirstOf(<<
        Since(q, v1_7),
        Return(~to_size(q.n) \/ q.txid = Bad \/ q.hint = Bad, BadRequest),
        Return(link = Terminal, Result([found |-> FALSE])),
        Return(spenders = {}, Result([funder_height |-> get_tx_height(A[1], link)])) >>,
        LET first == CHOOSE t \in spenders : TRUE
        IN  Result([funder_height |-> get_tx_height(A[1], link),
                    spender_txhash |-> first, spender_height |-> get_tx_height(A[2], first)]))

-----------------------------------------------------------------------------
(* Fees, mempool and server.                                               *)

handle_blockchain_estimate_fee(q, A) ==
    FirstOf(<<
        Since(q, v1_0),
        Return(~to_size(q.target), BadRequest),
        Return(q.mode # Absent /\ q.version < v1_6, BadRequest),
        Return(q.mode \notin {Absent, "basic", "geometric", "economical", "conservative"},
               BadRequest),
        Return(q.verdict = "fault", DaemonError),
        Return(q.verdict = "unavailable", Result([fee |-> -1])) >>,
        Result([fee |-> q.target]))

handle_blockchain_relay_fee(q, A) ==
    FirstOf(<< Since(q, v1_0), Until(q, v1_6) >>, Result([fee |-> "minimum"]))

complete_mempool(q, value) == IF q.verdict = "fault" THEN DaemonError ELSE Result(value)

do_get_fee_histogram(q, a) == complete_mempool(q, [txs |-> Mempool(a)])

RecentCount == 10

\* The most recent of the pool (fewer are modelled than the limit).
do_mempool_recent(q, a) ==
    complete_mempool(q, [number |-> Lesser(RecentCount, Cardinality(Mempool(a))),
                         txs |-> Mempool(a)])

handle_mempool_get_fee_histogram(q, A) ==
    FirstOf(<< Since(q, v1_2) >>, do_get_fee_histogram(q, A[1]))

handle_mempool_recent(q, A) == FirstOf(<< Since(q, v1_7) >>, do_mempool_recent(q, A[1]))

handle_mempool_get_info(q, A) ==
    FirstOf(<< Since(q, v1_6) >>, Result([fee |-> "minimum"]))

handle_server_add_peer(q, A) ==
    FirstOf(<< Since(q, v1_1) >>, Error("method_not_found"))

\* Also server.donation_address and server.peers.subscribe: configured values.
handle_server_banner(q, A) == FirstOf(<< Since(q, v1_0) >>, Result([option |-> "banner"]))
handle_server_donation_address(q, A) ==
    FirstOf(<< Since(q, v1_0) >>, Result([option |-> "donation"]))
handle_server_peers_subscribe(q, A) ==
    FirstOf(<< Since(q, v1_0) >>, Result([option |-> "peers"]))

handle_server_features(q, A) ==
    LET genesis == to_confirmed(A[1], 0) IN
    FirstOf(<<
        Since(q, v1_0),
        Return(genesis = Terminal, DaemonError) >>,
        Result([genesis_hash |-> genesis, flavours |-> q.version >= v1_7]))

MaximumPong == 1024

\* Arguments are ignored below 1.7, which has no response.
handle_server_ping(q, A) ==
    FirstOf(<<
        Since(q, v1_2),
        Return(q.version < v1_7, Null),
        Return(q.data = Bad \/ ~to_size(q.pong_len), BadRequest) >>,
        Result([length |-> Lesser(q.pong_len, MaximumPong)]))
-----------------------------------------------------------------------------
\* The handler of a method (protocol_electrum::start).
Subscribed(q, A) ==
    CASE q.method = "blockchain_block_get_chunk" -> handle_blockchain_block_get_chunk(q, A)
      [] q.method = "blockchain_block_get_header" -> handle_blockchain_block_get_header(q, A)
      [] q.method = "blockchain_block_header" -> handle_blockchain_block_header(q, A)
      [] q.method = "blockchain_block_headers" -> handle_blockchain_block_headers(q, A)
      [] q.method = "blockchain_transaction_broadcast" -> handle_blockchain_transaction_broadcast(q, A)
      [] q.method = "blockchain_transaction_broadcast_package" -> handle_blockchain_transaction_broadcast_package(q, A)
      [] q.method = "blockchain_transaction_testmempoolaccept" -> handle_blockchain_transaction_testmempoolaccept(q, A)
      [] q.method = "blockchain_transaction_get" -> handle_blockchain_transaction_get(q, A)
      [] q.method = "blockchain_transaction_get_merkle" -> handle_blockchain_transaction_get_merkle(q, A)
      [] q.method = "blockchain_transaction_id_from_position" -> handle_blockchain_transaction_id_from_position(q, A)
      [] q.method = "blockchain_address_get_balance" -> handle_blockchain_address_get_balance(q, A)
      [] q.method = "blockchain_address_get_history" -> handle_blockchain_address_get_history(q, A)
      [] q.method = "blockchain_address_get_mempool" -> handle_blockchain_address_get_mempool(q, A)
      [] q.method = "blockchain_address_list_unspent" -> handle_blockchain_address_list_unspent(q, A)
      [] q.method = "blockchain_scripthash_get_balance" -> handle_blockchain_scripthash_get_balance(q, A)
      [] q.method = "blockchain_scripthash_get_history" -> handle_blockchain_scripthash_get_history(q, A)
      [] q.method = "blockchain_scripthash_get_mempool" -> handle_blockchain_scripthash_get_mempool(q, A)
      [] q.method = "blockchain_scripthash_list_unspent" -> handle_blockchain_scripthash_list_unspent(q, A)
      [] q.method = "blockchain_scriptpubkey_get_balance" -> handle_blockchain_scriptpubkey_get_balance(q, A)
      [] q.method = "blockchain_scriptpubkey_get_history" -> handle_blockchain_scriptpubkey_get_history(q, A)
      [] q.method = "blockchain_scriptpubkey_get_mempool" -> handle_blockchain_scriptpubkey_get_mempool(q, A)
      [] q.method = "blockchain_scriptpubkey_list_unspent" -> handle_blockchain_scriptpubkey_list_unspent(q, A)
      [] q.method = "blockchain_utxo_get_address" -> handle_blockchain_utxo_get_address(q, A)
      [] q.method = "blockchain_outpoint_get_status" -> handle_blockchain_outpoint_get_status(q, A)
      [] q.method = "blockchain_estimate_fee" -> handle_blockchain_estimate_fee(q, A)
      [] q.method = "blockchain_relay_fee" -> handle_blockchain_relay_fee(q, A)
      [] q.method = "mempool_get_fee_histogram" -> handle_mempool_get_fee_histogram(q, A)
      [] q.method = "mempool_recent" -> handle_mempool_recent(q, A)
      [] q.method = "mempool_get_info" -> handle_mempool_get_info(q, A)
      [] q.method = "server_add_peer" -> handle_server_add_peer(q, A)
      [] q.method = "server_banner" -> handle_server_banner(q, A)
      [] q.method = "server_donation_address" -> handle_server_donation_address(q, A)
      [] q.method = "server_peers_subscribe" -> handle_server_peers_subscribe(q, A)
      [] q.method = "server_features" -> handle_server_features(q, A)
      [] q.method = "server_ping" -> handle_server_ping(q, A)

\* The answer once the node has given verdict v.
Completed(q, v, A) ==
    CASE q.method = "blockchain_transaction_broadcast" -> complete_submit_tx(q, v, A)
      [] q.method = "blockchain_transaction_broadcast_package" -> complete_submit_package(q, v, A)
      [] q.method = "blockchain_transaction_testmempoolaccept" -> complete_test_package(q, v, A)
=============================================================================
