-------------------------- MODULE BitcoindBlockchain --------------------------
(***************************************************************************)
(* The query handlers of protocol_bitcoind_blockchain.cpp and the          *)
(* serializers they share (bitcoind_json.cpp, bitcoind_coin.cpp, chain.cpp)*)
(*                                                                         *)
(* handle_x(q, A) is the answer to request q when read number i of the     *)
(* handler is made of snapshot A[i] of the archive.  Early returns are in  *)
(* the order of the code.  Stored data does not change, so only reads of   *)
(* what may change have a number.  A result has the fields that depend on  *)
(* the chain or name a stored object; the rest is computed from that       *)
(* object.  The block waits are in BitcoindWait.                           *)
(***************************************************************************)
EXTENDS Archive

-----------------------------------------------------------------------------
(* Serializers.                                                            *)

\* The child carries the median time of its parent, else the chain state does.
median_time(A, i, link) ==
    IF to_confirmed_child(A[i], link) # Terminal \/ is_confirmed_block(A[i + 1], link)
    THEN link ELSE Absent

inject_block_context(A, i, link) ==
    LET height == get_height(link)
        top == get_top_confirmed(A[i])
        confirmed == is_confirmed_block(A[i + 1], link)
    IN  [height |-> height,
         confirmations |-> IF confirmed THEN FlooredSubtract(top, height) + 1 ELSE -1,
         mediantime |-> median_time(A, i + 2, link),
         nextblockhash |->
            IF confirmed /\ height < top
            THEN get_header_key(to_confirmed(A[i + 4], height + 1)) ELSE Absent]

\* Three reads: the height of t, the block at that height, the top.
inject_tx_context(A, i, t) ==
    IF ~is_confirmed_tx(A[i], t) THEN [confirmations |-> 0]
    ELSE LET height == get_tx_height(A[i], t)
         IN  [confirmations |->
                FlooredSubtract(get_top_confirmed(A[i + 2]), height) + 1,
              blockhash |-> get_header_key(to_confirmed(A[i + 1], height))]

\* The heights of the parents of the inputs of t that are confirmed.
inject_tx_prevouts(a, t) ==
    {<<p, get_tx_height(a, p)>> : p \in {u \in Parents(t) : is_confirmed_tx(a, u)}}

chain_states_entry(link) == [blocks |-> get_height(link), bestblockhash |-> link]

progress(blocks, headers) ==
    IF headers = 0 THEN <<1, 1>> ELSE <<Lesser(blocks, headers), headers>>

\* Also the btcd form; the last read is of the genesis block (chain_name).
chain_info(A, i) ==
    LET headers == get_top_candidate(A[i])
        link == to_top_confirmed(A[i + 1])
    IN  [blocks |-> get_height(link), headers |-> headers, bestblockhash |-> link,
         mediantime |-> median_time(A, i + 2, link),
         verificationprogress |-> progress(get_height(link), headers),
         chain |-> to_confirmed(A[i + 4], 0)]

mempool_entry(A, i, t) ==
    [txid |-> t,
     ancestors |-> to_confirmable_ancestors(A[i], t),
     descendants |-> to_confirmable_descendants(A[i + 1], t),
     depends |-> to_confirmable_parents(A[i + 2], t),
     spentby |-> to_confirmable_children(A[i + 3], t)]

mempool_txs(A, i, links, verbose) ==
    IF verbose THEN {mempool_entry(A, i, t) : t \in links} ELSE links

raw_mempool(A, i, verbose, sequence) ==
    LET txs == mempool_txs(A, i + 1, Mempool(A[i]), verbose)
    IN  IF verbose \/ ~sequence THEN [txs |-> txs]
        ELSE [txids |-> txs, mempool_sequence |-> 1]

mempool_info(A, i) == [size |-> Cardinality(Mempool(A[i]))]

deployment_info(link) == [hash |-> link, height |-> get_height(link)]

\* The outputs that the blocks of a branch create and do not spend.
UnspentIn(branch) ==
    LET txs == UNION {Range(Txs[b]) : b \in Range(branch)}
    IN  {o \in UNION {Outs(t) : t \in txs} : SpendersOf(o) \intersect txs = {}}

HeightIn(branch, t) ==
    Height[CHOOSE b \in Range(branch) : t \in Range(Txs[b])]

\* coins is a set of <<output, height>>; blocks are looked up by height again.
scan_result(A, i, coins, top) ==
    [height |-> top,
     bestblock |-> get_header_key(to_confirmed(A[i + 1], top)),
     unspents |->
        {[out |-> c[1], height |-> c[2],
          blockhash |-> get_header_key(to_confirmed(A[i], c[2])),
          confirmations |-> FlooredSubtract(top, c[2]) + 1] : c \in coins}]

serialize_mempool(A, i) == Result([saved |-> Mempool(A[i])])

-----------------------------------------------------------------------------
(* Blockchain methods.                                                     *)

\* A block given as <<"hash", h>> or <<"height", n>>.
to_link(a, at) ==
    CASE at[1] = "hash" -> to_header(a, at[2])
      [] at[1] = "height" -> to_confirmed(a, at[2])
      [] OTHER -> Terminal

BadHash(at) == at[1] = "hash" /\ at[2] = Bad
BadHeight(at) == at[1] = "height" /\ ~to_size(at[2])
OtherType(at) == at[1] \notin {"hash", "height"}

handle_get_best_block_hash(q, A) == Result([hash |-> to_top_confirmed(A[1])])

handle_get_block(q, A) ==
    LET link == to_header(A[1], q.hash)
        block == is_associated(A[2], link)
        context == inject_block_context(A, 3, link)
    IN  FirstOf(<<
        Return(q.hash = Bad, Error("invalid_parameter")),
        Return(~to_int(q.verbosity), Error("misc_error")),
        Return(~block, Error("invalid_address_or_key")),
        Return(q.verbosity <= 0, Result([block |-> link])),
        Return(q.verbosity = 1, Result([block |-> link, context |-> context])),
        Return(q.verbosity = 2, Result([txs |-> link, context |-> context])) >>,
        Result([txs |-> link, context |-> context, prevouts |->
            IF \A t \in Range(tx_keys(A[8], link)) : populate(A[8], t)
            THEN {inject_tx_prevouts(A[8], t) : t \in Range(tx_keys(A[8], link))}
            ELSE {}]))

handle_get_block_chain_info(q, A) == Result(chain_info(A, 1))

handle_get_block_count(q, A) == Result([count |-> get_top_confirmed(A[1])])

handle_get_block_filter(q, A) ==
    LET link == to_header(A[1], q.hash) IN
    FirstOf(<<
        Return(~q.basic, Error("invalid_address_or_key")),
        Return(q.hash = Bad, Error("invalid_parameter")),
        Return(~FilterEnabled, Error("misc_error")),
        Return(~is_associated(A[2], link), Error("invalid_address_or_key")) >>,
        Result([filter |-> link]))

handle_get_block_hash(q, A) ==
    LET link == to_confirmed(A[1], q.height) IN
    FirstOf(<<
        Return(~to_size(q.height), Error("invalid_parameter")),
        Return(link = Terminal, Error("invalid_parameter")) >>,
        Result([hash |-> link]))

handle_get_block_header(q, A) ==
    LET link == to_header(A[1], q.hash) IN
    FirstOf(<<
        Return(q.hash = Bad, Error("invalid_parameter")),
        Return(~has_header(link), Error("invalid_address_or_key")),
        Return(~q.verbose, Result([header |-> link])) >>,
        Result([header |-> link, nTx |-> Len(tx_keys(A[2], link)),
                context |-> inject_block_context(A, 3, link)]))

handle_get_block_stats(q, A) ==
    LET link == to_link(A[1], q.at) IN
    FirstOf(<<
        Return(BadHash(q.at) \/ BadHeight(q.at), Error("invalid_parameter")),
        Return(OtherType(q.at), Error("type_error")),
        Return(~is_confirmed_block(A[2], link), Error("invalid_address_or_key")),
        Return(~has_header(link), Error("internal_error")),
        Return(~is_associated(A[3], link) \/ (\E t \in Range(tx_keys(A[3], link)) : ~populate(A[3], t)),
               Error("internal_error")),
        Return(q.stats = "nontext", Error("type_error")),
        Return(q.stats = "unnamed", Error("invalid_parameter")) >>,
        Result([block |-> link, height |-> get_height(link),
                mediantime |-> median_time(A, 4, link)]))

\* A negative count is the default, a month of blocks (more than are modelled).
handle_get_chain_tx_stats(q, A) ==
    LET link == IF q.hash = Absent THEN to_top_confirmed(A[1])
                ELSE to_header(A[2], q.hash)
        height == get_height(link)
        window == IF q.nblocks < 0 THEN FlooredSubtract(height, 1) ELSE q.nblocks
        branch == get_ancestry(link, window + 1)
    IN  FirstOf(<<
        Return(q.hash = Bad, Error("invalid_parameter")),
        Return(~is_confirmed_block(A[3], link), Error("invalid_address_or_key")),
        Return(q.nblocks >= 0 /\ (~to_size(q.nblocks) \/ (window # 0 /\ window >= height)),
               Error("invalid_parameter")),
        Return(window # 0 /\ ~has_ancestry(link, window + 1), Error("internal_error")),
        Return(window = 0, Result([block |-> link, window |-> 0])) >>,
        Result([block |-> link, window |-> window,
                start |-> median_time(A, 4, Last(branch)),
                end |-> median_time(A, 6, link),
                txs |-> FoldSeq(LAMBDA b, n : n + Len(Txs[b]), 0, Front(branch))]))

handle_get_tx_out(q, A) ==
    LET out == to_output(A[1], q.txid, q.n)
        t == out[1]
        top == to_top_confirmed(A[4])
        confirmed == is_confirmed_tx(A[5], t)
        spent == \/ is_confirmed_spent(A[2], out)
                 \/ q.mempool /\ is_confirmable_spent(A[3], out)
    IN  FirstOf(<<
        Return(q.txid = Bad \/ ~to_size(q.n), Error("invalid_parameter")),
        Return(t = Terminal \/ spent, Null),
        Return(~has_header(top), Error("internal_error")),
        Return(~confirmed /\ (\/ ~q.mempool \/ ~is_pooled(A[6], t)
                              \/ ~is_confirmable_tx(A[7], t)), Null) >>,
        Result([out |-> out, bestblock |-> top,
                confirmations |->
                    IF confirmed
                    THEN FlooredSubtract(get_height(top), get_tx_height(A[5], t)) + 1
                    ELSE 0]))

\* The branch is pinned, and must still be confirmed when its scan is done.
do_get_tx_out_set_info(q, A, height) ==
    LET link == to_confirmed(A[4], height)
        branch == get_ancestry(link, height)
    IN  FirstOf(<<
        Return(~has_ancestry(link, height), Error("internal_error")),
        Return(~is_confirmed_block(A[5], link), Error("internal_error")) >>,
        Result([height |-> height, bestblock |-> link, txouts |-> UnspentIn(branch)]))

handle_get_tx_out_set_info(q, A) ==
    LET link == to_link(A[2], q.at)
        given == q.at[1] # "null"
        height == IF given THEN get_height(link) ELSE get_top_confirmed(A[1])
    IN  FirstOf(<<
        Return(q.type = "other", Error("invalid_parameter")),
        Return(given /\ ~q.index, Error("invalid_parameter")),
        Return(BadHash(q.at), Error("invalid_parameter")),
        Return(BadHeight(q.at), Error("misc_error")),
        Return(given /\ OtherType(q.at), Error("type_error")),
        Return(given /\ ~is_confirmed_block(A[3], link), Error("invalid_address_or_key")),
        Return(given /\ ~has_header(link), Error("internal_error")) >>,
        do_get_tx_out_set_info(q, A, height))

handle_prune_block_chain(q, A) == Error("misc_error")

\* The outcome of the file operations is an input.
do_save_mempool(q, A) ==
    IF q.verdict = "fault" THEN Error("misc_error") ELSE serialize_mempool(A, 1)

handle_save_mempool(q, A) == do_save_mempool(q, A)

\* By the address index (as of read 2), or over the pinned branch.
do_scan_tx_out_set(q, A) ==
    LET link == to_top_confirmed(A[1])
        top == get_height(link)
        branch == get_ancestry(link, top)
        coins == IF AddressEnabled
                 THEN {<<o, get_tx_height(A[2], o[1])>> :
                        o \in {u \in get_confirmed_unspent(A[2], q.key) :
                                    u[1] \notin Range(Txs[Genesis])}}
                 ELSE {<<o, HeightIn(branch, o[1])>> :
                        o \in {u \in UnspentIn(branch) : Pays[u[1]][u[2]] = q.key}}
    IN  FirstOf(<<
        Return(q.key = Bad, Error("invalid_address_or_key")),
        Return(~has_header(link), Error("internal_error")),
        Return(~AddressEnabled /\ ~has_ancestry(link, top), Error("internal_error")),
        Return(~is_confirmed_block(A[3], link), Error("internal_error")) >>,
        Result(scan_result(A, 4, coins, top)))

handle_scan_tx_out_set(q, A) ==
    FirstOf(<<
        Return(q.action = "status", Null),
        Return(q.action = "abort", Result([value |-> FALSE])),
        Return(q.action # "start", Error("invalid_parameter")) >>,
        do_scan_tx_out_set(q, A))

handle_verify_chain(q, A) == Result([value |-> TRUE])

\* dumptxoutset, loadtxoutset, getblockfrompeer.
handle_dump_tx_out_set(q, A) == Error("method_not_found")
handle_load_tx_out_set(q, A) == Error("method_not_found")
handle_get_block_from_peer(q, A) == Error("method_not_found")

\* txids is a sequence; the first names the block when none is given.
handle_get_tx_out_proof(q, A) ==
    LET targets == Range(q.txids)
        link == IF q.hash = Absent
                THEN find_confirmed_block(A[1], Head(q.txids \o <<Terminal>>))
                ELSE to_header(A[2], q.hash)
        keys == tx_keys(A[4], link)
    IN  FirstOf(<<
        Return(q.txids = <<>>, Error("invalid_parameter")),
        Return(Bad \in targets \/ Cardinality(targets) # Len(q.txids),
               Error("invalid_parameter")),
        Return(q.hash = Bad, Error("invalid_parameter")),
        Return(~is_associated(A[3], link), Error("invalid_address_or_key")),
        Return(keys = <<>>, Error("internal_error")),
        Return(~(targets \subseteq Range(keys)), Error("invalid_address_or_key")) >>,
        Result([block |-> link, matched |-> targets]))

\* proof is a block whose transactions it proves, or what is wrong with it.
handle_verify_tx_out_proof(q, A) ==
    LET link == to_header(A[1], q.proof) IN
    FirstOf(<<
        Return(q.proof = Bad, Error("invalid_parameter")),
        Return(q.proof = "malformed", Error("misc_error")),
        Return(q.proof = "invalid", Result([txids |-> {}])),
        Return(~is_confirmed_block(A[2], link), Error("invalid_address_or_key")),
        Return(tx_keys(A[3], link) = <<>>, Error("invalid_address_or_key")) >>,
        Result([txids |-> Range(tx_keys(A[3], link))]))

handle_get_chain_states(q, A) ==
    LET top == to_top_candidate(A[1])
        confirmed == chain_states_entry(to_top_confirmed(A[2]))
        fork == get_fork(A[4])
        span == Cardinality({h \in DOMAIN A[4].cand :
                    h > fork + 1 /\ \A j \in fork + 2 .. h : A[4].cand[j] \in A[4].bodies})
    IN  FirstOf(<<
        Return(is_coalesced(A[3]),
               Result([headers |-> get_height(top), states |-> <<confirmed>>])) >>,
        Result([headers |-> get_height(top),
                states |-> <<confirmed, chain_states_entry(top)>>,
                validated |-> progress(fork + span, get_height(top))]))

handle_get_chain_tips(q, A) ==
    LET confirmed == to_top_confirmed(A[1])
        candidate == to_top_candidate(A[2])
        branchlen == FlooredSubtract(get_height(candidate), get_fork(A[3]))
        present == \A b \in Range(get_ancestry(candidate, branchlen)) :
                      is_associated(A[4], b)
    IN  FirstOf(<<
        Return(~has_header(confirmed) \/ ~has_header(candidate), Error("internal_error")),
        Return(branchlen = 0 \/ ~has_ancestry(candidate, branchlen),
               Result([active |-> confirmed])) >>,
        Result([active |-> confirmed, candidate |-> candidate,
                branchlen |-> branchlen, present |-> present]))

handle_get_deployment_info(q, A) ==
    LET link == IF q.hash = Absent THEN to_top_confirmed(A[1])
                ELSE to_header(A[2], q.hash)
    IN  FirstOf(<<
        Return(q.hash = Bad, Error("invalid_parameter")),
        Return(q.hash # Absent /\ link = Terminal, Error("invalid_address_or_key")),
        Return(~has_header(link), Error("internal_error")) >>,
        Result(deployment_info(link)))

\* One block, or none; the mempool is looked up by the address index.
do_get_descriptor_activity(q, A) ==
    LET link == to_header(A[1], q.hash)
        inBlock == IF q.hash = Absent THEN {}
                   ELSE {t \in Range(tx_keys(A[2], link)) : Touches(t, q.key)}
        inPool == IF q.mempool THEN get_unconfirmed_history(A[3], q.key) ELSE {}
    IN  FirstOf(<<
        Return(q.key = Bad, Error("invalid_address_or_key")),
        Return(q.hash = Bad, Error("invalid_parameter")),
        Return(q.hash # Absent /\ ~is_associated(A[2], link), Error("invalid_address_or_key")),
        Return(\E t \in Range(tx_keys(A[2], link)) : ~populate(A[2], t),
               Error("internal_error")),
        Return(\E t \in inPool : ~populate(A[4], t), Error("internal_error")) >>,
        Result([confirmed |-> inBlock, unconfirmed |-> inPool]))

handle_get_descriptor_activity(q, A) ==
    FirstOf(<< Return(q.mempool /\ ~AddressEnabled, Error("misc_error")) >>,
        do_get_descriptor_activity(q, A))

handle_get_difficulty(q, A) == Result([header |-> to_top_confirmed(A[1])])

\* The organizer's verdict is an input.
do_precious_block(q) ==
    CASE q.verdict = "not_found" -> Error("invalid_address_or_key")
      [] q.verdict = "fault" -> Error("internal_error")
      [] OTHER -> Null

handle_precious_block(q, A) ==
    FirstOf(<< Return(q.hash = Bad, Error("invalid_parameter")) >>, do_precious_block(q))

\* A negative stop is the default.
handle_scan_blocks(q, A) ==
    LET top == get_top_confirmed(A[1])
        to == IF q.stop < 0 THEN top ELSE Lesser(q.stop, top)
        link == to_confirmed(A[2], to)
        branch == get_ancestry(link, to - q.start + 1)
    IN  FirstOf(<<
        Return(q.action # "start", Error("invalid_parameter")),
        Return(~q.basic, Error("invalid_address_or_key")),
        Return(q.key = Absent, Error("misc_error")),
        Return(~FilterEnabled, Error("misc_error")),
        Return(~to_size(q.start) \/ (q.stop >= 0 /\ ~to_size(q.stop)), Error("misc_error")),
        Return(q.start > to, Error("misc_error")),
        Return(q.key = Bad, Error("invalid_address_or_key")),
        Return(~has_ancestry(link, to - q.start + 1), Error("internal_error")),
        Return(\E b \in Range(branch) : ~is_associated(A[3], b), Error("internal_error")) >>,
        Result([from |-> q.start, to |-> to, relevant |->
                {b \in Range(branch) : \E t \in Range(Txs[b]) : Touches(t, q.key)}]))

-----------------------------------------------------------------------------
(* Mempool methods.                                                        *)

to_mempool_tx(A, i, hash) ==
    IF is_pooled(A[i], hash) /\ is_confirmable_tx(A[i + 1], hash) THEN hash ELSE Terminal

get_mempool_relatives(q, A, ancestors) ==
    LET link == to_mempool_tx(A, 1, q.txid)
        links == IF link = Terminal THEN {}
                 ELSE IF ancestors THEN to_confirmable_ancestors(A[3], link)
                 ELSE to_confirmable_descendants(A[3], link)
    IN  FirstOf(<<
        Return(q.txid = Bad, Error("invalid_parameter")),
        Return(link = Terminal, Error("invalid_address_or_key")) >>,
        Result([txs |-> mempool_txs(A, 4, links, q.verbose)]))

handle_get_mempool_ancestors(q, A) == get_mempool_relatives(q, A, TRUE)
handle_get_mempool_descendants(q, A) == get_mempool_relatives(q, A, FALSE)
handle_get_mempool_cluster(q, A) == Error("client_mempool_disabled")

handle_get_mempool_entry(q, A) ==
    LET link == to_mempool_tx(A, 1, q.txid) IN
    FirstOf(<<
        Return(q.txid = Bad, Error("invalid_parameter")),
        Return(link = Terminal, Error("invalid_address_or_key")) >>,
        Result([entry |-> mempool_entry(A, 3, q.txid)]))

handle_get_mempool_info(q, A) == Result(mempool_info(A, 1))

handle_get_raw_mempool(q, A) ==
    FirstOf(<< Return(q.verbose /\ q.sequence, Error("invalid_params")) >>,
        Result(raw_mempool(A, 1, q.verbose, q.sequence)))

\* One prevout.  The mempool spender is looked for first.
do_get_tx_spending_prevout(q, A) ==
    LET out == <<q.txid, q.n + 1>>
        loose == find_confirmable_spender(A[1], out)
        sunk == IF q.mempool_only THEN Terminal ELSE find_confirmed_spender(A[2], out)
    IN  FirstOf(<<
        Return(loose # Terminal, Result([spendingtxid |-> loose])),
        Return(sunk = Terminal, Result([unspent |-> TRUE])) >>,
        Result([spendingtxid |-> sunk,
                blockhash |-> get_header_key(find_confirmed_block(A[3], sunk))]))

handle_get_tx_spending_prevout(q, A) ==
    FirstOf(<<
        Return(q.outputs = "empty", Error("invalid_parameter")),
        Return(q.options = "invalid", Error("type_error")),
        Return(q.outputs = "nontype", Error("type_error")),
        Return(q.txid = Bad \/ ~to_size(q.n), Error("invalid_parameter")) >>,
        do_get_tx_spending_prevout(q, A))

\* The transactions of the file are then submitted, see NextImport of Queries.
handle_import_mempool(q, A) ==
    FirstOf(<<
        Return(q.options = "invalid", Error("type_error")),
        Return(q.verdict = "fault", Error("misc_error")) >>,
        [pending |-> TRUE])
-----------------------------------------------------------------------------
\* The handler of a method (protocol_bitcoind_blockchain::start).
Subscribed(q, A) ==
    CASE q.method = "get_best_block_hash" -> handle_get_best_block_hash(q, A)
      [] q.method = "get_block" -> handle_get_block(q, A)
      [] q.method = "get_block_chain_info" -> handle_get_block_chain_info(q, A)
      [] q.method = "get_block_count" -> handle_get_block_count(q, A)
      [] q.method = "get_block_filter" -> handle_get_block_filter(q, A)
      [] q.method = "get_block_hash" -> handle_get_block_hash(q, A)
      [] q.method = "get_block_header" -> handle_get_block_header(q, A)
      [] q.method = "get_block_stats" -> handle_get_block_stats(q, A)
      [] q.method = "get_chain_tx_stats" -> handle_get_chain_tx_stats(q, A)
      [] q.method = "get_tx_out" -> handle_get_tx_out(q, A)
      [] q.method = "get_tx_out_set_info" -> handle_get_tx_out_set_info(q, A)
      [] q.method = "prune_block_chain" -> handle_prune_block_chain(q, A)
      [] q.method = "save_mempool" -> handle_save_mempool(q, A)
      [] q.method = "scan_tx_out_set" -> handle_scan_tx_out_set(q, A)
      [] q.method = "verify_chain" -> handle_verify_chain(q, A)
      [] q.method = "dump_tx_out_set" -> handle_dump_tx_out_set(q, A)
      [] q.method = "load_tx_out_set" -> handle_load_tx_out_set(q, A)
      [] q.method = "get_block_from_peer" -> handle_get_block_from_peer(q, A)
      [] q.method = "get_tx_out_proof" -> handle_get_tx_out_proof(q, A)
      [] q.method = "verify_tx_out_proof" -> handle_verify_tx_out_proof(q, A)
      [] q.method = "get_chain_states" -> handle_get_chain_states(q, A)
      [] q.method = "get_chain_tips" -> handle_get_chain_tips(q, A)
      [] q.method = "get_deployment_info" -> handle_get_deployment_info(q, A)
      [] q.method = "get_descriptor_activity" -> handle_get_descriptor_activity(q, A)
      [] q.method = "get_difficulty" -> handle_get_difficulty(q, A)
      [] q.method = "precious_block" -> handle_precious_block(q, A)
      [] q.method = "scan_blocks" -> handle_scan_blocks(q, A)
      [] q.method = "get_mempool_ancestors" -> handle_get_mempool_ancestors(q, A)
      [] q.method = "get_mempool_descendants" -> handle_get_mempool_descendants(q, A)
      [] q.method = "get_mempool_cluster" -> handle_get_mempool_cluster(q, A)
      [] q.method = "get_mempool_entry" -> handle_get_mempool_entry(q, A)
      [] q.method = "get_mempool_info" -> handle_get_mempool_info(q, A)
      [] q.method = "get_raw_mempool" -> handle_get_raw_mempool(q, A)
      [] q.method = "get_tx_spending_prevout" -> handle_get_tx_spending_prevout(q, A)
      [] q.method = "import_mempool" -> handle_import_mempool(q, A)
=============================================================================
