----------------------------- MODULE NativeQuery -----------------------------
(***************************************************************************)
(* The query handlers of protocol_native_block.cpp, _tx.cpp, _input.cpp,   *)
(* _output.cpp, _address.cpp and _configuration.cpp, in the form described *)
(* in BitcoindBlockchain.  The subscriptions are in NativeSubscribe.       *)
(***************************************************************************)
EXTENDS Archive

CONSTANTS
    Limited,            \* node_settings().limited_blocks
    Milestone,          \* the milestone and the top checkpoint, by hash
    Checkpoint

LOCAL Index == INSTANCE ElectrumQuery WITH
    Chunk <- 1, MaximumHeaders <- 1, MaxSize <- 1, MaximumHistory <- 1

NotFound == Error("not_found")
ServerError == Error("internal_server_error")
Only(q, media) == Return(q.media # media, Error("not_acceptable"))

\* send_chunk, send_text and send_json.
Send(q, value) ==
    IF q.media \in {"data", "text", "json"} THEN Result(value) ELSE NotFound

\* The hash of a block when it is given, else its height.
HeaderAt(a, q) ==
    IF q.hash # Absent THEN to_header(a, q.hash) ELSE to_confirmed(a, q.height)

-----------------------------------------------------------------------------
(* Blocks.                                                                 *)

handle_get_top(q, A) == Send(q, [count |-> get_top_confirmed(A[1])])

\* A header that is stored without its block is an integrity error.
handle_get_block(q, A) ==
    LET link == HeaderAt(A[1], q) IN
    FirstOf(<<
        Return(link = Terminal, NotFound),
        Return(~is_associated(A[2], link), ServerError) >>,
        Send(q, [block |-> link]))

handle_get_block_header(q, A) ==
    LET link == HeaderAt(A[1], q) IN
    FirstOf(<< Return(~has_header(link), NotFound) >>, Send(q, [header |-> link]))

\* The state is that of a block that is associated.
handle_get_block_header_context(q, A) ==
    LET link == HeaderAt(A[1], q) IN
    FirstOf(<<
        Only(q, "json"),
        Return(link = Terminal, NotFound),
        Return(~is_associated(A[2], link), Result([hash |-> link])) >>,
        Result([hash |-> link, confirmed |-> is_confirmed_block(A[3], link)]))

\* The value of a block is that of its prevouts, which must be stored.
handle_get_block_details(q, A) ==
    LET link == HeaderAt(A[1], q) IN
    FirstOf(<<
        Only(q, "json"),
        Return(~is_associated(A[2], link), NotFound),
        Return(\E t \in Range(tx_keys(A[3], link)) : ~populate(A[3], t), ServerError) >>,
        Result([block |-> link, number |-> Len(tx_keys(A[2], link))]))

handle_get_block_txs(q, A) ==
    LET keys == tx_keys(A[2], HeaderAt(A[1], q)) IN
    FirstOf(<< Return(keys = <<>>, NotFound) >>, Send(q, [txids |-> keys]))

\* kind is "filter", "filter_hash" or "filter_header".
get_block_filter(q, A, kind) ==
    LET link == HeaderAt(A[1], q) IN
    FirstOf(<<
        Return(~FilterEnabled \/ ~q.neutrino, Error("not_implemented")),
        Return(~is_associated(A[2], link), NotFound) >>,
        Send(q, [block |-> link, kind |-> kind]))

handle_get_block_filter(q, A) == get_block_filter(q, A, "filter")
handle_get_block_filter_hash(q, A) == get_block_filter(q, A, "filter_hash")
handle_get_block_filter_header(q, A) == get_block_filter(q, A, "filter_header")

handle_get_block_tx(q, A) ==
    LET keys == tx_keys(A[2], HeaderAt(A[1], q))
        link == IF q.pos < Len(keys) THEN keys[q.pos + 1] ELSE Terminal
    IN  FirstOf(<< Return(link = Terminal, NotFound) >>, Send(q, [tx |-> link]))

-----------------------------------------------------------------------------
(* Transactions, inputs and outputs.                                       *)

handle_get_tx(q, A) ==
    LET link == to_tx(A[1], q.txid) IN
    FirstOf(<< Return(link = Terminal, NotFound) >>, Send(q, [tx |-> link]))

handle_get_tx_header(q, A) ==
    LET link == find_confirmed_block(A[1], q.txid) IN
    FirstOf(<<
        Return(link = Terminal, NotFound),
        Return(~has_header(link), ServerError) >>,
        Send(q, [header |-> link]))

\* find_strong is of the confirmed chain.
handle_get_tx_details(q, A) ==
    LET link == to_tx(A[1], q.txid)
        block == find_confirmed_block(A[3], link)
    IN  FirstOf(<<
        Only(q, "json"),
        Return(link = Terminal, NotFound),
        Return(~populate(A[2], link), ServerError),
        Return(block = Terminal, Result([tx |-> link])) >>,
        Result([tx |-> link, height |-> get_height(block),
                position |-> CHOOSE i \in DOMAIN Txs[block] : Txs[block][i] = link]))

handle_get_inputs(q, A) ==
    LET link == to_tx(A[1], q.txid) IN
    FirstOf(<< Return(link = Terminal, NotFound) >>, Send(q, [inputs |-> Spends(link)]))

\* A coinbase has one input, which spends no output.
InputExists(a, q) ==
    LET link == to_tx(a, q.txid)
    IN  link # Terminal /\ q.n < Cardinality(Spends(link)) + (IF IsCoinbase(link) THEN 1 ELSE 0)

get_input(q, A) ==
    FirstOf(<< Return(~InputExists(A[1], q), NotFound) >>, Send(q, [input |-> <<q.txid, q.n>>]))

handle_get_input(q, A) == get_input(q, A)
handle_get_input_script(q, A) == get_input(q, A)

\* signed: the input has a witness.
handle_get_input_witness(q, A) ==
    FirstOf(<< Return(~q.signed, NotFound) >>, get_input(q, A))

handle_get_outputs(q, A) ==
    LET link == to_tx(A[1], q.txid) IN
    FirstOf(<< Return(link = Terminal, NotFound) >>, Send(q, [outputs |-> Outs(link)]))

handle_get_output(q, A) ==
    LET out == to_output(A[1], q.txid, q.n) IN
    FirstOf(<< Return(out[1] = Terminal, NotFound) >>, Send(q, [out |-> out]))

handle_get_output_script(q, A) == handle_get_output(q, A)

handle_get_output_spender(q, A) ==
    LET spender == find_confirmed_spender(A[1], <<q.txid, q.n + 1>>) IN
    FirstOf(<< Return(spender = Terminal, NotFound) >>, Send(q, [spender |-> spender]))

\* Every stored spender, confirmed or not.
handle_get_output_spenders(q, A) ==
    LET all == {t \in SpendersOf(<<q.txid, q.n + 1>>) : is_archived(A[1], t)} IN
    FirstOf(<< Return(all = {}, NotFound) >>, Send(q, [spenders |-> all]))

-----------------------------------------------------------------------------
(* Addresses.                                                              *)

NotIndexed == Return(~AddressEnabled, Error("not_implemented"))

\* The end of the three queries for outputs.
complete_get_address(q, set) ==
    FirstOf(<< NotIndexed, Return(set = {}, NotFound) >>, Send(q, [outs |-> set]))

\* Every stored output of the address.
handle_get_address(q, A) ==
    complete_get_address(q,
        {o \in UNION {Outs(t) : t \in {u \in Tx : is_archived(A[1], u)}} : Pays[o[1]][o[2]] = q.key})

handle_get_address_confirmed(q, A) ==
    complete_get_address(q, get_confirmed_unspent(A[1], q.key))

handle_get_address_unconfirmed(q, A) ==
    complete_get_address(q,
        {o \in Index!get_unspent(A[1], q.key) : ~is_confirmed_tx(A[1], o[1])})

\* Mutant: what the mempool pays is counted.
handle_get_address_balance_all(q, A) ==
    FirstOf(<< NotIndexed >>,
        Send(q, [confirmed |-> Cardinality(Index!get_unspent(A[1], q.key))]))

handle_get_address_balance(q, A) ==
    FirstOf(<< NotIndexed >>,
        Send(q, [confirmed |-> Cardinality(get_confirmed_unspent(A[1], q.key))]))

-----------------------------------------------------------------------------
(* Configuration.                                                          *)

\* The height of a candidate block.  (Rules are those of every modelled block.)
get_active_height(a, hash) ==
    IF hash \in Range(a.cand) THEN get_height(hash) ELSE 0

get_pruned_height(A, i) ==
    LET milestone == get_active_height(A[i], Milestone)
        checkpoint == get_active_height(A[i + 1], Checkpoint)
    IN  IF ~Limited THEN 0 ELSE IF milestone > checkpoint THEN milestone ELSE checkpoint

handle_get_configuration(q, A) ==
    FirstOf(<< Only(q, "json") >>,
        Result([address |-> AddressEnabled, filter |-> FilterEnabled,
                pruned |-> get_pruned_height(A, 1)]))
-----------------------------------------------------------------------------
\* The handler of a method (protocol_native::start).
Subscribed(q, A) ==
    CASE q.method = "get_top" -> handle_get_top(q, A)
      [] q.method = "get_block" -> handle_get_block(q, A)
      [] q.method = "get_block_header" -> handle_get_block_header(q, A)
      [] q.method = "get_block_header_context" -> handle_get_block_header_context(q, A)
      [] q.method = "get_block_details" -> handle_get_block_details(q, A)
      [] q.method = "get_block_txs" -> handle_get_block_txs(q, A)
      [] q.method = "get_block_filter" -> handle_get_block_filter(q, A)
      [] q.method = "get_block_filter_hash" -> handle_get_block_filter_hash(q, A)
      [] q.method = "get_block_filter_header" -> handle_get_block_filter_header(q, A)
      [] q.method = "get_block_tx" -> handle_get_block_tx(q, A)
      [] q.method = "get_tx" -> handle_get_tx(q, A)
      [] q.method = "get_tx_header" -> handle_get_tx_header(q, A)
      [] q.method = "get_tx_details" -> handle_get_tx_details(q, A)
      [] q.method = "get_inputs" -> handle_get_inputs(q, A)
      [] q.method = "get_input" -> handle_get_input(q, A)
      [] q.method = "get_input_script" -> handle_get_input_script(q, A)
      [] q.method = "get_input_witness" -> handle_get_input_witness(q, A)
      [] q.method = "get_outputs" -> handle_get_outputs(q, A)
      [] q.method = "get_output" -> handle_get_output(q, A)
      [] q.method = "get_output_script" -> handle_get_output_script(q, A)
      [] q.method = "get_output_spender" -> handle_get_output_spender(q, A)
      [] q.method = "get_output_spenders" -> handle_get_output_spenders(q, A)
      [] q.method = "get_address" -> handle_get_address(q, A)
      [] q.method = "get_address_confirmed" -> handle_get_address_confirmed(q, A)
      [] q.method = "get_address_unconfirmed" -> handle_get_address_unconfirmed(q, A)
      [] q.method = "get_address_balance" -> handle_get_address_balance(q, A)
      [] q.method = "get_configuration" -> handle_get_configuration(q, A)
=============================================================================
