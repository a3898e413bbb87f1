----------------------------- MODULE BitcoindNode -----------------------------
(***************************************************************************)
(* The remaining subgroups of the bitcoind rpc interface, in the form      *)
(* described in BitcoindBlockchain: control, mining, utility, test and     *)
(* wallet (protocol_bitcoind_control.cpp and so on).                       *)
(***************************************************************************)
EXTENDS Archive

CONSTANTS
    Stamp,              \* Stamp[b]: the timestamp of block b
    Retarget            \* retargeting_interval()

Pending == [pending |-> TRUE]

-----------------------------------------------------------------------------
(* Control.                                                                *)

\* Usage is of the methods that are implemented (command is what it names).
handle_help(q, A) ==
    FirstOf(<<
        Return(q.command = Absent, Result([names |-> TRUE])),
        Return(q.command # "implemented", Result([unknown |-> q.command])) >>,
        Result([usage |-> q.command]))

handle_stop(q, A) == Error("method_not_found")

handle_get_memory_info(q, A) ==
    IF q.mode # "stats" THEN Error("invalid_parameter") ELSE Result([locked |-> 0])

\* The methods that are implemented, by subgroup.
send_openrpc == Result([methods |-> "implemented"])
handle_get_openrpc_info(q, A) == send_openrpc
handle_rpc_discover(q, A) == send_openrpc

handle_get_rpc_info(q, A) == Result([active_commands |-> <<>>])

handle_logging(q, A) ==
    IF q.include # <<>> \/ q.exclude # <<>> THEN Error("invalid_parameter")
    ELSE Result([levels |-> TRUE])

handle_uptime(q, A) == Result([uptime |-> FlooredSubtract(q.now, q.start)])

-----------------------------------------------------------------------------
(* Mining.                                                                 *)

\* Mutant: the span since the retarget is not limited to the height.
handle_get_network_hash_ps_unlimited(q, A) ==
    LET top == get_top_confirmed(A[1])
        target == IF q.height < 0 THEN top ELSE Lesser(q.height, top)
        window == IF q.nblocks <= 0 THEN (target % Retarget) + 1 ELSE q.nblocks
        link == to_confirmed(A[2], target)
    IN  FirstOf(<<
        Return(q.height >= 0 /\ ~to_size(q.height), Error("invalid_parameter")),
        Return(q.nblocks > 0 /\ ~to_size(q.nblocks), Error("invalid_parameter")),
        Return(~has_ancestry(link, window + 1), Error("internal_error")) >>,
        Result([from |-> Last(get_ancestry(link, window + 1)), to |-> link]))

\* The window is walked over the ancestry of the block that is at the target.
handle_get_network_hash_ps(q, A) ==
    LET top == get_top_confirmed(A[1])
        target == IF q.height < 0 THEN top ELSE Lesser(q.height, top)
        span == IF q.nblocks <= 0 THEN (target % Retarget) + 1 ELSE q.nblocks
        window == Lesser(span, target)
        link == to_confirmed(A[2], target)
        branch == get_ancestry(link, window + 1)
    IN  FirstOf(<<
        Return(q.height >= 0 /\ ~to_size(q.height), Error("invalid_parameter")),
        Return(q.nblocks > 0 /\ ~to_size(q.nblocks), Error("invalid_parameter")),
        Return(window = 0, Result([rate |-> 0])),
        Return(~has_ancestry(link, window + 1), Error("internal_error")),
        Return(\A b, c \in Range(branch) : Stamp[b] = Stamp[c], Result([rate |-> 0])) >>,
        Result([from |-> Last(branch), to |-> link]))

\* Mutant: the number of blocks is read apart from the top.
handle_get_mining_info_apart(q, A) ==
    LET link == to_top_confirmed(A[1]) IN
    FirstOf(<< Return(~has_header(link), Error("internal_error")) >>,
        Result([blocks |-> get_top_confirmed(A[2]), top |-> link, next |-> get_height(link) + 1,
                chain |-> to_confirmed(A[3], 0)]))

\* The chain state is that of the top, which must still be confirmed.
handle_get_mining_info(q, A) ==
    LET link == to_top_confirmed(A[1]) IN
    FirstOf(<<
        Return(~has_header(link), Error("internal_error")),
        Return(~is_confirmed_block(A[2], link), Error("internal_error")) >>,
        Result([blocks |-> get_height(link), top |-> link, next |-> get_height(link) + 1,
                chain |-> to_confirmed(A[3], 0)]))

\* A header that is stored is not organized again.
handle_submit_header(q, A) ==
    FirstOf(<<
        Return(q.encoding \in {Bad, "invalid"}, Error("deserialization_error")),
        Return(to_header(A[1], q.hash) # Terminal, Null) >>,
        Pending)

do_submit_header(q, v, A) == IF v.code = "success" THEN Null ELSE Error("verify_error")

\* There is no block assembly.
handle_submit_block(q, A) == Error("client_mempool_disabled")
handle_get_block_template(q, A) == Error("client_mempool_disabled")
handle_get_prioritised_transactions(q, A) == Error("client_mempool_disabled")
handle_prioritise_transaction(q, A) == Error("client_mempool_disabled")

-----------------------------------------------------------------------------
(* Utility.                                                                *)

\* script: what the hex decodes to, "invalid" when it is no script.
handle_decode_script(q, A) ==
    FirstOf(<<
        Return(q.script = Bad, Error("invalid_parameter")),
        Return(q.script = "invalid", Result([desc |-> "raw", address |-> FALSE])),
        Return(q.script \in {"witness", "nulldata"}, Result([p2sh |-> TRUE, segwit |-> FALSE])) >>,
        Result([p2sh |-> TRUE, segwit |-> TRUE]))

\* address: the form it has on this network.
handle_validate_address(q, A) ==
    CASE q.address = "p2kh" -> Result([isvalid |-> TRUE, isscript |-> FALSE, iswitness |-> FALSE])
      [] q.address = "p2sh" -> Result([isvalid |-> TRUE, isscript |-> TRUE, iswitness |-> FALSE])
      [] q.address = "p2wkh" -> Result([isvalid |-> TRUE, isscript |-> FALSE, iswitness |-> TRUE])
      [] q.address = "p2wsh" -> Result([isvalid |-> TRUE, isscript |-> TRUE, iswitness |-> TRUE])
      [] OTHER -> Result([isvalid |-> FALSE])

MaximumKeys == 16

\* keys: their number; validkeys: all decode and the script fits.
handle_create_multisig(q, A) ==
    FirstOf(<<
        Return(~to_size(q.nrequired) \/ q.nrequired = 0 \/ q.nrequired > q.keys,
               Error("invalid_parameter")),
        Return(q.keys > MaximumKeys, Error("invalid_parameter")),
        Return(q.address_type \notin {"legacy", "p2sh-segwit", "bech32"},
               Error("invalid_address_or_key")),
        Return(~q.validkeys, Error("invalid_address_or_key")) >>,
        Result([required |-> q.nrequired, keys |-> q.keys, form |-> q.address_type]))

MaximumRange == 10000

\* range: <<begin, end>>, <<>> when it is left out, <<Bad>> when it is none.
handle_derive_addresses(q, A) ==
    LET given == q.range # <<>>
        range == IF Len(q.range) = 2 THEN q.range ELSE <<0, 0>>
    IN  FirstOf(<<
        Return(q.key = Bad, Error("invalid_address_or_key")),
        Return(q.ranged # given, Error("invalid_parameter")),
        Return(Len(q.range) = 1, Error("invalid_parameter")),
        Return(FlooredSubtract(range[2], range[1]) >= MaximumRange, Error("invalid_parameter")),
        Return(q.scripts # 1 /\ range[1] <= range[2], Error("invalid_address_or_key")) >>,
        Result([addresses |-> range[1]..range[2]]))

handle_get_descriptor_info(q, A) ==
    IF q.key = Bad THEN Error("invalid_address_or_key")
    ELSE Result([descriptor |-> q.key, isrange |-> q.ranged])

handle_verify_message(q, A) ==
    FirstOf(<<
        Return(q.address = Bad, Error("invalid_address_or_key")),
        Return(q.signature = Bad, Error("type_error")) >>,
        Result([verified |-> q.signature = "signed"]))

handle_get_index_info(q, A) ==
    LET status == [synced |-> is_coalesced(A[1]), height |-> get_top_confirmed(A[2])]
        indexes == (IF q.index \in {Absent, "txindex"} THEN {"txindex"} ELSE {})
            \union (IF FilterEnabled /\ q.index \in {Absent, "filter"} THEN {"filter"} ELSE {})
    IN  Result([i \in indexes |-> status])

MaximumHorizon == 1008              \* node::estimator::maximum_horizon

\* "unset" is economical.
handle_estimate_smart_fee(q, A) ==
    FirstOf(<<
        Return(~to_size(q.target) \/ q.target = 0 \/ q.target > MaximumHorizon,
               Error("invalid_parameter")),
        Return(q.mode \notin {"unset", "economical", "conservative"},
               Error("invalid_parameter")),
        Return(q.verdict = "fault", Error("internal_error")),
        Return(q.verdict = "unavailable", Result([errors |-> 1, blocks |-> q.target])) >>,
        Result([feerate |-> TRUE, blocks |-> q.target]))

-----------------------------------------------------------------------------
(* Test and wallet: every method is known and declined.                    *)

handle_test(q, A) == Error("method_not_found")
handle_wallet(q, A) == Error("method_not_found")
handle_sign_message_with_priv_key(q, A) == Error("method_not_found")
-----------------------------------------------------------------------------
\* The handler of a method (the start of control, mining, utility, test and wallet).
Subscribed(q, A) ==
    CASE q.method = "help" -> handle_help(q, A)
      [] q.method = "stop" -> handle_stop(q, A)
      [] q.method = "get_memory_info" -> handle_get_memory_info(q, A)
      [] q.method = "get_openrpc_info" -> handle_get_openrpc_info(q, A)
      [] q.method = "rpc_discover" -> handle_rpc_discover(q, A)
      [] q.method = "get_rpc_info" -> handle_get_rpc_info(q, A)
      [] q.method = "logging" -> handle_logging(q, A)
      [] q.method = "uptime" -> handle_uptime(q, A)
      [] q.method = "get_network_hash_ps" -> handle_get_network_hash_ps(q, A)
      [] q.method = "get_mining_info" -> handle_get_mining_info(q, A)
      [] q.method = "submit_header" -> handle_submit_header(q, A)
      [] q.method = "submit_block" -> handle_submit_block(q, A)
      [] q.method = "get_block_template" -> handle_get_block_template(q, A)
      [] q.method = "get_prioritised_transactions" -> handle_get_prioritised_transactions(q, A)
      [] q.method = "prioritise_transaction" -> handle_prioritise_transaction(q, A)
      [] q.method = "decode_script" -> handle_decode_script(q, A)
      [] q.method = "validate_address" -> handle_validate_address(q, A)
      [] q.method = "create_multisig" -> handle_create_multisig(q, A)
      [] q.method = "derive_addresses" -> handle_derive_addresses(q, A)
      [] q.method = "get_descriptor_info" -> handle_get_descriptor_info(q, A)
      [] q.method = "verify_message" -> handle_verify_message(q, A)
      [] q.method = "get_index_info" -> handle_get_index_info(q, A)
      [] q.method = "estimate_smart_fee" -> handle_estimate_smart_fee(q, A)
      [] q.method = "test" -> handle_test(q, A)
      [] q.method = "wallet" -> handle_wallet(q, A)
      [] q.method = "sign_message_with_priv_key" -> handle_sign_message_with_priv_key(q, A)

\* The answer once the node has given verdict v.
Completed(q, v, A) ==
    CASE q.method = "submit_header" -> do_submit_header(q, v, A)
=============================================================================
