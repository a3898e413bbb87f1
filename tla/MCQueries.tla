------------------------------ MODULE MCQueries ------------------------------
(* Two branches over the genesis block (g, a1, a2 and g, b1, b2), a chain   *)
(* of loose transactions that two of the blocks confirm (t3 spends what t2  *)
(* does), two keys, three peers, and every method of every interface.       *)
EXTENDS Queries

MCBlock == {"g", "a1", "a2", "b1", "b2"}
MCParent == [g |-> Unknown, a1 |-> "g", a2 |-> "a1", b1 |-> "g", b2 |-> "b1"]
MCTxs == [g |-> <<"cg">>, a1 |-> <<"ca1", "t1">>, a2 |-> <<"ca2", "t2">>,
          b1 |-> <<"cb1">>, b2 |-> <<"cb2", "t1">>]
MCTx == {"cg", "ca1", "ca2", "cb1", "cb2", "t1", "t2", "t3"}
MCPrevouts == [t \in MCTx |->
    CASE t = "t1" -> {<<"cg", 1>>} [] t \in {"t2", "t3"} -> {<<"t1", 1>>} [] OTHER -> {}]
MCPays == [t \in MCTx |->
    CASE t = "t1" -> <<"k1", "k2">> [] t \in {"t3", "cg"} -> <<"k1">> [] OTHER -> <<"k2">>]
MCStamp == [g |-> 0, a1 |-> 1, a2 |-> 2, b1 |-> 1, b2 |-> 1]

MCPeer == {"p1", "p2", "p3"}
MCGroup == [p1 |-> "inbound", p2 |-> "outbound", p3 |-> "manual"]
MCNetwork == [p1 |-> "ipv4", p2 |-> "ipv6", p3 |-> "ipv4"]

\* Blocks to confirm, a reorganization to make, a block ahead of its parent,
\* a chain whose pool has transactions that no block of it confirms, and a top
\* that two changes replace.
Snapshot(conf, cand, bodies, pooled) ==
    [conf |-> conf, cand |-> cand, bodies |-> bodies, pooled |-> pooled,
     peers |-> {"p1", "p3"}, closed |-> {}, hosts |-> {"p1", "p2"}, suspended |-> FALSE]
MCStart == {
    Snapshot(<<"g", "a1">>, <<"g", "a1", "a2">>, {"g", "a1", "a2"}, {"t2"}),
    Snapshot(<<"g", "a1", "a2">>, <<"g", "b1", "b2">>, MCBlock, {"t1"}),
    Snapshot(<<"g">>, <<"g", "a1", "a2">>, {"g", "a2"}, {}),
    Snapshot(<<"g", "b1">>, <<"g", "b1">>, {"g", "b1"}, {"t1", "t2"}),
    Snapshot(<<"g", "a1">>, <<"g", "b1", "b2">>, MCBlock, {"t2"}) }

-----------------------------------------------------------------------------
(* Requests.                                                               *)

Hash == {"a1", "b1", "b2", Unknown}
Txid == {"t1", "t2", Unknown}
At == {<<"hash", "a1">>, <<"hash", Unknown>>, <<"height", 1>>, <<"height", 2>>,
       <<"height", NotInteger>>, <<"other", 0>>}
Numbers == {0, 1, 2, NotInteger}

\* Methods without parameters that matter.
Plain(interface, methods) == [interface : {interface}, method : methods]

BlockchainRequest ==
    Plain("blockchain", {"get_best_block_hash", "get_block_chain_info", "get_block_count",
        "get_chain_states", "get_chain_tips", "get_difficulty", "get_mempool_info",
        "get_mempool_cluster", "prune_block_chain", "verify_chain", "dump_tx_out_set",
        "load_tx_out_set", "get_block_from_peer"})
    \union [interface : {"blockchain"}, method : {"get_block"}, hash : Hash \union {Bad},
            verbosity : {0, 1, 2, 3, NotInteger}]
    \union [interface : {"blockchain"}, method : {"get_block_filter"}, hash : {"a1", "b1", Bad},
            basic : BOOLEAN]
    \union [interface : {"blockchain"}, method : {"get_block_hash"}, height : Numbers \union {-1}]
    \union [interface : {"blockchain"}, method : {"get_block_header"}, hash : Hash \union {Bad},
            verbose : BOOLEAN]
    \union [interface : {"blockchain"}, method : {"get_block_stats"}, at : At,
            stats : {"all", "nontext", "unnamed"}]
    \union [interface : {"blockchain"}, method : {"get_chain_tx_stats"},
            hash : {Absent, "a1", "b1", Bad}, nblocks : {-1, 0, 1, 2, NotInteger}]
    \union [interface : {"blockchain"}, method : {"get_tx_out"}, txid : Txid \union {Bad},
            n : {0, 1, 5}, mempool : BOOLEAN]
    \union [interface : {"blockchain"}, method : {"get_tx_out_set_info"},
            at : At \union {<<"null", 0>>}, type : {"none"}, index : BOOLEAN]
    \union [interface : {"blockchain"}, method : {"save_mempool"}, verdict : {"success", "fault"}]
    \union [interface : {"blockchain"}, method : {"scan_tx_out_set"},
            action : {"start", "status", "abort", "other"}, key : {"k1", Bad}]
    \union [interface : {"blockchain"}, method : {"get_tx_out_proof"},
            txids : {<<>>, <<"t1">>, <<"t1", "t1">>, <<"t1", "t2">>, <<Bad>>},
            hash : {Absent, "a1", "b1", Bad}]
    \union [interface : {"blockchain"}, method : {"verify_tx_out_proof"},
            proof : {"a1", "b1", Bad, "malformed", "invalid"}]
    \union [interface : {"blockchain"}, method : {"get_deployment_info"},
            hash : {Absent, "a1", Unknown, Bad}]
    \union [interface : {"blockchain"}, method : {"get_descriptor_activity"},
            hash : {Absent, "a2", Bad}, key : {"k1", Bad}, mempool : BOOLEAN]
    \union [interface : {"blockchain"}, method : {"precious_block"}, hash : {"a1", Bad},
            verdict : {"success", "not_found", "fault"}]
    \union [interface : {"blockchain"}, method : {"scan_blocks"}, action : {"start"},
            basic : {TRUE}, key : {"k1", Absent, Bad}, start : Numbers, stop : {-1, 1}]
    \union [interface : {"blockchain"}, verbose : BOOLEAN, txid : {"t1", "t2", Bad},
            method : {"get_mempool_ancestors", "get_mempool_descendants", "get_mempool_entry"}]
    \union [interface : {"blockchain"}, method : {"get_raw_mempool"}, verbose : BOOLEAN,
            sequence : BOOLEAN]
    \union [interface : {"blockchain"}, method : {"get_tx_spending_prevout"}, txid : {"t1", Bad},
            n : {0, NotInteger}, mempool_only : BOOLEAN, outputs : {"given"}, options : {"given"}]
    \union [interface : {"blockchain"}, method : {"import_mempool"}, options : {"none", "invalid"},
            verdict : {"success", "fault"}, txs : {<<"t1", "t2">>, <<"t3", "t1">>}]

RestRequest ==
    [interface : {"rest"}, media : {"json", "data", "html"}, hash : Hash \union {Absent},
     method : {"get_block", "get_block_txs", "get_block_spent_tx_outputs", "get_block_filter"}]
    \union [interface : {"rest"}, method : {"get_block_part"}, hash : {"a1", Absent},
            media : {"json", "data"}, part : {"within", "beyond"}]
    \union [interface : {"rest"}, method : {"get_tx"}, txid : Txid \union {Absent},
            media : {"json", "data", "html"}]
    \union [interface : {"rest"}, method : {"get_block_hash"}, height : {0, 1, 5},
            media : {"json", "html"}]
    \union [interface : {"rest"}, method : {"get_block_headers", "get_block_filter_headers"},
            hash : Hash \union {Absent}, count : {0, 1, 2}, media : {"data"}]
    \union [interface : {"rest"}, method : {"get_utxos"}, txid : Txid, n : {0, 1},
            mempool : BOOLEAN, outpoints : {0, 1}, media : {"json"}]
    \union [interface : {"rest"}, method : {"get_mempool"}, verbose : BOOLEAN, sequence : BOOLEAN]
    \union [interface : {"rest"}, method : {"get_deployment_info"}, hash : {Absent, "a1", Unknown}]
    \union Plain("rest", {"get_chain_information", "get_mempool_information"})
Input(utxo, final, unsigned) ==
    [utxo |-> utxo, final |-> final, unsigned |-> unsigned, derived |-> {}]
Doc(t, text, valid, in) == [tx |-> t, text |-> text, valid |-> valid, ins |-> <<in>>]
Docs == {Doc("t1", TRUE, TRUE, Input(TRUE, FALSE, FALSE)),
         Doc("t1", TRUE, TRUE, Input(TRUE, TRUE, FALSE)),
         Doc("t2", TRUE, TRUE, Input(FALSE, FALSE, TRUE)),
         Doc("t1", TRUE, FALSE, Input(TRUE, FALSE, TRUE)),
         Doc("t1", FALSE, FALSE, Input(TRUE, FALSE, TRUE))}
Raw == [interface : {"transaction"}, version : {2, 9}, locktime : {0, 1, NotInteger},
        replaceable : BOOLEAN, container : {"array", "text"}, psbt_version : {0, 1},
        inputs : {<<"sequenced", "plain">>, <<"nonobject">>, <<"badsequence">>},
        outputs : {<<"address">>, <<"badaddress">>, <<"baddata">>, <<"nonnumber">>}]
Packages == {<<>>, <<"t1">>, <<"t2">>, <<"t3">>, <<"t2", "t3">>, <<"t1", "t3">>}
Encodings == {"witness", "neither", "nontext", Bad}

TransactionRequest ==
    {[interface |-> "transaction", method |-> m, version |-> r.version, locktime |-> r.locktime,
      replaceable |-> r.replaceable, container |-> r.container, inputs |-> r.inputs,
      outputs |-> r.outputs, psbt_version |-> r.psbt_version] :
        m \in {"create_raw_transaction", "create_psbt"},
        r \in {x \in Raw : x.locktime = 0 \/ (x.version = 2 /\ x.container = "array")}}
    \union [interface : {"transaction"}, method : {"decode_raw_transaction", "convert_to_psbt"},
            iswitness : {"true", "false", "unset"}, encoding : {"witness", "legacy", "neither", Bad},
            psbt_version : {0, 1}, signed : BOOLEAN, permitsigdata : BOOLEAN]
    \union [interface : {"transaction"}, method : {"get_raw_transaction"}, txid : Txid \union {Bad},
            verbosity : {0, 1, 2, NotInteger}]
    \union [interface : {"transaction"}, method : {"send_raw_transaction"},
            txs : {<<"t1">>, <<"t2">>, <<"t3">>}, encoding : {"witness", "neither", Bad}]
    \union [interface : {"transaction"}, method : {"test_mempool_accept", "submit_package"},
            txs : Packages, encoding : Encodings]
    \union [interface : {"transaction"}, method : {"combine_raw_transaction"},
            encoding : Encodings, multisig : BOOLEAN,
            variants : {<<>>, <<[tx |-> "t2", sigs |-> {}], [tx |-> "t2", sigs |-> {1}]>>,
                        <<[tx |-> "t2", sigs |-> {1}], [tx |-> "t2", sigs |-> {2}]>>}]
    \union [interface : {"transaction"}, method : {"analyze_psbt", "decode_psbt", "finalize_psbt"},
            docs : {<<d>> : d \in Docs}, extract : BOOLEAN]
    \union [interface : {"transaction"}, method : {"combine_psbt", "join_psbts"},
            docs : {<<>>} \union {<<d>> : d \in Docs} \union {<<d, e>> : d, e \in Docs}]
    \union [interface : {"transaction"}, method : {"utxo_update_psbt"},
            docs : {<<d>> : d \in Docs}, keys : {{"k1"}, {Bad}, {}}]
    \union Plain("transaction", {"descriptor_process_psbt", "abort_private_broadcast",
            "get_private_broadcast_info", "sign_raw_transaction_with_key"})

NetworkRequest ==
    Plain("network", {"get_network_info", "get_connection_count", "get_addrman_info",
        "get_peer_info", "clear_banned", "list_banned", "set_ban", "export_asmap", "ping"})
    \union [interface : {"network"}, method : {"get_net_totals"}, verdict : {"success", "fault"}]
    \union [interface : {"network"}, method : {"get_node_addresses"}, count : {0, 1, NotInteger},
            network : {Absent, Bad, "ipv6"}]
    \union [interface : {"network"}, method : {"get_added_node_info"}, node : {Absent, "p1", "p3"}]
    \union [interface : {"network"}, method : {"add_node"}, node : {"p1", "p2", Bad},
            nodeid : {Absent}, v2transport : BOOLEAN,
            command : {"add", "onetry", "remove", "other"}]
    \union [interface : {"network"}, method : {"disconnect_node"},
            node : {Absent, "p1", "p2", Bad}, nodeid : {Absent, "p3", Bad}]
    \union [interface : {"network"}, method : {"set_network_active"}, state : BOOLEAN, full : BOOLEAN]

NodeRequest ==
    Plain("node", {"stop", "get_openrpc_info", "rpc_discover", "get_rpc_info", "submit_block",
        "get_block_template", "get_prioritised_transactions", "prioritise_transaction",
        "test", "wallet", "sign_message_with_priv_key", "get_mining_info"})
    \union [interface : {"node"}, method : {"help"}, command : {Absent, "implemented", Unknown}]
    \union [interface : {"node"}, method : {"get_memory_info"}, mode : {"stats", "other"}]
    \union [interface : {"node"}, method : {"logging"}, include : {<<>>, <<"net">>}, exclude : {<<>>}]
    \union [interface : {"node"}, method : {"uptime"}, now : {2}, start : {1, 3}]
    \union [interface : {"node"}, method : {"get_network_hash_ps"}, height : Numbers \union {-1},
            nblocks : {-1, 1, 9, NotInteger}]
    \union [interface : {"node"}, method : {"submit_header"}, hash : {"a2", "b1", "b2"},
            encoding : {"header", "invalid", Bad}]
    \union [interface : {"node"}, method : {"decode_script"},
            script : {Bad, "invalid", "witness", "nulldata", "key"}]
    \union [interface : {"node"}, method : {"validate_address"},
            address : {"p2kh", "p2sh", "p2wkh", "p2wsh", Bad}]
    \union [interface : {"node"}, method : {"create_multisig"}, nrequired : {0, 1, 3}, keys : {2, 17},
            address_type : {"legacy", "other"}, validkeys : BOOLEAN]
    \union [interface : {"node"}, method : {"derive_addresses"}, key : {"k1", Bad}, ranged : BOOLEAN,
            range : {<<>>, <<Bad>>, <<0, 2>>, <<0, 10000>>}, scripts : {1, 2}]
    \union [interface : {"node"}, method : {"get_descriptor_info"}, key : {"k1", Bad}, ranged : BOOLEAN]
    \union [interface : {"node"}, method : {"verify_message"}, address : {"k1", Bad},
            signature : {"signed", "other", Bad}]
    \union [interface : {"node"}, method : {"get_index_info"}, index : {Absent, "txindex", "filter"}]
    \union [interface : {"node"}, method : {"estimate_smart_fee"}, target : {0, 1, 1009},
            mode : {"unset", "conservative", "other"}, verdict : {"success", "unavailable", "fault"}]

Version == {9000, Electrum!v1_0, Electrum!v1_1, Electrum!v1_3, Electrum!v1_4, Electrum!v1_7}
Late == {Electrum!v1_4, Electrum!v1_7}

ElectrumRequest ==
    [interface : {"electrum"}, method : {"blockchain_block_get_chunk"}, index : {0, 1, NotInteger},
     version : {Electrum!v1_3, Electrum!v1_4}]
    \union [interface : {"electrum"}, method : {"blockchain_block_get_header"},
            height : Numbers, version : {Electrum!v1_3, Electrum!v1_4}]
    \union [interface : {"electrum"}, method : {"blockchain_block_header"}, height : Numbers,
            cp_height : Numbers, version : {Electrum!v1_1, Electrum!v1_7}]
    \union [interface : {"electrum"}, method : {"blockchain_block_headers"}, height : {0, 1},
            count : {0, 1, 9}, cp_height : Numbers, version : {Electrum!v1_3, Electrum!v1_7}]
    \union [interface : {"electrum"}, method : {"blockchain_transaction_broadcast"},
            txs : {<<"t1">>, <<"t3">>}, encoding : {"witness", Bad}, version : Version]
    \union [interface : {"electrum"}, txs : Packages, encoding : {"witness", Bad}, verbose : BOOLEAN,
            method : {"blockchain_transaction_broadcast_package",
                      "blockchain_transaction_testmempoolaccept"}, version : Late]
    \union [interface : {"electrum"}, method : {"blockchain_transaction_get"},
            txid : Txid \union {Bad}, verbose : BOOLEAN, version : {Electrum!v1_1, Electrum!v1_4}]
    \union [interface : {"electrum"}, method : {"blockchain_transaction_get_merkle"},
            txid : Txid \union {Bad}, height : Numbers, version : {Electrum!v1_3, Electrum!v1_4}]
    \union [interface : {"electrum"}, method : {"blockchain_transaction_id_from_position"},
            height : {1, 2, NotInteger}, pos : {0, 1, 5}, merkle : BOOLEAN, version : Late]
    \union [interface : {"electrum"}, key : {"k1", "k2", Bad}, version : {Electrum!v1_0, Electrum!v1_4},
            method : {"blockchain_address_get_balance", "blockchain_address_get_history",
                      "blockchain_address_get_mempool", "blockchain_address_list_unspent"}]
    \union [interface : {"electrum"}, key : {"k1", Bad},
            version : {Electrum!v1_0, Electrum!v1_4, Electrum!v1_7},
            method : {"blockchain_scripthash_get_balance", "blockchain_scripthash_get_history",
                      "blockchain_scripthash_get_mempool", "blockchain_scripthash_list_unspent"}]
    \union [interface : {"electrum"}, key : {"k2", Bad}, version : Late,
            method : {"blockchain_scriptpubkey_get_balance", "blockchain_scriptpubkey_get_history",
                      "blockchain_scriptpubkey_get_mempool", "blockchain_scriptpubkey_list_unspent"}]
    \union [interface : {"electrum"}, method : {"blockchain_utxo_get_address"},
            txid : Txid \union {Bad}, n : {0, 5}, version : {Electrum!v1_0, Electrum!v1_4}]
    \union [interface : {"electrum"}, method : {"blockchain_outpoint_get_status"},
            txid : Txid \union {Bad}, n : {0, 5}, hint : {Absent, Bad}, version : Late]
    \union [interface : {"electrum"}, method : {"blockchain_estimate_fee"}, target : {1, NotInteger},
            mode : {Absent, "basic", "other"}, verdict : {"success", "unavailable", "fault"},
            version : {9000, Electrum!v1_4, Electrum!v1_7}]
    \union [interface : {"electrum"}, version : {9000, Electrum!v1_4, Electrum!v1_7},
            method : {"blockchain_relay_fee", "mempool_get_info", "server_add_peer",
                      "server_banner", "server_donation_address", "server_peers_subscribe",
                      "server_features"}]
    \union [interface : {"electrum"}, method : {"mempool_get_fee_histogram", "mempool_recent"},
            verdict : {"success", "fault"}, version : Late]
    \union [interface : {"electrum"}, method : {"server_ping"}, data : {"given", Bad},
            pong_len : {0, 2000, NotInteger}, version : {Electrum!v1_1, Electrum!v1_4, Electrum!v1_7}]

Medias == {"json", "text", "data", "html"}

EsploraRequest ==
    [interface : {"esplora"}, method : {"get_block", "get_block_header", "get_block_status",
        "get_block_txids"}, hash : Hash, media : Medias]
    \union [interface : {"esplora"}, method : {"get_block_txs"}, hash : {"a1", Unknown},
            start : {0, 1, 2}, media : {"json", "text"}]
    \union [interface : {"esplora"}, method : {"get_block_txid"}, hash : {"a1", Unknown},
            pos : {1, 2}, media : {"json", "text"}]
    \union [interface : {"esplora"}, method : {"get_block_height"}, height : {1, 2}, media : {"text", "json"}]
    \union [interface : {"esplora"}, method : {"get_blocks"}, height : {-1, 1, 5}, media : {"text", "json"}]
    \union [interface : {"esplora"}, method : {"get_tip_height", "get_tip_hash"}, media : {"text", "json"}]
    \union [interface : {"esplora"}, method : {"get_tx", "get_tx_status", "get_tx_merkleblock_proof",
            "get_tx_merkle_proof", "get_tx_outspends"}, txid : Txid, media : Medias]
    \union [interface : {"esplora"}, method : {"get_tx_outspend"}, txid : Txid, n : {0, 5},
            media : {"text", "json"}]
    \union [interface : {"esplora"}, method : {"broadcast", "broadcast_package"}, txs : Packages \ {<<>>},
            encoding : {"witness", Bad}, media : {"text", "json"}]
    \union [interface : {"esplora"}, method : {"get_address", "get_address_txs",
            "get_address_txs_mempool", "get_address_utxo"}, key : {"k1", "k2", Bad},
            media : {"text", "json"}]
    \union [interface : {"esplora"}, method : {"get_address_txs_chain"}, key : {"k1", "k2", Bad},
            last_seen : {Absent, "t1", Unknown}, media : {"json"}]
    \union [interface : {"esplora"}, method : {"get_mempool", "get_mempool_txids",
            "get_mempool_recent", "get_fee_estimates"},
            verdict : {"success", "unavailable", "fault"}, media : {"text", "json"}]

BlockAt == [interface : {"native"}, media : Medias, hash : {"a1", "a2", Unknown}, height : {0},
            method : {"get_block", "get_block_header", "get_block_header_context",
                      "get_block_details", "get_block_txs"}]
    \union [interface : {"native"}, media : {"json"}, hash : {Absent}, height : {1, 5},
            method : {"get_block", "get_block_header", "get_block_header_context",
                      "get_block_details", "get_block_txs"}]

NativeRequest ==
    BlockAt
    \union [interface : {"native"}, media : {"json", "html"}, hash : {"a1", "a2"}, height : {0},
            method : {"get_block_filter", "get_block_filter_hash", "get_block_filter_header"},
            neutrino : BOOLEAN]
    \union [interface : {"native"}, media : {"json"}, hash : {"a1", Absent}, height : {1},
            method : {"get_block_tx"}, pos : {1, 2}]
    \union [interface : {"native"}, method : {"get_top", "get_configuration"}, media : Medias]
    \union [interface : {"native"}, method : {"get_tx", "get_tx_header", "get_tx_details",
            "get_inputs", "get_outputs"}, txid : Txid, media : Medias]
    \union [interface : {"native"}, method : {"get_input", "get_input_script", "get_input_witness",
            "get_output", "get_output_script", "get_output_spender", "get_output_spenders"},
            txid : Txid, n : {0, 5}, signed : BOOLEAN, media : {"json", "html"}]
    \union [interface : {"native"}, method : {"get_address", "get_address_confirmed",
            "get_address_unconfirmed", "get_address_balance"}, key : {"k1", "k2", Unknown},
            media : {"json", "html"}]
    \union [interface : {"native"}, stop : BOOLEAN, media : {"json", "html"},
            method : {"get_top_subscribe", "get_block_subscribe", "get_tx_subscribe"}]
    \union [interface : {"native"}, stop : BOOLEAN, media : {"json"}, txid : {"t1"}, n : {0},
            key : {"k1"}, method : {"get_output_subscribe", "get_address_subscribe"}]

BtcdRequest ==
    [interface : {"btcd"}, method : {"estimate_fee"}, target : {0, 1, 1009},
     verdict : {"success", "unavailable", "fault"}]
    \union Plain("btcd", {"get_best_block", "get_block_chain_info", "get_current_net",
            "get_difficulty", "get_info", "version", "session"})
    \union [interface : {"btcd"}, method : {"get_cfilter", "get_cfilter_header"},
            hash : {"a1", Unknown, Bad}, basic : BOOLEAN]
    \union [interface : {"btcd"}, method : {"get_headers"}, stop : {"a2", Bad, Unknown},
            locator : {<<>>, <<"b1", "a1">>, <<Bad>>}]
    \union [interface : {"btcd"}, method : {"get_net_totals"}, verdict : {"success", "fault"}]
    \union [interface : {"btcd"}, method : {"node"}, command : {"connect", "remove", "disconnect", "other"},
            connect : {"temp", "other"}, node : {"p1", "p2", Bad}, nodeid : {Absent}]
    \union [interface : {"btcd"}, method : {"search_raw_transactions"}, key : {"k1", Bad},
            skip : {-1, 1, NotInteger}, count : {0, 1, 5}, filter : {{}, {"k1"}, {Bad}},
            prevouts : {FALSE}, reverse : BOOLEAN, verbose : BOOLEAN]
    \union [interface : {"btcd"}, method : {"rescan_blocks", "rescan"}, watched : {{}, {"k1"}},
            hash : {"a1", "b1", Unknown, Bad, "nonarray"}]

MCRequest == BlockchainRequest \union RestRequest \union TransactionRequest \union NetworkRequest
    \union NodeRequest \union ElectrumRequest \union EsploraRequest \union NativeRequest
    \union BtcdRequest
=============================================================================
