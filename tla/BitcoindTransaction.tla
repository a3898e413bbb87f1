------------------------- MODULE BitcoindTransaction -------------------------
(***************************************************************************)
(* The handlers of protocol_bitcoind_transaction.cpp, in the form          *)
(* described in BitcoindBlockchain.  A handler that submits to the node    *)
(* returns Pending; complete_x(q, v, A) is its answer once the node has    *)
(* given verdict v.  A psbt is a record: whether it is text and decodes,   *)
(* its transaction and version and, for each input, whether it has a utxo, *)
(* is final, lacks signatures, and the keys that are derived for it.       *)
(***************************************************************************)
EXTENDS Archive

LOCAL Json == INSTANCE BitcoindBlockchain

Pending == [pending |-> TRUE]
MaximumPackage == 25

-----------------------------------------------------------------------------
(* Raw transactions.                                                       *)

InputFault(x) ==
    CASE x = "nonobject" -> "type_error"
      [] x \in {"nofields", "undecoded", "badsequence"} -> "invalid_parameter"
      [] OTHER -> "success"

OutputFault(x) ==
    CASE x = "baddata" -> "invalid_parameter"
      [] x = "badaddress" -> "invalid_address_or_key"
      [] x \in {"nonobject", "nonnumber", "overmaximum"} -> "type_error"
      [] OTHER -> "success"

\* The first fault of a sequence of faults.
FirstFault(faults) == Head(SelectSeq(faults, LAMBDA f : f # "success") \o <<"success">>)

DefaultSequence(q) ==
    IF q.replaceable THEN "bip125" ELSE IF q.locktime = 0 THEN "max" ELSE "max - 1"

parse_transaction(q) ==
    LET inFault == FirstFault([i \in DOMAIN q.inputs |-> InputFault(q.inputs[i])])
        outFault == FirstFault([i \in DOMAIN q.outputs |-> OutputFault(q.outputs[i])])
    IN  FirstOf(<<
        Return(~to_size(q.locktime), Error("invalid_parameter")),
        Return(q.version \notin 1..3, Error("invalid_parameter")),
        Return(inFault # "success", Error(inFault)),
        Return(q.container \notin {"object", "array"}, Error("type_error")),
        Return(outFault # "success", Error(outFault)) >>,
        Result([version |-> q.version, locktime |-> q.locktime,
                sequences |-> [i \in DOMAIN q.inputs |->
                    IF q.inputs[i] = "sequenced" THEN "given" ELSE DefaultSequence(q)]]))

handle_create_raw_transaction(q, A) == parse_transaction(q)

\* encoding: what the text decodes as ("witness", "legacy", "neither", Bad).
Decodes(q) ==
    CASE q.iswitness = "true" -> q.encoding = "witness"
      [] q.iswitness = "false" -> q.encoding = "legacy"
      [] OTHER -> q.encoding \in {"witness", "legacy"}

handle_decode_raw_transaction(q, A) ==
    FirstOf(<<
        Return(q.encoding = Bad, Error("deserialization_error")),
        Return(~Decodes(q), Error("deserialization_error")) >>,
        Result([tx |-> q.encoding]))

handle_get_raw_transaction(q, A) ==
    LET link == to_tx(A[1], q.txid)
        context == Json!inject_tx_context(A, 2, link)
    IN  FirstOf(<<
        Return(q.txid = Bad, Error("invalid_parameter")),
        Return(link = Terminal, Error("invalid_address_or_key")),
        Return(~to_int(q.verbosity), Error("misc_error")),
        Return(q.verbosity <= 0, Result([hex |-> link])),
        Return(q.verbosity = 1 \/ IsCoinbase(link) \/ ~populate(A[5], link),
               Result([tx |-> link, context |-> context])) >>,
        Result([tx |-> link, context |-> context,
                prevouts |-> Json!inject_tx_prevouts(A[6], link)]))

handle_send_raw_transaction(q, A) ==
    LET link == to_tx(A[1], q.txs[1]) IN
    FirstOf(<<
        Return(q.encoding = Bad \/ q.encoding = "neither", Error("deserialization_error")),
        Return(/\ link # Terminal /\ is_confirmed_tx(A[2], link)
               /\ \E o \in Outs(link) : ~is_confirmed_spent(A[3], o),
               Error("verify_already_in_utxo_set")) >>,
        Pending)

complete_submit_tx(q, v, A) ==
    LET missing == v.code \in {"missing_previous_output", "confirmed_double_spend"} IN
    FirstOf(<<
        Return(v.code = "duplicate_transaction" /\ is_confirmed_tx(A[1], to_tx(A[1], q.txs[1])),
               Error("verify_error")),
        Return(v.code \notin {"success", "duplicate_transaction"},
               Error(IF missing THEN "verify_error" ELSE "verify_rejected")) >>,
        Result([txid |-> q.txs[1]]))

\* The texts of a package; "nontext" for an item that is none.
PackageFault(q, maximum) ==
    FirstOf(<<
        Return(q.txs = <<>> \/ Len(q.txs) > maximum, Error("invalid_parameter")),
        Return(q.encoding = "nontext", Error("type_error")),
        Return(q.encoding \in {Bad, "neither"}, Error("deserialization_error")) >>,
        Pending)

handle_test_mempool_accept(q, A) == PackageFault(q, Len(q.txs))

complete_test_package(q, v, A) ==
    Result([i \in DOMAIN q.txs |->
        IF v.code = "success" THEN [txid |-> q.txs[i], allowed |-> TRUE]
        ELSE [txid |-> q.txs[i], allowed |-> FALSE, reason |-> v.code]])

handle_submit_package(q, A) == PackageFault(q, MaximumPackage)

\* The fee of each transaction is read back from the store.
package_result(a, v, txs) ==
    LET failed == v.code \notin {"success", "duplicate_transaction"} IN
    FirstOf(<<
        Return(failed, Result([i \in DOMAIN txs |->
            [txid |-> txs[i],
             error |-> IF i = v.index THEN v.code ELSE "package-not-validated"]])),
        Return(\E i \in DOMAIN txs : to_tx(a, txs[i]) = Terminal, Error("internal_error")) >>,
        Result([i \in DOMAIN txs |-> [txid |-> txs[i]]]))

complete_package(q, v, A) == package_result(A[1], v, q.txs)

\* variants[i].sigs: the keys that have signed the first input of variant i.
combine_input(a, q) ==
    LET t == q.variants[1].tx
        o == CHOOSE p \in Prevouts[t] : TRUE
        signing == SelectSeq(q.variants, LAMBDA v : v.sigs # {})
    IN  FirstOf(<<
        Return(to_tx(a, o[1]) = Terminal \/ is_confirmed_spent(a, o), Error("verify_error")),
        Return(q.multisig /\ signing # <<>>,
               Result([tx |-> t, sigs |-> UNION {v.sigs : v \in Range(q.variants)}])),
        Return(signing # <<>>, Result([tx |-> t, sigs |-> Head(signing).sigs])) >>,
        Result([tx |-> t, sigs |-> {}]))

handle_combine_raw_transaction(q, A) ==
    FirstOf(<<
        Return(q.encoding \in {"nontext", Bad, "neither"}, Error("deserialization_error")),
        Return(q.variants = <<>>, Error("invalid_parameter")) >>,
        combine_input(A[1], q))

-----------------------------------------------------------------------------
(* PSBT.                                                                   *)

NotPsbt(doc) == ~doc.text \/ ~doc.valid

handle_analyze_psbt(q, A) ==
    LET doc == q.docs[1]
        next(in) == IF in.utxo THEN "signer" ELSE "updater"
        final == \A i \in DOMAIN doc.ins : doc.ins[i].final
        missing == \E i \in DOMAIN doc.ins : ~doc.ins[i].utxo
    IN  IF NotPsbt(doc) THEN Error("deserialization_error")
        ELSE Result([inputs |-> [i \in DOMAIN doc.ins |->
                        [has_utxo |-> doc.ins[i].utxo, is_final |-> doc.ins[i].final,
                         next |-> IF doc.ins[i].final THEN Absent ELSE next(doc.ins[i])]],
                     next |-> IF final THEN "extractor"
                              ELSE IF missing THEN "updater" ELSE "signer"])

\* What is wrong with the texts, in order.
DocsFault(docs) ==
    FirstFault([i \in DOMAIN docs |->
        IF ~docs[i].text THEN "type_error"
        ELSE IF ~docs[i].valid THEN "deserialization_error"
        ELSE IF docs[i].tx # docs[1].tx THEN "invalid_parameter" ELSE "success"])

\* Documents of one transaction are combined (external).
CombineIns(x, y) ==
    [i \in DOMAIN x |-> [x[i] EXCEPT !.utxo = @ \/ y[i].utxo, !.final = @ \/ y[i].final,
                                     !.unsigned = @ /\ y[i].unsigned]]

handle_combine_psbt(q, A) ==
    FirstOf(<<
        Return(DocsFault(q.docs) # "success", Error(DocsFault(q.docs))),
        Return(q.docs = <<>>, Error("invalid_parameter")) >>,
        Result([tx |-> q.docs[1].tx, ins |->
            FoldSeq(LAMBDA d, ins : CombineIns(ins, d.ins), q.docs[1].ins, Tail(q.docs))]))

handle_convert_to_psbt(q, A) ==
    FirstOf(<<
        Return(q.psbt_version \notin {0, 2}, Error("invalid_parameter")),
        Return(q.encoding = Bad \/ ~Decodes(q), Error("deserialization_error")),
        Return(q.signed /\ ~q.permitsigdata, Error("deserialization_error")) >>,
        Result([psbt |-> q.psbt_version]))

handle_create_psbt(q, A) ==
    FirstOf(<<
        Return(q.psbt_version \notin {0, 2}, Error("invalid_parameter")) >>,
        parse_transaction(q))

handle_decode_psbt(q, A) ==
    FirstOf(<< Return(NotPsbt(q.docs[1]), Error("deserialization_error")) >>,
        Result([psbt |-> q.docs[1]]))

Finalized(in) == [in EXCEPT !.final = @ \/ (in.utxo /\ ~in.unsigned)]

handle_finalize_psbt(q, A) ==
    LET doc == q.docs[1]
        ins == [i \in DOMAIN doc.ins |-> Finalized(doc.ins[i])]
        complete == \A i \in DOMAIN ins : ins[i].final
    IN  FirstOf(<<
        Return(NotPsbt(doc), Error("deserialization_error")),
        Return(complete /\ q.extract, Result([hex |-> doc.tx, complete |-> TRUE])) >>,
        Result([ins |-> ins, complete |-> complete]))

\* Documents that share an input do not join (external).
handle_join_psbts(q, A) ==
    LET distinct == \A i, j \in DOMAIN q.docs : i # j => q.docs[i].tx # q.docs[j].tx
        fault == FirstFault([i \in DOMAIN q.docs |->
            IF ~q.docs[i].text THEN "type_error"
            ELSE IF ~q.docs[i].valid THEN "deserialization_error" ELSE "success"])
    IN  FirstOf(<<
        Return(Len(q.docs) < 2, Error("invalid_parameter")),
        Return(fault # "success", Error(fault)),
        Return(~distinct, Error("invalid_parameter")) >>,
        Result([joined |-> {q.docs[i].tx : i \in DOMAIN q.docs}]))

\* An input without a utxo gets the stored output that it spends, and one
\* whose script a descriptor expands to gets the keys of the expansion.
update_psbt(a, doc, keys) ==
    LET o == CHOOSE p \in Prevouts[doc.tx] : TRUE
        update(in) ==
            IF ~in.utxo /\ to_tx(a, o[1]) = Terminal THEN in
            ELSE [in EXCEPT !.utxo = TRUE,
                            !.derived = @ \union ({Pays[o[1]][o[2]]} \intersect keys)]
    IN  [ins |-> [i \in DOMAIN doc.ins |-> update(doc.ins[i])],
         outs |-> [i \in DOMAIN Pays[doc.tx] |-> {Pays[doc.tx][i]} \intersect keys]]

handle_utxo_update_psbt(q, A) ==
    FirstOf(<<
        Return(Bad \in q.keys, Error("invalid_address_or_key")),
        Return(NotPsbt(q.docs[1]), Error("deserialization_error")) >>,
        Result(update_psbt(A[1], q.docs[1], q.keys)))

handle_descriptor_process_psbt(q, A) == Error("method_not_found")
handle_abort_private_broadcast(q, A) == Error("method_not_found")
handle_get_private_broadcast_info(q, A) == Error("method_not_found")
handle_sign_raw_transaction_with_key(q, A) == Error("method_not_found")
-----------------------------------------------------------------------------
\* The handler of a method (protocol_bitcoind_transaction::start).
Subscribed(q, A) ==
    CASE q.method = "create_raw_transaction" -> handle_create_raw_transaction(q, A)
      [] q.method = "decode_raw_transaction" -> handle_decode_raw_transaction(q, A)
      [] q.method = "get_raw_transaction" -> handle_get_raw_transaction(q, A)
      [] q.method = "send_raw_transaction" -> handle_send_raw_transaction(q, A)
      [] q.method = "test_mempool_accept" -> handle_test_mempool_accept(q, A)
      [] q.method = "submit_package" -> handle_submit_package(q, A)
      [] q.method = "combine_raw_transaction" -> handle_combine_raw_transaction(q, A)
      [] q.method = "analyze_psbt" -> handle_analyze_psbt(q, A)
      [] q.method = "combine_psbt" -> handle_combine_psbt(q, A)
      [] q.method = "convert_to_psbt" -> handle_convert_to_psbt(q, A)
      [] q.method = "create_psbt" -> handle_create_psbt(q, A)
      [] q.method = "decode_psbt" -> handle_decode_psbt(q, A)
      [] q.method = "finalize_psbt" -> handle_finalize_psbt(q, A)
      [] q.method = "join_psbts" -> handle_join_psbts(q, A)
      [] q.method = "utxo_update_psbt" -> handle_utxo_update_psbt(q, A)
      [] q.method = "descriptor_process_psbt" -> handle_descriptor_process_psbt(q, A)
      [] q.method = "abort_private_broadcast" -> handle_abort_private_broadcast(q, A)
      [] q.method = "get_private_broadcast_info" -> handle_get_private_broadcast_info(q, A)
      [] q.method = "sign_raw_transaction_with_key" -> handle_sign_raw_transaction_with_key(q, A)

\* The answer once the node has given verdict v.
Completed(q, v, A) ==
    CASE q.method = "send_raw_transaction" -> complete_submit_tx(q, v, A)
      [] q.method = "test_mempool_accept" -> complete_test_package(q, v, A)
      [] q.method = "submit_package" -> complete_package(q, v, A)
=============================================================================
