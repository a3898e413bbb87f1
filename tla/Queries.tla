------------------------------- MODULE Queries -------------------------------
(***************************************************************************)
(* A client channel of any interface that makes a request while the node   *)
(* changes the chain, the pool and the peers underneath it.                *)
(*                                                                         *)
(* A handler makes its reads one after the other, and the store is not     *)
(* locked between them.  window is the sequence of snapshots since the     *)
(* request was received: to answer, the model chooses how many reads were  *)
(* made before each change (cut), which gives read i the snapshot A[i],    *)
(* and evaluates the handler on A.  A handler that submits to the node     *)
(* answers Pending; the node decides, and the completion of the handler    *)
(* makes its own reads.  The native subscriptions (NativeSubscribe) share  *)
(* the chain.                                                              *)
(***************************************************************************)
EXTENDS NativeSubscribe

CONSTANTS
    Stamp, Retarget,                                \* see BitcoindNode
    Peer, Group, Network,                           \* see BitcoindNetwork
    Chunk, MaximumHeaders, MaximumHistory, MaxSize, \* see ElectrumQuery
    TxPage, BlockPage, AddressPage, EsploraHistory, \* see EsploraQuery
    BtcdHistory,                                    \* see BtcdQuery
    Start,          \* snapshots that a behaviour starts from
    Request,        \* the requests that are made
    MaxMoves,       \* bound of the changes by the node
    MaxNotified     \* the same once a subscription is made

Blockchain == INSTANCE BitcoindBlockchain
Rest == INSTANCE BitcoindRest
Transaction == INSTANCE BitcoindTransaction
Net == INSTANCE BitcoindNetwork
Node == INSTANCE BitcoindNode
Electrum == INSTANCE ElectrumQuery
Esplora == INSTANCE EsploraQuery
Btcd == INSTANCE BtcdQuery

VARIABLES
    window,         \* snapshots since the request, the last is the present
    stage,          \* "idle", "asked", "submitted", "decided", "done"
    req,            \* the request, NoRequest before one is made
    verdict,        \* the node's on what was submitted
    answer,         \* what the client was sent
    moves           \* number of changes by the node

queryVars == <<window, stage, req, verdict, answer, moves>>
vars == <<queryVars, nativeVars>>

archive == Last(window)
Reads == 8                      \* the most that a handler makes
Pending == [pending |-> TRUE]
None == [none |-> TRUE]
NoRequest == [interface |-> "none", method |-> "none"]

Init ==
    /\ \E a \in Start : window = <<a>>
    /\ stage = "idle"
    /\ req = NoRequest
    /\ verdict = None
    /\ answer = None
    /\ moves = 0
    /\ NativeInit

-----------------------------------------------------------------------------
(* The interfaces.                                                         *)

NativeSubscribed(q, A) ==
    CASE q.method = "get_top_subscribe" -> handle_get_top_subscribe(q, A)
      [] q.method = "get_block_subscribe" -> handle_get_block_subscribe(q, A)
      [] q.method = "get_tx_subscribe" -> handle_get_tx_subscribe(q, A)
      [] q.method = "get_output_subscribe" -> handle_get_output_subscribe(q, A)
      [] q.method = "get_address_subscribe" -> handle_get_address_subscribe(q, A)
      [] OTHER -> Subscribed(q, A)

Handle(q, A) ==
    CASE q.interface = "blockchain" -> Blockchain!Subscribed(q, A)
      [] q.interface = "rest" -> Rest!Subscribed(q, A)
      [] q.interface = "transaction" -> Transaction!Subscribed(q, A)
      [] q.interface = "network" -> Net!Subscribed(q, A)
      [] q.interface = "node" -> Node!Subscribed(q, A)
      [] q.interface = "electrum" -> Electrum!Subscribed(q, A)
      [] q.interface = "esplora" -> Esplora!Subscribed(q, A)
      [] q.interface = "native" -> NativeSubscribed(q, A)
      [] q.interface = "btcd" -> Btcd!Subscribed(q, A)

Complete(q, v, A) ==
    CASE q.interface = "transaction" -> Transaction!Completed(q, v, A)
      [] q.interface = "network" -> Net!Completed(q, v, A)
      [] q.interface = "node" -> Node!Completed(q, v, A)
      [] q.interface = "electrum" -> Electrum!Completed(q, v, A)
      [] q.interface = "esplora" -> Esplora!Completed(q, v, A)
      [] q.interface = "btcd" -> Btcd!Completed(q, v, A)

\* A handler on one snapshot, as if nothing changed while it reads.
Still(a) == [i \in 1..Reads |-> a]

\* cut[k] reads are made before change k of the window.
Cut == {c \in [1..Len(window) - 1 -> 0..Reads] :
            \A k \in 1..Len(window) - 2 : c[k] <= c[k + 1]}
Read(cut) ==
    [i \in 1..Reads |-> window[1 + Cardinality({k \in DOMAIN cut : cut[k] < i})]]

-----------------------------------------------------------------------------
(* A request.                                                              *)

Ask ==
    /\ stage = "idle" \/ (stage = "done" /\ Subscribes(req) /\ posted = <<>>)
    /\ \E q \in Request :
        /\ stage = "done" => Subscribes(q) /\ q.stop /\ TopicOf(q) = TopicOf(req) /\ ~req.stop
        /\ req' = q
        /\ media_of' = IF Subscribes(q) THEN store_media(q, FALSE) ELSE media_of
        \* Only the events of a subscription depend on the transport.
        /\ \/ UNCHANGED websocket
           \/ stage = "idle" /\ Subscribes(q) /\ websocket' = TRUE
    /\ stage' = "asked"
    /\ window' = <<archive>>
    /\ answer' = None
    /\ events' = IF Subscribes(req') THEN events ELSE <<>>    \* no topic has a media
    /\ withheld' = {}
    /\ UNCHANGED <<verdict, moves, posted, told>>

\* The client upgrades the channel to a websocket between requests.
Upgrade ==
    /\ stage = "done" /\ Subscribes(req) /\ ~websocket
    /\ websocket' = TRUE
    /\ UNCHANGED <<queryVars, media_of, events, posted, told, withheld>>

Answer(value) ==
    /\ answer' = value
    /\ stage' = "done"
    /\ told' = answered(req, value)

\* The handler returns with an answer, or has submitted to the node.
Work ==
    /\ stage = "asked"
    /\ \E cut \in Cut :
        LET value == Handle(req, Read(cut)) IN
        IF value = Pending THEN stage' = "submitted" /\ UNCHANGED <<answer, told>>
        ELSE Answer(value)
    /\ window' = IF req.method = "set_network_active"
                 THEN Append(window, Net!NetworkActive(archive, req)) ELSE window
    /\ media_of' = IF Subscribes(req) THEN store_media(req, TRUE) ELSE media_of
    /\ UNCHANGED <<req, verdict, moves, events, posted, websocket, withheld>>

\* Transactions are only tested by some methods.
Tests(q) == q.method \in {"test_mempool_accept", "blockchain_transaction_testmempoolaccept"}

\* The candidate chain once header b is organized.
Organized(a, b) ==
    IF Height[b] > get_top_candidate(a) THEN [a EXCEPT !.cand = Reverse(Branch[b])] ELSE a

\* importmempool submits one transaction after the other and skips failures.
NextImport ==
    /\ stage = "submitted" /\ req.method = "import_mempool"
    /\ LET index == IF verdict = None THEN 1 ELSE verdict.index + 1 IN
       IF index > Len(req.txs)
       THEN Answer(Result([imported |-> TRUE])) /\ UNCHANGED <<window, verdict>>
       ELSE LET code == Verdict(archive, req.txs[index])
            IN  /\ verdict' = [code |-> code, index |-> index]
                /\ window' = <<IF code = "success" THEN Pool(archive, {req.txs[index]})
                                ELSE archive>>
                /\ UNCHANGED <<stage, answer, told>>
    /\ UNCHANGED <<req, moves, media_of, events, posted, websocket, withheld>>

\* The node: transactions, a header, or channels to stop.  What is decided
\* and what it changes are one step of it.
Decide ==
    /\ stage = "submitted" /\ req.method # "import_mempool"
    /\ LET submitted == "txs" \in DOMAIN req
           code == IF submitted THEN Submit(archive, req.txs)
                   ELSE [code |-> IF req.method = "submit_header"
                                  THEN IF to_header(archive, Parent[req.hash]) # Terminal
                                       THEN "success" ELSE "orphan"
                                  ELSE IF Net!Named(req) \intersect archive.peers # {}
                                       THEN "success" ELSE "not_found",
                         index |-> 1]
           after == IF code.code # "success" \/ Tests(req) THEN archive
                    ELSE IF submitted THEN Pool(archive, Range(req.txs))
                    ELSE IF req.method = "submit_header" THEN Organized(archive, req.hash)
                    ELSE Net!Terminate(archive, Net!Named(req))
       IN  verdict' = code /\ window' = <<archive, after>>
    /\ stage' = "decided"
    /\ UNCHANGED <<req, answer, moves, nativeVars>>

\* Reads of the completion are made after the decision.
CompleteRequest ==
    /\ stage = "decided"
    /\ \E cut \in Cut :
        /\ cut[1] = 0
        /\ Answer(Complete(req, verdict, Read(cut)))
    /\ UNCHANGED <<window, req, verdict, moves, media_of, events, posted, websocket, withheld>>

\* The channel stops: what it was to be sent is dropped.
Stop ==
    /\ stage \in {"asked", "submitted", "decided"}
    /\ stage' = "stopped"
    /\ UNCHANGED <<window, req, verdict, answer, moves, nativeVars>>

-----------------------------------------------------------------------------
(* The node.                                                               *)

\* A change to snapshot a, and the chase events of it.
Move(a, chase) ==
    /\ \/ stage \in {"idle", "asked", "submitted", "decided"}
       \/ stage = "done" /\ Subscribes(req)
    /\ moves < IF Subscribes(req) THEN MaxNotified ELSE MaxMoves
    /\ moves' = moves + 1
    /\ window' = IF stage \in {"asked", "decided"} THEN Append(window, a) ELSE <<a>>
    /\ events' = IF stage = "idle" \/ Subscribes(req) THEN events \o chase ELSE events
    /\ UNCHANGED <<stage, req, verdict, answer, media_of, posted, told, websocket, withheld>>

\* The requests that read peers, and those that read nothing else.
ReadsPeers ==
    req.interface = "network" \/ req.method \in {"get_net_totals", "get_info", "node"}
ReadsChain == req.interface # "network" /\ req.method \notin {"get_net_totals", "node"}

\* The strongest candidate branch is confirmed block by block, once what is
\* confirmed and not of it has been disconnected from the top.
Push ==
    /\ ReadsChain
    /\ IsStrictPrefix(archive.conf, archive.cand)
    /\ LET next == archive.cand[Len(archive.conf) + 1] IN
       /\ is_associated(archive, next)
       /\ Move([archive EXCEPT !.conf = Append(@, next)], <<<<"block", next>>>>)

Reorganizes(a) ==
    /\ ~IsPrefix(a.conf, a.cand)
    /\ \A i \in DOMAIN a.cand : i > get_fork(a) + 1 => is_associated(a, a.cand[i])

Pop ==
    /\ ReadsChain
    /\ Reorganizes(archive)
    /\ Move([archive EXCEPT !.conf = Front(@)], <<<<"reorganized", Last(archive.conf)>>>>)

\* A header arrives that is stronger than the candidate chain.
Organize ==
    /\ ReadsChain
    /\ \E b \in Block :
        /\ Height[b] > get_top_candidate(archive)
        /\ to_header(archive, Parent[b]) # Terminal
        /\ Move(Organized(archive, b), <<>>)

Associate ==
    /\ ReadsChain
    /\ \E b \in Range(archive.cand) \ archive.bodies :
        Move([archive EXCEPT !.bodies = @ \union {b}], <<>>)

AcceptTx ==
    /\ ReadsChain
    /\ \E t \in Tx :
        /\ Verdict(archive, t) = "success"
        /\ Move(Pool(archive, {t}), <<<<"transaction", t>>>>)

Connect ==
    /\ ReadsPeers
    /\ \E p \in Peer \ (archive.peers \union archive.closed) :
        Move([archive EXCEPT !.peers = @ \union {p}], <<>>)

Disconnect ==
    /\ ReadsPeers
    /\ \E p \in archive.peers : Move(Net!Terminate(archive, {p}), <<>>)

-----------------------------------------------------------------------------
Chase == HandleChase /\ UNCHANGED queryVars
Notify == stage \notin {"asked", "stopped"} /\ DoNotify /\ UNCHANGED queryVars

Next ==
    \/ Ask \/ Upgrade \/ Work \/ NextImport \/ Decide \/ CompleteRequest \/ Stop
    \/ Push \/ Pop \/ Organize \/ Associate \/ AcceptTx \/ Connect \/ Disconnect
    \/ Chase \/ Notify

Spec == Init /\ [][Next]_vars
-----------------------------------------------------------------------------
(* Properties.                                                             *)

Once(a) ==
    IF verdict = None THEN Handle(req, Still(a)) ELSE Complete(req, verdict, Still(a))

Key == UNION {Range(Pays[t]) : t \in Tx}

Failed(value) == "error" \in DOMAIN value
Fault(value) ==
    Failed(value) /\ value.error \in {"internal_error", "internal_server_error", "daemon_error"}

\* The methods whose answer is put together from reads that may differ.
Torn == {
    <<"blockchain", "get_block">>, <<"blockchain", "get_block_chain_info">>,
    <<"blockchain", "get_block_header">>, <<"blockchain", "get_block_stats">>,
    <<"blockchain", "get_chain_states">>, <<"blockchain", "get_chain_tips">>,
    <<"blockchain", "get_chain_tx_stats">>, <<"blockchain", "get_mempool_entry">>,
    <<"blockchain", "get_mempool_ancestors">>, <<"blockchain", "get_mempool_descendants">>,
    <<"blockchain", "get_raw_mempool">>, <<"blockchain", "get_tx_out">>,
    <<"blockchain", "get_tx_spending_prevout">>, <<"blockchain", "scan_tx_out_set">>,
    <<"rest", "get_chain_information">>, <<"rest", "get_mempool">>, <<"rest", "get_tx">>,
    <<"rest", "get_utxos">>, <<"rest", "get_block_headers">>, <<"rest", "get_block_filter_headers">>,
    <<"transaction", "get_raw_transaction">>, <<"node", "get_index_info">>,
    <<"network", "get_net_totals">>, <<"network", "get_network_info">>,
    <<"network", "get_peer_info">>, <<"network", "get_added_node_info">>,
    <<"electrum", "blockchain_block_header">>, <<"electrum", "blockchain_block_headers">>,
    <<"electrum", "blockchain_transaction_get">>, <<"electrum", "blockchain_outpoint_get_status">>,
    <<"esplora", "get_address">>, <<"esplora", "get_address_txs">>,
    <<"esplora", "get_address_txs_chain">>, <<"esplora", "get_address_txs_mempool">>,
    <<"esplora", "get_address_utxo">>, <<"esplora", "get_block_status">>,
    <<"esplora", "get_block_txs">>, <<"esplora", "get_blocks">>, <<"esplora", "get_tx">>,
    <<"esplora", "get_tx_outspend">>, <<"esplora", "get_tx_outspends">>,
    <<"native", "get_block_header_context">>,
    <<"btcd", "get_best_block">>, <<"btcd", "get_block_chain_info">>, <<"btcd", "get_info">>,
    <<"btcd", "get_net_totals">>, <<"btcd", "search_raw_transactions">> }

\* Of gettxoutsetinfo only the request by hash is: the hash is turned into a
\* height before the branch is pinned at that height.
IsTorn ==
    \/ <<req.interface, req.method>> \in Torn
    \/ req.method = "get_tx_out_set_info" /\ req.at[1] = "hash"

\* An answer that is not a fault is the answer of one moment between the
\* request and the answer, whatever the chain does while the handler reads:
\* the scans pin a branch and recheck it (do_get_tx_out_set_info,
\* handle_get_mining_info, handle_scan_blocks), the others read once or read
\* what no longer changes.  What IsTorn names does not promise it.
OneMoment ==
    /\ stage = "done" /\ ~Subscribes(req) /\ req.method # "import_mempool"
    /\ ~IsTorn
    => Fault(answer) \/ \E a \in Range(window) : answer = Once(a)

\* What the code reports by the code of a fault though it is none: an import
\* or estimate that failed, a history over its limit, what electrum does not
\* find, and a block that is stored ahead of what it spends.
Reported ==
    \/ "verdict" \in DOMAIN req /\ req.verdict = "fault"
    \/ \E k \in Key :
        /\ "key" \in DOMAIN req /\ req.key = k
        /\ Cardinality(Electrum!Histories(archive, k)) >
            Lesser(MaximumHistory, Lesser(EsploraHistory, BtcdHistory))
    \/ <<req.interface, req.method>> \in {<<"electrum", "blockchain_transaction_broadcast">>,
            <<"electrum", "blockchain_transaction_get">>,
            <<"electrum", "blockchain_utxo_get_address">>, <<"btcd", "rescan_blocks">>}
    \/ <<req.interface, req.method>> = <<"native", "get_block">>
       /\ ~is_associated(archive, HeaderAt(archive, req))
    \/ \E t \in Tx : is_archived(archive, t) /\ ~populate(archive, t)

\* A handler gives up with a fault only if the chain changed under it: on a
\* store that holds still every read that depends on another succeeds (an
\* ancestor window fits its branch, a top has its header, a block its state).
FaultOnlyIfMoved ==
    stage = "done" /\ Fault(answer) /\ ~Reported => Cardinality(Range(window)) > 1

\* The value of an answer, Absent when there is none.
ValueOf(value, field) ==
    IF Failed(value) \/ field \notin DOMAIN value.result THEN Absent ELSE value.result[field]

IsTrue(value, field) ==
    ~Failed(value) /\ field \in DOMAIN value.result /\ value.result[field]

\* What each interface says of the block at a height, of the top, of a block,
\* a transaction, an output and a key, asked of the same snapshot.
SameAtHeight(A, h) ==
    LET q == [height |-> h, media |-> "json", hash |-> Absent, version |-> Electrum!v1_3] IN
    Cardinality({
        ValueOf(Blockchain!handle_get_block_hash(q, A), "hash"),
        ValueOf(Rest!handle_get_block_hash(q, A), "hash"),
        ValueOf(Electrum!handle_blockchain_block_get_header(q, A), "header"),
        ValueOf(Esplora!handle_get_block_height([q EXCEPT !.media = "text"], A), "hash"),
        ValueOf(handle_get_block_header(q, A), "header") }) = 1

SameTop(A) ==
    LET q == [media |-> "text"] IN
    /\ Cardinality({
        Blockchain!handle_get_best_block_hash(q, A).result.hash,
        Rest!handle_get_chain_information(q, A).result.bestblockhash,
        Esplora!handle_get_tip_hash(q, A).result.hash,
        Btcd!handle_get_best_block(q, A).result.hash,
        Last(Btcd!handle_get_headers([locator |-> <<>>, stop |-> Unknown], A).result.headers
             \o IF get_top_confirmed(A[1]) = 0 THEN <<Genesis>> ELSE <<>>) }) = 1
    /\ Cardinality({
        Blockchain!handle_get_block_count(q, A).result.count,
        Esplora!handle_get_tip_height(q, A).result.count,
        handle_get_top(q, A).result.count,
        Btcd!handle_get_best_block(q, A).result.height,
        Node!handle_get_mining_info(q, A).result.blocks }) = 1

SameOfBlock(A, b) ==
    LET q == [hash |-> b, media |-> "json", verbose |-> TRUE, height |-> 0, count |-> 1]
        header == Blockchain!handle_get_block_header(q, A)
        esplora == Esplora!handle_get_block_status(q, A)
        context == handle_get_block_header_context(q, A)
        confirmed == ~Failed(header) /\ header.result.context.confirmations > 0
    IN  /\ confirmed = IsTrue(esplora, "in_best_chain")
        /\ confirmed = IsTrue(context, "confirmed")
        /\ confirmed = ~Failed(Rest!handle_get_block_headers(q, A))
        /\ confirmed => header.result.context.nextblockhash = ValueOf(esplora, "next_best")

\* The block that confirms t.
SameOfTx(A, t) ==
    LET q == [txid |-> t, media |-> "json", verbosity |-> 1, verbose |-> TRUE,
              version |-> Electrum!v1_4]
        raw == Transaction!handle_get_raw_transaction(q, A)
        rest == Rest!handle_get_tx(q, A)
        BlockOf(value) == IF Failed(value) \/ "blockhash" \notin DOMAIN value.result.context
                          THEN Absent ELSE value.result.context.blockhash
    IN  /\ raw = rest \/ (Failed(raw) /\ Failed(rest))
        /\ Cardinality({BlockOf(raw),
                ValueOf(Electrum!handle_blockchain_transaction_get(q, A), "blockhash"),
                ValueOf(Esplora!handle_get_tx_status(q, A), "block_hash"),
                ValueOf(handle_get_tx_header(q, A), "header")}) = 1

\* An output of a transaction that is confirmed or in the mempool.
SameOfOutput(A, o) ==
    LET q == [txid |-> o[1], n |-> o[2] - 1, media |-> "json", mempool |-> TRUE, outpoints |-> 1,
              mempool_only |-> FALSE, outputs |-> "given", options |-> "given"]
        prevout == Blockchain!handle_get_tx_spending_prevout(q, A)
        outspend == Esplora!handle_get_tx_outspend(q, A)
        unspent == Blockchain!handle_get_tx_out(q, A) # Null
    IN  /\ unspent = Rest!handle_get_utxos(q, A).result.hit
        /\ unspent = ~IsTrue(outspend, "spent")
        /\ ValueOf(prevout, "spendingtxid") = ValueOf(outspend, "txid")

SameOfKey(A, k) ==
    LET q == [key |-> k, media |-> "json", version |-> Electrum!v1_4]
        history == Electrum!handle_blockchain_scripthash_get_history(q, A)
        address == Esplora!handle_get_address(q, A)
    IN  /\ Electrum!handle_blockchain_scripthash_get_balance(q, A).result.confirmed =
                handle_get_address_balance(q, A).result.confirmed
        /\ ~Failed(history) => ~Failed(address) /\ Cardinality(history.result.value) =
                address.result.chain_txs + address.result.mempool_txs

\* electrum proves the last header that it returns.
ProvesLast(A, first, count, to) ==
    LET value == Electrum!handle_blockchain_block_headers([height |-> first, count |-> count,
                    cp_height |-> to, version |-> Electrum!v1_7], A)
    IN  ~Failed(value) /\ "proves" \in DOMAIN value.result =>
            value.result.proves = Last(value.result.headers)

\* A client is told the same by every interface of the server, though each
\* has handlers of its own: which block is at a height, which is the top, what
\* follows a block and whether it is confirmed, which block confirms a
\* transaction, what spends an output, and what a key has.
Agreement ==
    stage = "idle" =>
        LET A == Still(archive) IN
        /\ SameTop(A)
        /\ \A h \in 0..Cardinality(Block) : SameAtHeight(A, h)
        /\ \A b \in Block : SameOfBlock(A, b)
        /\ \A t \in Tx : SameOfTx(A, t)
        /\ \A t \in Tx : is_confirmed_tx(archive, t) \/ t \in Mempool(archive) =>
                \A o \in Outs(t) : SameOfOutput(A, o)
        /\ \A k \in Key : SameOfKey(A, k)
        /\ \A first, to \in 0..2, count \in 0..3 : ProvesLast(A, first, count, to)

\* The answer says that all of the transactions are accepted.
Accepted ==
    CASE Failed(answer) -> FALSE
      [] req.method \in {"submit_package", "broadcast_package"} ->
            \A i \in DOMAIN answer.result : "error" \notin DOMAIN answer.result[i]
      [] req.method = "blockchain_transaction_broadcast_package" -> answer.result.success
      [] OTHER -> "txid" \in DOMAIN answer.result

\* A client that is told its transactions were accepted finds them stored, and
\* a transaction that the mempool already has is never refused: a duplicate is
\* told from a failure by every complete_ of the interfaces, which agree on it
\* though the chain may confirm the transaction before they answer.
SubmissionReported ==
    /\ stage = "done" /\ verdict # None /\ "txs" \in DOMAIN req
    /\ ~Tests(req) /\ req.method # "import_mempool"
    => /\ Accepted => \A t \in Range(req.txs) : is_archived(archive, t)
       /\ ~Accepted => \E t \in Range(req.txs) :
            \E a \in Range(window) : t \notin Mempool(a)

\* The totals count each channel once, by its row or as closed, and miss none
\* that was open when the round began, though channels close while the rows
\* are captured and the totals fetched.
CountedOnce ==
    stage = "done" /\ req.method = "get_net_totals" /\ ~Failed(answer) =>
        /\ answer.result.rows \intersect answer.result.accumulated = {}
        /\ window[1].peers \subseteq answer.result.rows \union answer.result.accumulated

\* A native subscriber of the top is up to date when the chain is at rest and
\* no event is under way: the height and hash it was last sent are those of the
\* confirmed top, though blocks may have come and gone between storing the
\* subscription, reading the top for the answer and sending it.  A subscriber
\* without a websocket is not told of events, and once it has upgraded is up to
\* date from the first event that follows.
NativeCurrent ==
    /\ stage = "done" /\ Subscribes(req) /\ ~req.stop /\ ~Failed(answer)
    /\ events = <<>> /\ posted = <<>> /\ TopicOf(req) \notin withheld
    /\ ~Reorganizes(archive)
    /\ ~(/\ IsStrictPrefix(archive.conf, archive.cand)
          /\ is_associated(archive, archive.cand[Len(archive.conf) + 1]))
    => CASE TopicOf(req) = "top" -> told.top = get_top_confirmed(archive)
         [] TopicOf(req) = "block" -> told.block = to_top_confirmed(archive)
         [] OTHER -> TRUE

=============================================================================
