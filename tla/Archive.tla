------------------------------- MODULE Archive -------------------------------
(***************************************************************************)
(* The store (archive()) that the query handlers of all protocols read: an *)
(* external library, modelled by the reads that src/ makes of it.          *)
(*                                                                         *)
(* Blocks form a tree that is fixed, as are the transactions of a block    *)
(* and the prevouts of a transaction: what is stored never changes.  A     *)
(* snapshot is what may change between two reads:                          *)
(*   conf     the confirmed chain from genesis (the block at height h is   *)
(*            conf[h + 1]);                                                *)
(*   cand     the candidate chain (strongest headers);                     *)
(*   bodies   the blocks that are associated (have their transactions);    *)
(*   pooled   the transactions that were received outside of a block.      *)
(* Headers are stored before they become candidates, and stay.             *)
(***************************************************************************)
EXTENDS Integers, Sequences, FiniteSets, SequencesExt

CONSTANTS
    Block, Genesis, Parent,     \* Parent[b] for each block but Genesis
    Txs,                        \* Txs[b]: its transactions, coinbase first
    Tx,                         \* all transactions
    Prevouts,                   \* Prevouts[t]: the outputs that t spends
    Pays,                       \* Pays[t]: the key of each output of t
    AddressEnabled,             \* the address index is configured
    FilterEnabled               \* the filter index is configured

Terminal == "terminal"          \* the link that is not found
NullHash == "null_hash"         \* the key of a terminal link
Absent == "absent"              \* a field that is left out of an answer
Bad == "bad"                    \* text that does not decode
Unknown == "unknown"            \* a hash that is not stored
NotInteger == 1000              \* a number that is not integral

Height[b \in Block] == IF b = Genesis THEN 0 ELSE 1 + Height[Parent[b]]

\* b and its ancestors, b first.
Branch[b \in Block] ==
    IF b = Genesis THEN <<b>> ELSE <<b>> \o Branch[Parent[b]]

\* What t spends and pays, nothing when it is no transaction.
Spends(t) == IF t \in Tx THEN Prevouts[t] ELSE {}
PaysOf(t) == IF t \in Tx THEN Pays[t] ELSE <<>>

Parents(t) == {o[1] : o \in Spends(t)}
IsCoinbase(t) == Spends(t) = {}
Outs(t) == {<<t, i>> : i \in DOMAIN PaysOf(t)}

\* to_integer to an unsigned and to a signed type.
to_size(x) == x >= 0 /\ x # NotInteger
to_int(x) == x # NotInteger

FlooredSubtract(x, y) == IF x > y THEN x - y ELSE 0
Lesser(x, y) == IF x < y THEN x ELSE y

-----------------------------------------------------------------------------
(* Headers and blocks.                                                     *)

Headers(a) == Range(a.cand) \union Range(a.conf) \union a.bodies

to_header(a, hash) == IF hash \in Headers(a) THEN hash ELSE Terminal
get_header_key(link) == IF link = Terminal THEN NullHash ELSE link
has_header(link) == link # Terminal                     \* get_header, get_height
get_height(link) == IF link = Terminal THEN 0 ELSE Height[link]

get_top_confirmed(a) == Len(a.conf) - 1
get_top_candidate(a) == Len(a.cand) - 1
to_top_confirmed(a) == Last(a.conf)
to_top_candidate(a) == Last(a.cand)
to_confirmed(a, h) == IF h + 1 \in DOMAIN a.conf THEN a.conf[h + 1] ELSE Terminal

is_confirmed_block(a, link) ==
    link # Terminal /\ to_confirmed(a, Height[link]) = link

is_associated(a, link) == link \in a.bodies             \* also get_block
tx_keys(a, link) == IF is_associated(a, link) THEN Txs[link] ELSE <<>>

\* The height of the highest block that both chains have.
get_fork(a) ==
    Cardinality({h \in DOMAIN a.conf \intersect DOMAIN a.cand :
                    a.conf[h] = a.cand[h]}) - 1

is_coalesced(a) == a.conf = a.cand

to_confirmed_child(a, link) ==
    IF is_confirmed_block(a, link) THEN to_confirmed(a, Height[link] + 1)
    ELSE Terminal

\* A run of confirmed headers that is contiguous by construction.
get_confirmed_headers(a, first, count) ==
    SubSeq(a.conf, first + 1, Lesser(first + count, Len(a.conf)))

\* Ancestors of a stored header, from the header down; empty when it fails.
has_ancestry(link, count) == link # Terminal /\ count <= get_height(link) + 1
get_ancestry(link, count) ==
    IF has_ancestry(link, count) THEN SubSeq(Branch[link], 1, count) ELSE <<>>

-----------------------------------------------------------------------------
(* Transactions, outputs and addresses.                                    *)

BlocksOf(t) == {b \in Block : t \in Range(Txs[b])}

is_archived(a, t) == t \in a.pooled \/ BlocksOf(t) \intersect a.bodies # {}
to_tx(a, hash) == IF hash \in Tx /\ is_archived(a, hash) THEN hash ELSE Terminal

find_confirmed_block(a, t) ==
    IF t \notin Tx \/ BlocksOf(t) \intersect Range(a.conf) = {} THEN Terminal
    ELSE CHOOSE b \in BlocksOf(t) : b \in Range(a.conf)

is_confirmed_tx(a, t) == find_confirmed_block(a, t) # Terminal
get_tx_height(a, t) == get_height(find_confirmed_block(a, t))

\* Pooled, unconfirmed, and each parent confirmed or itself so.
Mempool(a) ==
    LET Loose == {t \in a.pooled : ~is_confirmed_tx(a, t)}
        Held(S) == {t \in S : \A p \in Parents(t) :
                                 p \in S \/ is_confirmed_tx(a, p)}
    IN  Held(Held(Loose))

is_pooled(a, t) == t \in a.pooled
is_confirmable_tx(a, t) == t \in Mempool(a)

to_output(a, t, i) ==
    IF to_tx(a, t) # Terminal /\ i + 1 \in DOMAIN PaysOf(t) THEN <<t, i + 1>>
    ELSE <<Terminal, 0>>

SpendersOf(o) == {t \in Tx : o \in Prevouts[t]}
find_confirmed_spender(a, o) ==
    LET S == {t \in SpendersOf(o) : is_confirmed_tx(a, t)}
    IN  IF S = {} THEN Terminal ELSE CHOOSE t \in S : TRUE
find_confirmable_spender(a, o) ==
    LET S == SpendersOf(o) \intersect Mempool(a)
    IN  IF S = {} THEN Terminal ELSE CHOOSE t \in S : TRUE
is_confirmed_spent(a, o) == find_confirmed_spender(a, o) # Terminal
is_confirmable_spent(a, o) == find_confirmable_spender(a, o) # Terminal

\* Transactions that pay or spend key k.
Touches(t, k) ==
    k \in Range(Pays[t]) \/ \E o \in Prevouts[t] : Pays[o[1]][o[2]] = k
get_confirmed_history(a, k) ==
    {<<t, get_tx_height(a, t)>> : t \in {u \in Tx : is_confirmed_tx(a, u) /\ Touches(u, k)}}
get_unconfirmed_history(a, k) == {t \in Mempool(a) : Touches(t, k)}
get_confirmed_unspent(a, k) ==
    {o \in UNION {Outs(t) : t \in {u \in Tx : is_confirmed_tx(a, u)}} :
        Pays[o[1]][o[2]] = k /\ ~is_confirmed_spent(a, o)}

\* Mempool relatives of t; chains of loose transactions are at most 3 long.
to_confirmable_parents(a, t) == Parents(t) \intersect Mempool(a)
to_confirmable_children(a, t) == {u \in Mempool(a) : t \in Parents(u)}
to_confirmable_ancestors(a, t) ==
    LET parents == to_confirmable_parents(a, t)
    IN  parents \union UNION {to_confirmable_parents(a, p) : p \in parents}
to_confirmable_descendants(a, t) ==
    LET children == to_confirmable_children(a, t)
    IN  children \union UNION {to_confirmable_children(a, c) : c \in children}

\* populate_with(out)_metadata: every prevout of t is stored.
populate(a, t) == \A p \in Parents(t) : to_tx(a, p) # Terminal

\* The node's verdict on a transaction that is submitted to it, external.
Verdict(a, t) ==
    CASE IsCoinbase(t) -> "coinbase_transaction"
      [] to_tx(a, t) # Terminal -> "duplicate_transaction"
      [] \E p \in Parents(t) : to_tx(a, p) = Terminal -> "missing_previous_output"
      [] \E o \in Prevouts[t] : is_confirmed_spent(a, o) -> "confirmed_double_spend"
      [] \E o \in Prevouts[t] : is_confirmable_spent(a, o) -> "unconfirmed_double_spend"
      [] \E p \in Parents(t) : ~is_confirmed_tx(a, p) /\ p \notin Mempool(a) -> "unconfirmable"
      [] OTHER -> "success"

Pool(a, txs) == [a EXCEPT !.pooled = @ \union txs]

\* The verdict on a package and the index of the transaction that fails it.  A
\* package is accepted as a whole; what it has that is stored is passed over.
Submit(a, txs) ==
    LET code(i) == Verdict(Pool(a, {txs[j] : j \in 1..i - 1}), txs[i])
        failed == {i \in DOMAIN txs : code(i) \notin {"success", "duplicate_transaction"}}
        first == CHOOSE i \in failed : \A j \in failed : i <= j
    IN  IF failed # {} THEN [code |-> code(first), index |-> first]
        ELSE IF \A i \in DOMAIN txs : code(i) = "duplicate_transaction"
        THEN [code |-> "duplicate_transaction", index |-> 1]
        ELSE [code |-> "success", index |-> 1]

-----------------------------------------------------------------------------
(* Answers, and handlers as sequences of early returns.                    *)

Error(code) == [error |-> code]
Result(value) == [result |-> value]
Null == Result([null |-> TRUE])

Return(cond, answer) == [cond |-> cond, answer |-> answer]

\* The answer of the first return whose condition holds, else the last one.
FirstOf(returns, otherwise) ==
    LET taken == {i \in DOMAIN returns : returns[i].cond}
    IN  IF taken = {} THEN otherwise
        ELSE returns[CHOOSE i \in taken : \A j \in taken : i <= j].answer
=============================================================================
