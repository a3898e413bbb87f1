---------------------------- MODULE MCRpcDispatch ----------------------------
(* The three families of sessions (sessions.hpp), with two subgroups for the *)
(* nine: "a" and "b" are methods of one subgroup each, "ab" is defined by    *)
(* btcd and by a subgroup, "none" by no protocol; "wait" is waitfornewblock. *)
EXTENDS RpcDispatch

Methods == {"a", "b", "ab", "wait", "auth", "none"}

P(kind, methods) == [kind |-> kind, methods |-> methods]

bitcoind_chain == <<P("rest", {}), P("subgroup", {"a", "ab"}), P("subgroup", {"b", "wait"}),
                    P("bitcoind", {})>>
btcd_chain == <<P("btcd", {"auth", "ab"}), P("subgroup", {"a", "ab"}),
                P("subgroup", {"b", "wait"}), P("bitcoind", {})>>
electrum_chain == <<P("handshake", {"a"}), P("electrum", {"b", "ab"})>>

SessionChains == {bitcoind_chain, btcd_chain, electrum_chain}
=============================================================================
