-------------------------- MODULE MCMarketDataProxy --------------------------
(* Instances of MarketDataProxy for TLC. *)
EXTENDS MarketDataProxy, TLC

ProxySymmetry == Permutations(Clients) \cup Permutations(Symbols)

=============================================================================
