------------------------------ MODULE MCMarketData -----------------------------
(* Model checking of MarketData. *)
EXTENDS MarketData

CONSTANTS c1, c2, k1

\* Two threads ask for the same history.
SameKey == [c \in {c1, c2} |-> k1]

================================================================================
