----------------------- MODULE MCMarketSegmentGateway -----------------------
(* Model-checking instances of MarketSegmentGateway. *)
EXTENDS MarketSegmentGateway, TLC

\* Connections and descriptors are interchangeable.
Symmetry == Permutations(Connections) \cup Permutations(Descriptors)
=============================================================================
