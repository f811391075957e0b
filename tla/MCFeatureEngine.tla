--------------------------- MODULE MCFeatureEngine ---------------------------
(* Units of 48 keep the fading means of up to five samples and the plain    *)
(* means of up to four exact.                                               *)
EXTENDS FeatureEngine, TLC

ThreeValues == {48, 96, 144}
FiveDeviations == {-3, -1, 0, 2, 3}
Limits == [m \in {"util", "latency", "loss"} |-> 192]

Permuted == Permutations(Entities)

(* No two flows share a cell; a and b share one in every row; b shares one  *)
(* with a in the first row and with c in the second.                        *)
SomeHashes == {[a |-> <<0, 1>>, b |-> <<1, 1>>, c |-> <<2, 1>>],
               [a |-> <<0, 1>>, b |-> <<0, 1>>, c |-> <<1, 1>>],
               [a |-> <<0, 1>>, b |-> <<0, 3>>, c |-> <<2, 1>>]}
==============================================================================
