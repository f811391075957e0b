----------------------------- MODULE MCNatsIngest -----------------------------
(* Small instances of NatsIngest: records of one entity, one message that   *)
(* does not decode, and one that is JSON but no object.                     *)
EXTENDS NatsIngest, TLC

CONSTANTS r1, r2, junk, list, e1

OnePair == (r1 :> e1) @@ (r2 :> e1)
OneApart == (r1 :> 0) @@ (r2 :> 1)

One == r1 :> e1
Zero == r1 :> 0
===============================================================================
