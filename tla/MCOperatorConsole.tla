-------------------------- MODULE MCOperatorConsole --------------------------
(* OperatorConsole with three incidents, of three faults or of two.         *)
EXTENDS OperatorConsole

CONSTANTS i1, i2, i3, congestion, flap, tunnel

Listing(a, b, c) == <<[id |-> i1, issue |-> a], [id |-> i2, issue |-> b],
                      [id |-> i3, issue |-> c]>>

AllQueues == {Listing(congestion, flap, tunnel), Listing(congestion, flap, congestion)}
===============================================================================
