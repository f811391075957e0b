------------------------------ MODULE MCApiServer ------------------------------
(* ApiServer with two or three consoles, some of which ask for a limited    *)
(* number of frames.                                                        *)
EXTENDS ApiServer, TLC

CONSTANTS a, b, c

LimitedAndOpen == (a :> 1) @@ (b :> 2) @@ (c :> None)
===============================================================================
