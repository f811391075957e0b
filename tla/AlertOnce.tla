------------------------------ MODULE AlertOnce ------------------------------
(***************************************************************************)
(* What netra/streaming/alerts.py promises to whoever takes alerts from    *)
(* it, without stores, clocks or loops: every candidate is either returned *)
(* as an alert or dropped as a duplicate; dropped only if an alert of the  *)
(* same key was returned for a time less than a window away; and returned  *)
(* a second time only if the cap on remembered keys had forgotten the key. *)
(***************************************************************************)
EXTENDS Integers, Sequences

CONSTANTS
    Candidates,  \* what may be delivered: records with a key and a time ts
    Window,      \* the width of the time window that is part of a key
    InTime       \* do deliveries lag little enough to be recognised?

VARIABLES
    alerts,      \* the alerts returned so far
    dropped,     \* the duplicates dropped so far
    forgotten    \* the keys that the cap has pushed out so far

Keys(s) == {s[i].key : i \in DOMAIN s}

Init == alerts = <<>> /\ dropped = <<>> /\ forgotten = {}

Return(c) ==
    /\ InTime => c.key \notin Keys(alerts) \ forgotten
    /\ alerts' = Append(alerts, c)
    /\ forgotten \subseteq forgotten'
    /\ forgotten' \subseteq forgotten \cup Keys(alerts')
    /\ UNCHANGED dropped

Drop(c) ==
    /\ \E i \in DOMAIN alerts : /\ alerts[i].key = c.key
                                /\ alerts[i].ts - c.ts < Window
                                /\ c.ts - alerts[i].ts < Window
    /\ dropped' = Append(dropped, c)
    /\ UNCHANGED <<alerts, forgotten>>

Next == \E c \in Candidates : Return(c) \/ Drop(c)

Spec == Init /\ [][Next]_<<alerts, dropped, forgotten>>
===============================================================================
