------------------------------ MODULE MCCopilot ------------------------------
(* Copilot with no corpus, or two chunks of a runbook and one of another; a *)
(* playbook whose one step changes device state, of a document that may be  *)
(* retrieved (d1) or is not there (x), and a model that may drop the        *)
(* approval.                                                                *)
EXTENDS Copilot, TLC

CONSTANTS c1, c2, c3, d1, d2, x, reroute, pe, ce, far, site, congestion, flap

Doc == c1 :> d1 @@ c2 :> d1 @@ c3 :> d2

SomeCorpora == {<<>>, <<c1, c2, c3>>}

Scores(a, b, c) == c1 :> a @@ c2 :> b @@ c3 :> c

(* Agreeing rankings, opposite ones, ties, and a query that matches nothing. *)
SomeQueries == {[dense |-> Scores(3, 2, 1), sparse |-> Scores(3, 2, 1)],
                [dense |-> Scores(1, 2, 3), sparse |-> Scores(2, 3, 4)],
                [dense |-> Scores(1, 2, 3), sparse |-> Scores(3, 2, 0)],
                [dense |-> Scores(2, 3, 1), sparse |-> Scores(0, 1, 2)],
                [dense |-> Scores(0, 0, 0), sparse |-> Scores(0, 0, 0)]}

OneLink == {<<pe, ce>>, <<ce, far>>}

Playbook(ref) == [ref |-> ref, actions |-> {[step |-> reroute, ref |-> None, approval |-> TRUE]}]

Risk(issue, confidence) == [issue |-> issue, confidence |-> confidence]

(* An incident whose events disagree on the issue, and one with no playbook. *)
Disputed == [issue |-> congestion, risk |-> Risk(flap, 9), root |-> pe, blast |-> {site},
             playbook |-> Playbook(d1)]
Bare     == [issue |-> flap, risk |-> Risk(flap, 1), root |-> far, blast |-> {},
             playbook |-> None]
SomeIncidents == {Disputed, Bare}

(* Nothing, looser pieces, an incident, and pieces that override it.        *)
Pieces(inc, risk, root, blast, playbook) ==
    [incident |-> inc, risk |-> risk, root |-> root, blast |-> blast, playbook |-> playbook]
SomeContexts == {Pieces(None, None, None, None, None),
                 Pieces(None, Risk(congestion, 9), far, None, Playbook(x)),
                 Pieces(Disputed, None, None, None, None),
                 Pieces(Disputed, Risk(Healthy, 1), None, {}, Playbook(x))}

Cited == {{}, {x}, {c1}, {d1, x}, {BlastRadiusFact}}

Model == {[step |-> reroute, ref |-> r, approval |-> a] : r \in {x, None}, a \in BOOLEAN}
===============================================================================
