------------------------------ MODULE MCRanking ------------------------------
(* Two incidents of the demo network, one of them on the hub PE that flaps. *)
(* FlapSuppressor has its default thresholds, in halves, and a time unit of *)
(* two half-lives.                                                          *)
EXTENDS Ranking, TLC

HalveTwice(p, dt) == p \div 4 ^ dt

FlappingHub == {Hub}
TwoIncidents == <<"i1", "i2">>
TwoRoots == [i1 |-> {Hub}, i2 |-> {Br("br1", "ce-br1"), P("p1"), RR}]

Row(s, l) == [score |-> s, label |-> l]
SomeFlows == {[site |-> "br1", device |-> "ce-br1", vrf |-> OT],
              [site |-> "dc1", device |-> "pe-dc1", vrf |-> CORP],
              [site |-> "core", device |-> "p2", vrf |-> CORP]}

(* A Platt sigmoid in three pieces: flat, steep, flat; rising or falling.    *)
Steep == [s \in Percents |-> IF s < 20 THEN 30 ELSE IF s > 60 THEN 970 ELSE 30 + (940 * (s - 20)) \div 40]
Sigmoids == {Steep, [s \in Percents |-> 1000 - Steep[s]]}

LabelledRuns == {<<Row(20, 0), Row(30, 1), Row(40, 0), Row(60, 1), Row(80, 1)>>,
                 <<Row(20, 1), Row(80, 1)>>}
===============================================================================
