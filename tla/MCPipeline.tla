------------------------------- MODULE MCPipeline -------------------------------
(***************************************************************************)
(* Pipeline for TLC. Three entities on a chain of nodes n1 - n2 - n3 where *)
(* only neighbours are close; entity e1 has two metrics, the tunnel of e3  *)
(* reports loss, jitter and a rekey interval, which breaches downwards.    *)
(* Two ticks are close in time, four are not.                              *)
(***************************************************************************)
EXTENDS Pipeline

MCMethods == {"robust_z", "page_hinkley", "lof"}
MCFamilyOf == [m \in MCMethods |-> CASE m = "robust_z" -> "statistical"
                                     [] m = "page_hinkley" -> "change_point"
                                     [] m = "lof" -> "ml_unsupervised"]
MCPrior == [f \in {"statistical", "change_point", "ml_unsupervised"} |->
                CASE f = "statistical" -> 9 [] f = "change_point" -> 11 [] OTHER -> 10]
MCBreadth(n) == <<0, 551, 798, 909, 959, 982>>[n + 1]
MCExtreme(i, scores) == scores[i].score >= 60

MCStreams == {"util1", "latency1", "util2", "loss3", "jitter3", "rekey3"}
MCEntities == {"e1", "e2", "e3"}
MCEntityOf == [s \in MCStreams |-> CASE s = "util2" -> "e2" [] s \in {"loss3", "jitter3", "rekey3"} -> "e3"
                                     [] OTHER -> "e1"]
MCIssueOf == [s \in MCStreams |-> CASE s = "latency1" -> "latency_drift"
                                    [] s \in {"loss3", "jitter3", "rekey3"} -> "tunnel_degradation"
                                    [] OTHER -> "interface_congestion"]
MCThreshold == [s \in MCStreams |-> 100]
MCRising == [s \in MCStreams |-> s # "rekey3"]

Scores(z, ph) == <<[score |-> z, method |-> "robust_z"],
                   [score |-> ph, method |-> "page_hinkley"]>>

Sample(s, v, scores, d) == [scores |-> scores,
                            entity |-> IF s = None THEN "e1" ELSE MCEntityOf[s],
                            stream |-> s, value |-> v, drift |-> d]

(* Both detectors agree, one stands alone and scores higher, or all is well. *)
Agreeing(s, v, d) == Sample(s, v, Scores(85, 90), d)
Lone(s, v)        == Sample(s, v, Scores(95, 10), 0)
Quiet(s, v)       == Sample(s, v, Scores(10, 5), 0)
Silent(s, v)      == Sample(s, v, Scores(0, 0), 0)

(* The detectors of the jitter fail.                                        *)
Tunnel(loss, rekey) == TunnelStat(loss, Sample("jitter3", 1, <<>>, 0), rekey)

MCRecords ==
    {<<Agreeing("util1", 80, 0)>>, <<Lone("latency1", 120)>>, <<Agreeing("util2", 70, 1)>>,
     <<Sample(None, 0, <<>>, 2)>>,
     Tunnel(Silent("loss3", 1), Quiet("rekey3", 130)),
     Tunnel(Silent("loss3", 1), Agreeing("rekey3", 115, 0)),
     Tunnel(Agreeing("loss3", 60, 0), None)}

MCBatch(s, history) == <<[score |-> IF s = "util2" THEN 30 ELSE 80, method |-> "lof"]>>

(* Two members follow a quarter of the last difference, one of them damped, *)
(* a third is half as steep again and has half the weight. All fail on a    *)
(* single sample of e2's.                                                   *)
Line(v, a, b, weight) ==
    [point |-> <<v + a, v + a + b>>, lower |-> <<v + a - 2, v + a + b - 4>>,
     upper |-> <<v + a + 2, v + a + b + 4>>, weight |-> weight]

MCTrajectories(s, samples) ==
    LET n == Len(samples)
        diff == IF n = 1 THEN (IF MCRising[s] THEN 12 ELSE -12)
                ELSE (samples[n] - samples[n - 1]) \div 4
    IN IF n = 1 /\ s = "util2" THEN <<>>
       ELSE << Line(samples[n], diff, diff, 2), Line(samples[n], diff, diff \div 2, 2),
               Line(samples[n], (3 * diff) \div 2, (3 * diff) \div 2, 1) >>

MCNodes == {"n1", "n2", "n3"}
MCNodeOf == [e \in MCEntities |-> CASE e = "e1" -> "n1" [] e = "e2" -> "n2"
                                    [] e = "e3" -> "n3"]
MCDistance(a, b) ==
    LET place == [n \in MCNodes |-> CASE n = "n1" -> 1 [] n = "n2" -> 2 [] n = "n3" -> 3]
    IN Dist(place[a], place[b])
(* n1 has its part of the graph to link up, too.                            *)
MCCentrality == [n \in MCNodes |-> IF n = "n3" THEN 100 ELSE 500]

(* The incident that touches both devices is tagged with the first.         *)
MCLabels == <<[scenario |-> "A", issue |-> "interface_congestion", target |-> "e1",
               precursor |-> 0, fault |-> 5, end |-> 6],
              [scenario |-> "C", issue |-> "tunnel_degradation", target |-> "e3",
               precursor |-> 0, fault |-> 4, end |-> 4]>>
===============================================================================
