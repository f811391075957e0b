------------------------------ MODULE Correlation ------------------------------
(***************************************************************************)
(* Event correlation of netra/analytics/correlation: grouping events that  *)
(* are close in time and on the topology (correlate.py), and ranking the   *)
(* root cause of a group (rca.py).                                         *)
(*                                                                         *)
(* An event is a record with the fields entity, at, issue, risk, tti and   *)
(* rank, its position in the list of events; the pipeline hands over one   *)
(* event per entity, so nothing is left for dedup_events() to compress.    *)
(* Factors of a root-cause score are in thousandths.                       *)
(***************************************************************************)
EXTENDS Integers, Sequences, FiniteSets, FiniteSetsExt

CONSTANTS
    NodeOf,          \* [entities -> nodes, or None]: map_to_node()
    Nodes,           \* the devices of the topology
    Distance(_, _),  \* hops between two nodes, whichever way the edges point
    Centrality,      \* [nodes -> Nat]: betweenness and eigenvector, blended
    Window,          \* correlation_window_seconds
    MaxTopoDistance, \* max_topo_distance
    NoIssue,         \* IssueType.NONE
    None             \* Python's None

ASSUME NodeAssumption ==
    /\ \A e \in DOMAIN NodeOf : NodeOf[e] \in Nodes \cup {None}
    /\ None \notin Nodes
    /\ Centrality \in [Nodes -> Nat]
ASSUME DistanceAssumption ==
    \A a \in Nodes, b \in Nodes : Distance(a, b) \in Nat /\ Distance(a, b) = Distance(b, a)
ASSUME WindowAssumption == Window \in Nat /\ MaxTopoDistance \in Nat

(* An event that is not on the graph is close to all.                       *)
TopologicallyClose(a, b) ==
    a = None \/ b = None \/ a = b \/ Distance(a, b) <= MaxTopoDistance

Close(e, f) ==
    /\ e.at - f.at <= Window
    /\ f.at - e.at <= Window
    /\ TopologicallyClose(NodeOf[e.entity], NodeOf[f.entity])

(* Mutant: an incident is what is close to one of its events.               *)
ComponentDirect(e, events) == {f \in events : e = f \/ Close(e, f)}

(* Nothing in the group is close to anything outside of it.                 *)
Separate(group, events) == \A e \in group, f \in events \ group : ~Close(e, f)

(* The connected component of an event in the graph of what is close: what  *)
(* no group can do without that holds the event and is separate.            *)
Component(e, events) ==
    {f \in events : \A group \in SUBSET events :
                        e \in group /\ Separate(group, events) => f \in group}

(* correlate_events()                                                       *)
Groups(events) == {Component(e, events) : e \in events}

(* What grouping promises: every event is in a group, groups share nothing  *)
(* and have nothing close to each other, and none of them falls apart in    *)
(* two parts with nothing close.                                            *)
AreIncidentGroups(groups, events) ==
    /\ UNION groups = events
    /\ \A g \in groups : \A h \in groups \ {g} :
          \A e \in g, f \in h : e # f /\ ~Close(e, f)
    /\ \A g \in groups : \A part \in (SUBSET g) \ {{}, g} :
          \E e \in part, f \in g \ part : Close(e, f)
-------------------------------------------------------------------------------
(* _minmax_norm: scaled to floor..1000; what is all the same becomes 1000.  *)
MinMaxNorm(raw, floor) ==
    LET vals == {raw[x] : x \in DOMAIN raw}
        lo == Min(vals)
        hi == Max(vals)
    IN [x \in DOMAIN raw |->
            IF hi = lo THEN 1000
            ELSE floor + ((1000 - floor) * (raw[x] - lo)) \div (hi - lo)]

(* topology_centrality: 0.5 for all when none of them is on the graph.      *)
TopologyCentrality(group) ==
    IF \A e \in group : NodeOf[e.entity] = None THEN [e \in group |-> 500]
    ELSE MinMaxNorm([e \in group |-> IF NodeOf[e.entity] = None THEN 0
                                     ELSE Centrality[NodeOf[e.entity]]], 50)

(* Mutant: the latest onset is taken for the cause.                         *)
OnsetScoresReversed(group) ==
    LET first == Min({e.at : e \in group})
        last == Max({e.at : e \in group})
    IN [e \in group |-> IF first = last THEN 1000
                        ELSE (1000 * (e.at - first)) \div (last - first)]

(* onset_scores: 1 for the earliest of the group, 0 for the latest.         *)
OnsetScores(group) ==
    LET first == Min({e.at : e \in group})
        last == Max({e.at : e \in group})
    IN [e \in group |-> IF first = last THEN 1000
                        ELSE 1000 - (1000 * (e.at - first)) \div (last - first)]

(* granger_causal_scores: one event per entity is a series of one point,    *)
(* and a Granger test wants eight, so no pair has a strength and every raw  *)
(* score is the neutral 0.5 -- before it is scaled.                         *)
GrangerCausalScores(group) ==
    LET neutral == [e \in group |-> 500]
    IN IF Cardinality(group) < 2 THEN neutral ELSE MinMaxNorm(neutral, 250)

(* rank_root_causes: the product of the factors, none of them under 0.05.   *)
Score(e, group) ==
    LET Floored(scores) == Max({scores[e], 50})
    IN Floored(TopologyCentrality(group)) * Floored(OnsetScores(group))
         * Floored(GrangerCausalScores(group))

(* Candidates come by onset, and the sort by score keeps that order on ties.*)
Earlier(e, f) == e.at < f.at \/ (e.at = f.at /\ e.rank < f.rank)

Root(group) ==
    CHOOSE e \in group : \A f \in group \ {e} :
        \/ Score(e, group) > Score(f, group)
        \/ Score(e, group) = Score(f, group) /\ Earlier(e, f)

(* The issue most events of the group have, the first one's on a tie.       *)
DominantIssue(group) ==
    LET issues == {e.issue : e \in group} \ {NoIssue}
        With(i) == {e \in group : e.issue = i}
        First(i) == Min({e.rank : e \in With(i)})
    IN IF issues = {} THEN NoIssue
       ELSE CHOOSE i \in issues : \A j \in issues \ {i} :
                \/ Cardinality(With(i)) > Cardinality(With(j))
                \/ Cardinality(With(i)) = Cardinality(With(j)) /\ First(i) < First(j)

(* assemble_incident: risk and time to impact are those of the root's event.*)
Incident(group) ==
    LET root == Root(group)
    IN [events |-> group,
        root   |-> root.entity,
        issue  |-> DominantIssue(group),
        risk   |-> root.risk,
        tti    |-> root.tti]

CorrelateToIncidents(events) == {Incident(group) : group \in Groups(events)}
===============================================================================
