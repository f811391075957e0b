------------------------------ MODULE Retrieval ------------------------------
(***************************************************************************)
(* What the copilot is given to answer from: the hybrid retrieval of       *)
(* netra/copilot/rag/retrieve.py over the corpus that ingest.py loaded,    *)
(* and the topology facts of graphrag.py.                                  *)
(*                                                                         *)
(* A query is the similarity of every chunk to it (dense) and its BM25     *)
(* score (sparse); how texts come to these numbers is left out.  The       *)
(* reranker is the identity, as without the optional cross-encoder.        *)
(***************************************************************************)
EXTENDS Integers, SequencesExt

CONSTANTS
    CandidatePool,  \* candidate_pool
    RrfK,           \* rrf_k
    MaxHops,        \* max_hops of graph_facts
    Devices,        \* the devices the topology files declare
    Links           \* their links, as pairs

ASSUME RetrievalAssumption ==
    /\ CandidatePool \in Nat \ {0} /\ RrfK \in Nat /\ MaxHops \in Nat
-------------------------------------------------------------------------------
Take(s, n) == IF Len(s) <= n THEN s ELSE SubSeq(s, 1, n)

PlaceIn(ranking, c) == CHOOSE i \in DOMAIN ranking : ranking[i] = c

(* The ways to sort a set of chunks.                                        *)
Sortings(S, before(_, _)) ==
    {s \in SetToSeqs(S) : \A i, j \in DOMAIN s : i < j => before(s[i], s[j])}

(* _dense_ranking: the index returns as many of the corpus as there are, no *)
(* matter how little they have in common with the query, and breaks ties at *)
(* will.                                                                    *)
DenseRankings(corpus, dense) ==
    {Take(s, CandidatePool) : s \in
        Sortings(ToSet(corpus), LAMBDA c, d : dense[c] >= dense[d])}

(* _sparse_ranking: a stable sort, without what matches no term.            *)
SparseRankings(corpus, sparse) ==
    {Take(s, CandidatePool) : s \in
        Sortings({c \in ToSet(corpus) : sparse[c] > 0},
                 LAMBDA c, d : \/ sparse[c] > sparse[d]
                               \/ /\ sparse[c] = sparse[d]
                                  /\ PlaceIn(corpus, c) < PlaceIn(corpus, d))}

(* Mutant: ranks count from the far end.                                    *)
ReciprocalOfLast(ranking, c) ==
    IF c \notin ToSet(ranking) THEN [num |-> 0, den |-> 1]
    ELSE [num |-> 1, den |-> RrfK + Len(ranking) + 1 - PlaceIn(ranking, c)]

(* 1 / (k + rank + 1), as a fraction; nothing for what is not ranked.       *)
Reciprocal(ranking, c) ==
    IF c \notin ToSet(ranking) THEN [num |-> 0, den |-> 1]
    ELSE [num |-> 1, den |-> RrfK + PlaceIn(ranking, c)]

SumOf(p, q) == [num |-> p.num * q.den + q.num * p.den, den |-> p.den * q.den]
More(p, q)  == p.num * q.den > q.num * p.den

(* _rrf: a stable sort of the chunks in the order in which the rankings     *)
(* first name them.                                                         *)
Fused(first, second) ==
    LET score(c) == SumOf(Reciprocal(first, c), Reciprocal(second, c))
        named(c) == IF c \in ToSet(first) THEN PlaceIn(first, c)
                    ELSE Len(first) + PlaceIn(second, c)
    IN Sortings(ToSet(first) \cup ToSet(second),
                LAMBDA c, d : \/ More(score(c), score(d))
                              \/ ~More(score(d), score(c)) /\ named(c) < named(d))

(* retrieve, as every caller calls it, without a metadata filter; what      *)
(* nothing ranked comes in the order of the corpus.                         *)
Retrieved(corpus, query, topK) ==
    {Take(Take(IF fused = <<>> THEN corpus ELSE fused, CandidatePool), topK) : fused \in
        UNION {Fused(dense, sparse) : dense \in DenseRankings(corpus, query.dense),
                                      sparse \in SparseRankings(corpus, query.sparse)}}
-------------------------------------------------------------------------------
RootCauseFact    == "graph:root-cause"
BlastRadiusFact  == "graph:blast-radius"
ReachabilityFact == "graph:reachability"

(* TopologyGraph._ingest: links count both ways, also to undeclared ends.   *)
Neighbours(d) == {l[2] : l \in {k \in Links : k[1] = d}} \cup {l[1] : l \in {k \in Links : k[2] = d}}

(* reachable: breadth first, to max_hops, without the device itself.        *)
Reachable(device) ==
    LET within[n \in 0..MaxHops] ==
            IF n = 0 THEN {device} ELSE within[n - 1] \cup UNION {Neighbours(d) : d \in within[n - 1]}
    IN within[MaxHops] \ {device}

(* graph_facts, for a blast radius of the given scope, or without one.      *)
GraphFacts(root, blast, noBlast) ==
    {f \in {RootCauseFact, BlastRadiusFact, ReachabilityFact} :
        CASE f = RootCauseFact    -> root \in Devices
          [] f = BlastRadiusFact  -> blast # noBlast /\ blast # {}
          [] f = ReachabilityFact -> blast = noBlast /\ Reachable(root) # {}}

(* affected_scope_from_blast_radius.                                        *)
AffectedScope(blast, noBlast) == IF blast = noBlast THEN {} ELSE blast
===============================================================================
