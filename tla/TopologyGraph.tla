---------------------------- MODULE TopologyGraph ----------------------------
(***************************************************************************)
(* The topology digital twin of netra/analytics/correlation/graph.py, its  *)
(* two instances (the built-in demo network, and the one that              *)
(* netra/pipeline/topology_adapter.py derives from the reference           *)
(* topology), and the blast radius of blast_radius.py.                     *)
(*                                                                         *)
(* A twin is a record of its nodes, what a node carries, and the edges     *)
(* that point the way a failure propagates.  Criticality is in units of    *)
(* 1/10000.                                                                *)
(***************************************************************************)
EXTENDS Integers, ReferenceTopology, FiniteSetsExt

CONSTANT NoNode   \* Python's None: the id matches no node
-------------------------------------------------------------------------------
RoleCriticality == [RR |-> 95, P |-> 90, controller |-> 95, PE |-> 75, CE |-> 45, HOST |-> 30]

SiteTypeWeight == [datacenter |-> 100, core |-> 100, hub |-> 85, branch |-> 60]

DefaultCriticality(role, siteType) == RoleCriticality[role] * SiteTypeWeight[siteType]

(* What _add_edge gives an endpoint that no node declares.                  *)
Undeclared(n) == [site |-> Site(n), device |-> NoNode, crit |-> 5000, services |-> {}, slas |-> {}]

(* from_spec: declared nodes, endpoints nobody declared, and the reverse of *)
(* every edge that is not directed.                                         *)
FromSpec(attr, edges) ==
    LET ends == UNION {{e.source, e.target} : e \in edges}
    IN [nodes |-> DOMAIN attr \cup ends,
        attr  |-> [n \in DOMAIN attr \cup ends |->
                      IF n \in DOMAIN attr THEN attr[n] ELSE Undeclared(n)],
        edges |-> {<<e.source, e.target>> : e \in edges}
                    \cup {<<e.target, e.source>> : e \in {x \in edges : ~x.directed}}]

(* criticality(): an id that is no node has the default, even when          *)
(* map_to_node would find the node it belongs to.                           *)
Criticality(g, e) == IF e \in g.nodes THEN g.attr[e].crit ELSE 5000

(* map_to_node: the id itself, else its longest proper prefix that is a     *)
(* node, else any node of the same site and device (no device name of these *)
(* networks is a prefix of another).                                        *)
MapToNode(g, e) ==
    LET cuts == {k \in 1..(Len(e) - 1) : SubSeq(e, 1, k) \in g.nodes}
        near == {n \in g.nodes : Len(e) >= 2 /\ Site(n) = Site(e) /\ Device(n) = Device(e)}
    IN CASE e \in g.nodes -> e
         [] e \notin g.nodes /\ cuts # {} -> SubSeq(e, 1, Max(cuts))
         [] e \notin g.nodes /\ cuts = {} /\ near # {} -> CHOOSE n \in near : TRUE
         [] OTHER -> NoNode
-------------------------------------------------------------------------------
(* demo_topology_spec.                                                      *)
P(n)  == <<"core", n, "P">>
RR    == <<"core", "rr1", "RR">>
Ctl   == <<"dc1", "ctl1", "controller">>
Dc(n) == <<"dc1", n, "PE">>
Hub   == <<"hub1", "pe-hub1", "PE">>
Br(s, d) == <<s, d, "CE">>
Spokes == {Br("br1", "ce-br1"), Br("br2", "ce-br2"), Br("br3", "ce-br3")}
Pes    == {Dc("pe-dc1"), Dc("pe-dc2"), Hub}

Attr(n, crit, services, slas) ==
    [site |-> Site(n), device |-> Device(n), crit |-> crit, services |-> services, slas |-> slas]

DemoNodes ==
    LET row(n) ==
        CASE n = P("p1") -> Attr(n, 9200, {}, {})
          [] n = P("p2") -> Attr(n, 9000, {}, {})
          [] n = P("p3") -> Attr(n, 8800, {}, {})
          [] n = RR      -> Attr(n, 9500, {}, {})
          [] n = Ctl     -> Attr(n, 9700, {}, {})
          [] n = Dc("pe-dc1") -> Attr(n, 8500, VRFS, {"corp-gold", "ot-gold"})
          [] n = Dc("pe-dc2") -> Attr(n, 8400, {CORP}, {"corp-gold"})
          [] n = Hub     -> Attr(n, 8000, VRFS, {"corp-silver"})
          [] n = Br("br1", "ce-br1") -> Attr(n, 5000, {CORP}, {"corp-bronze"})
          [] n = Br("br2", "ce-br2") -> Attr(n, 4800, {CORP}, {"corp-bronze"})
          [] n = Br("br3", "ce-br3") -> Attr(n, 4600, {OT}, {"ot-bronze"})
    IN [n \in {P("p1"), P("p2"), P("p3"), RR, Ctl} \cup Pes \cup Spokes |-> row(n)]

Edges(from, to, oneWay) == {[source |-> u, target |-> v, directed |-> oneWay] : u \in from, v \in to}

DemoEdges ==
    Edges({Ctl, RR}, Pes, TRUE)
      \cup Edges({P("p1")}, {P("p2"), P("p3")}, FALSE) \cup Edges({P("p2")}, {P("p3")}, FALSE)
      \cup Edges({P("p1")}, {Dc("pe-dc1"), Dc("pe-dc2")}, TRUE)
      \cup Edges({P("p2"), P("p3")}, {Hub}, TRUE)
      \cup Edges({Hub}, Spokes, TRUE)

DemoTwin == FromSpec(DemoNodes, DemoEdges)
-------------------------------------------------------------------------------
(* topology_spec_from_reference.  An uplink is one-way when its first end   *)
(* is the P router; the reference topology lists a PE's uplinks PE first.   *)
LinkEdges ==
    {[source |-> DeviceEntityId(l[1]), target |-> DeviceEntityId(l[2]),
      directed |-> Devices[l[1]].role = "P" /\ Devices[l[2]].role \in {"PE", "CE"}] : l \in Links}

SessionEdges ==
    Edges({DeviceEntityId(d) : d \in DevicesByRole("RR") \cup DevicesByRole("controller")},
          {DeviceEntityId(d) : d \in DevicesByRole("PE")}, TRUE)

(* The CE of the peer site, else its PE.                                    *)
TunnelPeers(site) ==
    LET ces == DevicesAt(site) \cap DevicesByRole("CE")
    IN IF ces # {} THEN ces ELSE DevicesAt(site) \cap DevicesByRole("PE")

TunnelEdges ==
    {e \in UNION {Edges({DeviceEntityId(t[1])}, {DeviceEntityId(x) : x \in TunnelPeers(t[2])}, TRUE) :
                     t \in {p \in DeviceNames \X {Devices[x].site : x \in DeviceNames} :
                               p[2] \in Devices[p[1]].tunnels}} :
       e.source # e.target}

PipelineTwin ==
    FromSpec([n \in {DeviceEntityId(d) : d \in DeviceNames} |->
                 LET d == Device(n)
                 IN Attr(n, DefaultCriticality(Devices[d].role, Devices[d].siteType),
                         Devices[d].vrfs, Devices[d].vrfs)],
             LinkEdges \cup SessionEdges \cup TunnelEdges)
-------------------------------------------------------------------------------
Successors(g, S) == {e[2] : e \in {x \in g.edges : x[1] \in S}}

(* Mutant: a breadth-first search that goes up the edges as well.           *)
WithinBothWays(g, n) ==
    LET ball[k \in 0..Cardinality(g.nodes)] ==
            IF k = 0 THEN {n}
            ELSE LET S == ball[k - 1]
                 IN S \cup Successors(g, S) \cup {e[1] : e \in {x \in g.edges : x[2] \in S}}
    IN ball

(* The nodes within k hops downstream of n.                                 *)
Within(g, n) ==
    LET ball[k \in 0..Cardinality(g.nodes)] ==
            IF k = 0 THEN {n} ELSE LET S == ball[k - 1] IN S \cup Successors(g, S)
    IN ball

EmptyBlast == [nodes |-> {}, hops |-> << >>, sites |-> {}, devices |-> {}, services |-> {},
               slas |-> {}, flowCount |-> 0, size |-> 0]

(* compute_blast_radius with its defaults: what fails with the root, how    *)
(* far away, the flows the failure touches, and the share of the other      *)
(* nodes, in 1/10000.                                                       *)
BlastRadius(g, root, flows) ==
    LET n == MapToNode(g, root)
    IN IF n = NoNode THEN EmptyBlast
       ELSE LET ball     == Within(g, n)
                affected == ball[Cardinality(g.nodes)] \ {n}
                sites    == {g.attr[x].site : x \in affected}
                devices  == {g.attr[x].device : x \in affected}
                touched  == {f \in flows : \/ f.site \in sites \cup {g.attr[n].site}
                                           \/ f.device \in devices \cup {g.attr[n].device}}
            IN [nodes     |-> affected,
                hops      |-> [x \in affected |-> Min({k \in DOMAIN ball : x \in ball[k]})],
                sites     |-> sites,
                devices   |-> devices,
                services  |-> UNION {g.attr[x].services : x \in affected}
                                \cup {f.vrf : f \in touched},
                slas      |-> UNION {g.attr[x].slas : x \in affected},
                flowCount |-> Cardinality(touched),
                size      |-> (Cardinality(affected) * 10000)
                                 \div Max({Cardinality(g.nodes) - 1, 1})]
===============================================================================
