-------------------------- MODULE SyntheticGenerator --------------------------
(***************************************************************************)
(* netra/datagen/synthetic.py: a run of the generator schedules the        *)
(* scenarios, labels them before any record exists, and then walks through *)
(* time, one action per tick of iter_records().                            *)
(*                                                                         *)
(* A tick draws one z for all its streams (the code draws one per stream   *)
(* and tick, from a generator keyed with both, so that a stream read twice *)
(* in a tick is the same).  Wording, addresses and volumes are left out.   *)
(***************************************************************************)
EXTENDS Scenarios

CONSTANTS
    Configs,   \* GeneratorConfig: what runs there may be
    Observed,  \* bound: the devices whose records are looked at
    Noise      \* bound: draws, in sigmas

ASSUME ConfigAssumption ==
    /\ Observed \subseteq DeviceNames /\ Noise \subseteq Int
    /\ \A c \in Configs : /\ c.step \in Nat \ {0} /\ c.duration \in Nat \ {0}
                          /\ c.hour \in 0..23 /\ c.weekend \in BOOLEAN
                          /\ c.scenarios \subseteq {"A", "B", "C", "D"}

VARIABLES
    config,       \* self.config
    tick,         \* iter_records(): ticks emitted
    z,            \* the draw of the last tick
    events        \* what the last tick emitted beside its numeric records

genVars == <<config, tick, z, events>>
-------------------------------------------------------------------------------
InterfaceMetrics == {"if_util_pct", "if_out_discards", "if_in_errors", "latency_ms", "jitter_ms",
                     "loss_pct", "queue_depth"}
TunnelMetrics == {"tunnel_loss_pct", "tunnel_jitter_ms", "tunnel_rekey_interval_s"}
PeerMetrics   == {"bgp_update_rate", "bgp_withdraw_rate", "bgp_flap_penalty", "adj_flap_count",
                  "ospf_lsa_rate", "ospf_spf_rate", "path_asymmetry"}

Tunnels(d) == {SubEntityId(d, tun) : tun \in Devices[d].tunnels}
Peers(d)   == {SubEntityId(d, peer) : peer \in Devices[d].peers}

(* _interface_streams, _tunnel_streams (a TunnelStat has the latency, too), *)
(* _peer_streams and the controller's one.                                  *)
Streams(d) ==
    IF Devices[d].role = "controller" THEN {DeviceEntityId(d)} \X {"config_drift_score"}
    ELSE ({SubEntityId(d, iface) : iface \in Devices[d].interfaces} \X InterfaceMetrics)
            \cup (Tunnels(d) \X (TunnelMetrics \cup {"latency_ms"}))
            \cup (Peers(d) \X PeerMetrics)

-------------------------------------------------------------------------------
(* layout: precursor, fault and end as percentages of the duration.         *)
Layout == [A |-> <<12, 28, 45>>, B |-> <<30, 40, 55>>, C |-> <<50, 62, 80>>, D |-> <<70, 78, 92>>]

Target == [A |-> SubEntityId("pe_hub", "eth3"), B |-> SubEntityId("rr_dc", "pe_dc1"),
           C |-> SubEntityId("ce_br1", "hub"), D |-> DeviceEntityId("sdwan_ctl")]

Fanout == {SubEntityId("pe_dc1", "eth2"), SubEntityId("pe_hub", "eth2"), SubEntityId("pe_dc1", "pe_hub")}

ExpectedIssue == [A |-> "interface_congestion", B |-> "bgp_route_flap",
                  C |-> "tunnel_degradation", D |-> "policy_drift"]

(* _schedule_scenarios.                                                     *)
SpecOf(s) == [scenario |-> s, target |-> Target[s], fanout |-> IF s = "D" THEN Fanout ELSE {},
            precursor |-> (config.duration * Layout[s][1]) \div 100,
            fault     |-> (config.duration * Layout[s][2]) \div 100,
            end       |-> (config.duration * Layout[s][3]) \div 100]

(* _spec_to_label.                                                          *)
Label(s) == [scenario |-> s, issue |-> ExpectedIssue[s], target |-> SpecOf(s).target,
             precursor |-> SpecOf(s).precursor, fault |-> SpecOf(s).fault, end |-> SpecOf(s).end,
             lead |-> SpecOf(s).fault - SpecOf(s).precursor]

Hour(t) == (config.hour + t \div 360000) % 24

(* _value without the scenarios, and with them.                             *)
Healthy(e, metric, t, draw) ==
    Sample(DefaultBaselines[metric], draw, DiurnalMultiplier(Hour(t), config.weekend), SiteWeight[Site(e)])

Value(e, metric, t, draw) ==
    LET delta(s) == IF s \in config.scenarios
                    THEN ApplyInjection(SpecOf(s), t, e, metric, draw) ELSE 0
    IN Clamp(Healthy(e, metric, t, draw) + delta("A") + delta("B") + delta("C") + delta("D"),
             DefaultBaselines[metric].floor, DefaultBaselines[metric].ceil)

NSteps == config.duration \div config.step + 1
-------------------------------------------------------------------------------
(* _emit_tunnel_records: the state of a tunnel, and a syslog about its      *)
(* rekeying.                                                                *)
TunnelEvents(t, draw) ==
    LET tunnels == UNION {Tunnels(d) : d \in Observed}
    IN ({"tunnel_down"} \X {e \in tunnels : Value(e, "tunnel_loss_pct", t, draw) >= 8000})
         \cup ({"REKEY_ANOMALY"} \X {e \in tunnels : Value(e, "tunnel_rekey_interval_s", t, draw) < 300000})

(* _emit_routing_records: control-plane events when the churn is high.      *)
RoutingEvents(t, draw) ==
    LET sessions == UNION {Peers(d) : d \in Observed}
        churning == {e \in sessions : Value(e, "bgp_update_rate", t, draw) > 3000}
        flapping == {e \in sessions : Value(e, "adj_flap_count", t, draw) >= 50}
    IN ({"route_withdraw"} \X (churning \cap flapping)) \cup ({"route_announce"} \X (churning \ flapping))
          \cup ({"ADJCHANGE", "adjacency_down"} \X flapping)

(* _emit_flow_records: more flows through busier PEs, every 30 s or so.     *)
FlowEvents(i, t, draw) ==
    IF i % Max({1, 3000 \div config.step}) # 0 THEN {}
    ELSE {<<"flows", SubEntityId(d, "eth2"), 2 + Value(SubEntityId(d, "eth2"), "if_util_pct", t, draw) \div 2500>>
          : d \in Observed \cap DevicesByRole("PE")}

(* _is_drift_onset.                                                         *)
IsDriftOnset(t) ==
    "D" \in config.scenarios /\ t \in (SpecOf("D").fault - config.step)..(SpecOf("D").fault + config.step)

(* _emit_controller_records, beside the score itself.                       *)
ControllerEvents(t, draw) ==
    {<<"CONFIG_I", DeviceEntityId(d)>> :
        d \in {c \in Observed \cap DevicesByRole("controller") :
                  Value(DeviceEntityId(c), "config_drift_score", t, draw) > 0 /\ IsDriftOnset(t)}}

GenInit == /\ config \in Configs
           /\ tick = 0
           /\ z = 0
           /\ events = {}

(* One turn of the loop of iter_records().                                  *)
Emit ==
    /\ tick < NSteps
    /\ tick' = tick + 1
    /\ z' \in Noise
    /\ LET t == tick * config.step
       IN events' = TunnelEvents(t, z') \cup RoutingEvents(t, z') \cup FlowEvents(tick, t, z')
                       \cup ControllerEvents(t, z')
    /\ UNCHANGED config
-------------------------------------------------------------------------------
(* The time of the last tick.                                               *)
Now == (tick - 1) * config.step

(* When a scenario first shows: with its precursor window, or, in short     *)
(* runs, with the push of scenario D.                                       *)
Onset(s) == IF s = "D" THEN Min({Label(s).precursor, Label(s).fault - PushLead}) ELSE Label(s).precursor

Cleared(s) == Label(s).end + 6000

Affects(s, e) == e \in {SpecOf(s).target} \cup SpecOf(s).fanout /\ Now >= Onset(s)

(* The noise that the injectors of A and D leave behind.                    *)
Residue(metric) ==
    CASE metric = "jitter_ms" -> z * 150 [] metric = "config_drift_score" -> z [] OTHER -> 0

(* "Returning 0.0 for an untouched (entity, metric) keeps every other       *)
(* stream perfectly healthy" (scenarios.py): a stream differs from its      *)
(* baseline only on the target of a scenario, or where it fans out to,      *)
(* since its labelled precursor, and but for some noise not after it has    *)
(* cleared, a minute past the end of its label; and the log complains of    *)
(* nothing else.                                                            *)
HealthyStreamsStayHealthy ==
    tick > 0 =>
        /\ \A x \in UNION {Streams(d) : d \in Observed} :
              LET off == Value(x[1], x[2], Now, z) - Healthy(x[1], x[2], Now, z)
              IN off # 0 => \E s \in config.scenarios :
                               /\ Affects(s, x[1])
                               /\ \/ Now < Cleared(s)
                                  \/ off \in 0..Residue(x[2]) \cup Residue(x[2])..0
        /\ \A ev \in events : ev[1] # "flows" =>
              \E s \in config.scenarios : Affects(s, ev[2]) /\ Now < Cleared(s)
===============================================================================
