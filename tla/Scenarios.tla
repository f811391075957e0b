------------------------------- MODULE Scenarios -------------------------------
(***************************************************************************)
(* The signals of netra/datagen/scenarios.py: what a metric is worth at a  *)
(* time of day, and what each of the four validation scenarios adds to it. *)
(*                                                                         *)
(* Times are in hundredths of a second since the start of the data, values *)
(* in hundredths of their unit, ramps, gains, weights and the sigmas of    *)
(* multiplicative noise in thousandths.  A draw from the normal            *)
(* distribution is z sigmas, for a z of the caller; the time of day counts *)
(* in full hours.                                                          *)
(***************************************************************************)
EXTENDS Integers, Sequences, FiniteSetsExt, ReferenceTopology

Of(x, permille) == (x * permille) \div 1000
Clamp(x, lo, hi) == Min({hi, Max({lo, x})})
-------------------------------------------------------------------------------
(* math.sin of k * 15 degrees.                                              *)
Sin(k) == LET quarter == <<0, 259, 500, 707, 866, 966, 1000>>
              half(n) == quarter[1 + Min({n, 12 - n})]
          IN IF k % 24 <= 12 THEN half(k % 24) ELSE -half((k % 24) - 12)

(* math.exp of the lunch dip, n hours from 13:00.                           *)
Lunch(n) == CASE n = 0 -> 100 [] n \in {-1, 1} -> 46 [] n \in {-2, 2} -> 4 [] OTHER -> 0

(* diurnal_multiplier, with its peak_hour of 15.                            *)
DiurnalMultiplier(hour, weekend) ==
    LET primary == 550 + Of(420, Sin((hour - 15 + 6) - 6))
        val     == Max({180, primary - Lunch(hour - 13)})
    IN Min({1050, IF weekend THEN Of(val, 700) ELSE val})

Inf == 10000000

(* MetricBaseline, with its defaults.                                       *)
Baseline(base, sigma, gain) ==
    [base |-> base, sigma |-> sigma, floor |-> 0, ceil |-> Inf, gain |-> gain,
     seasonal |-> TRUE, additive |-> FALSE, scaled |-> TRUE]

(* What is no load: not weighted by the site's population; and of that,     *)
(* what knows no time of day and has additive noise.                        *)
Physical(base, sigma, gain) == [Baseline(base, sigma, gain) EXCEPT !.scaled = FALSE]
Count(base, sigma)  == [Physical(base, sigma, 0) EXCEPT !.additive = TRUE, !.seasonal = FALSE]
Loss(base)          == [Physical(base, 50, 300) EXCEPT !.additive = TRUE, !.ceil = 10000]

(* DEFAULT_BASELINES.                                                       *)
DefaultBaselines ==
    [if_util_pct     |-> [Baseline(4200, 60, 900) EXCEPT !.floor = 50, !.ceil = 10000],
     if_out_discards |-> [Baseline(30, 80, 700) EXCEPT !.additive = TRUE],
     if_in_errors    |-> Count(5, 30),
     latency_ms      |-> [Physical(1800, 40, 350) EXCEPT !.floor = 100, !.ceil = 200000],
     jitter_ms       |-> [Physical(250, 120, 400) EXCEPT !.floor = 10, !.ceil = 50000],
     loss_pct        |-> Loss(5),
     queue_depth     |-> Baseline(600, 150, 800),
     bgp_update_rate |-> [Count(120, 90) EXCEPT !.seasonal = TRUE, !.gain = 500],
     bgp_withdraw_rate |-> Count(20, 60),
     bgp_flap_penalty  |-> [Count(0, 0) EXCEPT !.ceil = 1000000],
     adj_flap_count    |-> [Count(0, 0) EXCEPT !.ceil = 1000000],
     ospf_lsa_rate     |-> [Count(80, 70) EXCEPT !.ceil = 1000000],
     ospf_spf_rate     |-> [Count(30, 50) EXCEPT !.ceil = 1000000],
     path_asymmetry    |-> [Count(2, 40) EXCEPT !.ceil = 100],
     tunnel_loss_pct   |-> Loss(8),
     tunnel_jitter_ms  |-> [Physical(300, 140, 400) EXCEPT !.floor = 10, !.ceil = 50000],
     tunnel_rekey_interval_s |-> [Physical(360000, 10, 0) EXCEPT !.floor = 6000, !.ceil = 8640000,
                                                                 !.seasonal = FALSE],
     config_drift_score |-> [Count(0, 0) EXCEPT !.ceil = 100]]

SiteWeight == [dc |-> 1000, hub |-> 800, br1 |-> 450, br2 |-> 400, br3 |-> 500, core |-> 900]

(* MetricBaseline.sample.                                                   *)
Sample(b, z, dm, weight) ==
    LET load  == IF b.scaled THEN Of(b.base, weight) ELSE b.base
        level == IF b.seasonal THEN Of(load, (1000 - b.gain) + Of(dm, b.gain)) ELSE load
    IN Clamp(IF b.additive THEN level + z * b.sigma ELSE Of(level, 1000 + z * b.sigma), b.floor, b.ceil)
-------------------------------------------------------------------------------
(* _ramp01 and _smoothstep.                                                 *)
Ramp(t, t0, t1) == IF t1 <= t0 THEN (IF t >= t1 THEN 1000 ELSE 0)
                   ELSE Clamp((1000 * (t - t0)) \div (t1 - t0), 0, 1000)
Smoothstep(x) == (x * x * (3000 - 2 * x)) \div 1000000

Pre(spec, t)       == Ramp(t, spec.precursor, spec.fault)
InFault(spec, t)   == spec.fault <= t /\ t < spec.end
After(spec, t, n)  == 1000 - Ramp(t, spec.end, spec.end + n)

(* The square waves of scenarios B and C.                                   *)
Wave(spec, t, period, on) == InFault(spec, t) /\ (t - spec.fault) % period < on

(* Mutant: the precursor outlasts the fault.                                *)
InjectCongestionForGood(spec, t, metric, z) ==
    LET pre == Pre(spec, t)
    IN CASE metric = "if_util_pct" -> Of(Of(5500, Smoothstep(pre)), 1000 + 20 * z) [] OTHER -> 0

(* inject_congestion, on its target.                                        *)
InjectCongestion(spec, t, metric, z) ==
    LET pre    == Pre(spec, t)
        smooth == Smoothstep(pre)
        fault  == Ramp(t, spec.fault, spec.fault + 9000)
        active == After(spec, t, 6000)
    IN CASE metric = "if_util_pct" ->
                Of(Of(Of(5500, smooth) + Of(3000, fault), active), 1000 + 20 * z)
         [] metric = "queue_depth" -> Of(Of(Of(8000, smooth), smooth) + Of(12000, fault), active)
         [] metric = "if_out_discards" ->
                Of(Of(4000, Max({0, pre - 400})) + Of(20000, fault), active)
         [] metric = "latency_ms" -> Of(Of(2200, smooth) + Of(6000, fault), active)
         \* the noise is not switched off by the clearance
         [] metric = "jitter_ms" -> Of(Of(400, smooth) + Of(1200, fault), active) + z * Of(150, pre)
         [] metric = "loss_pct" -> Of(Of(600, Max({0, pre - 850})) + Of(900, fault), active)
         [] OTHER -> 0

(* inject_bgp_flap, on its target.                                          *)
InjectBgpFlap(spec, t, metric, z) ==
    LET pre    == Pre(spec, t)
        smooth == Smoothstep(pre)
        active == After(spec, t, 4500)
        onIn(on, in) == IF Wave(spec, t, 8000, 2800) THEN on ELSE IF InFault(spec, t) THEN in ELSE 0
        sigma  == Of(400, pre + (IF InFault(spec, t) THEN 1000 ELSE 0))
    IN CASE metric = "bgp_flap_penalty"  -> Of(Of(80000, smooth) + onIn(150000, 40000), active)
         [] metric = "bgp_update_rate"   ->
                Of(Max({0, Of(1500, smooth) + onIn(9000, 1000) + z * sigma}), active)
         [] metric = "bgp_withdraw_rate" -> Of(onIn(2500, 200) + Of(800, Max({0, pre - 500})), active)
         [] metric = "adj_flap_count"    -> Of(onIn(100, 0), active)
         [] metric = "ospf_spf_rate"     -> Of(onIn(600, 100) + Of(300, Max({0, pre - 600})), active)
         [] metric = "ospf_lsa_rate"     -> Of(onIn(1000, 150) + Of(400, Max({0, pre - 600})), active)
         [] metric = "path_asymmetry"    -> Of(Min({100, Of(40, smooth) + onIn(50, 0)}), active)
         [] OTHER -> 0

(* inject_tunnel_degradation, on its target.                                *)
InjectTunnelDegradation(spec, t, metric, z) ==
    LET pre    == Pre(spec, t)
        smooth == Smoothstep(pre)
        active == After(spec, t, 6000)
        onIn(on, in) == IF Wave(spec, t, 4000, 1000) THEN on ELSE IF InFault(spec, t) THEN in ELSE 0
        sigma(n) == Of(n, pre + (IF InFault(spec, t) THEN 1000 ELSE 0))
    IN CASE metric = "tunnel_loss_pct"  ->
                Of(Max({0, Of(180, smooth) + onIn(1200, 200) + z * sigma(60)}), active)
         [] metric = "tunnel_jitter_ms" -> Of(Of(800, smooth) + onIn(2500, 600) + z * sigma(200), active)
         [] metric = "tunnel_rekey_interval_s" ->
                -Of(Of(90000, smooth) + onIn(150000, 0) - z * Of(12000, pre), active)
         [] metric = "latency_ms"       -> Of(Of(1000, smooth) + onIn(4000, 0), active)
         [] OTHER -> 0

(* How long before the fault the push of scenario D begins to show.         *)
PushLead == 1500

(* inject_policy_drift, on its target and where it fans out to.             *)
InjectPolicyDrift(spec, t, metric, z) ==
    LET step   == Smoothstep(Ramp(t, spec.fault - PushLead, spec.fault + 1500))
        active == After(spec, t, 3000)
    IN CASE metric = "config_drift_score" ->
                Of(Min({100, Of(90, step)}), active) + (IF step > 0 THEN z ELSE 0)
         [] metric = "if_util_pct"    ->
                Of(Of(Of(1200, step), Ramp(t, spec.fault, spec.fault + 24000)), active)
         [] metric = "path_asymmetry" -> Of(Min({100, Of(35, step)}), active)
         [] OTHER -> 0

(* apply_injection.                                                         *)
ApplyInjection(spec, t, e, metric, z) ==
    IF e # spec.target /\ e \notin spec.fanout THEN 0
    ELSE CASE spec.scenario = "A" -> InjectCongestion(spec, t, metric, z)
           [] spec.scenario = "B" -> InjectBgpFlap(spec, t, metric, z)
           [] spec.scenario = "C" -> InjectTunnelDegradation(spec, t, metric, z)
           [] spec.scenario = "D" -> InjectPolicyDrift(spec, t, metric, z)
===============================================================================
