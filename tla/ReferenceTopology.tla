-------------------------- MODULE ReferenceTopology --------------------------
(***************************************************************************)
(* The reference network of netra/datagen/topology.py, from which the      *)
(* telemetry generator, the demo provider and the pipeline's digital twin  *)
(* take their entities.  An entity id "site:device:role[:sub]" is the      *)
(* tuple of its parts.                                                     *)
(***************************************************************************)
EXTENDS Sequences, FiniteSets

CORP == "CORP"
OT   == "OT"
VRFS == {CORP, OT}

Core == [site |-> "core", siteType |-> "core", role |-> "P",
         interfaces |-> {"eth1", "eth2", "eth3"}, tunnels |-> {}, peers |-> {}, vrfs |-> {}]

DatacenterPe(peers, ifaces) ==
    [site |-> "dc", siteType |-> "datacenter", role |-> "PE", interfaces |-> ifaces,
     tunnels |-> {}, peers |-> peers, vrfs |-> VRFS]

Ce(site, siteType, tunnels, vrfs) ==
    [site |-> site, siteType |-> siteType, role |-> "CE",
     interfaces |-> {"eth1", "eth2"}, tunnels |-> tunnels, peers |-> {}, vrfs |-> vrfs]

Control(role, peers) ==
    [site |-> "dc", siteType |-> "datacenter", role |-> role,
     interfaces |-> {"eth1"}, tunnels |-> {}, peers |-> peers, vrfs |-> {}]

(* _DEVICES: a device's attributes by its name.  A tunnel is known by the   *)
(* site at its far end.                                                     *)
Devices ==
    [p1 |-> Core, p2 |-> Core, p3 |-> Core, p4 |-> Core,
     pe_dc1 |-> DatacenterPe({"rr_dc", "pe_dc2", "pe_hub"}, {"eth1", "eth2", "eth3"}),
     pe_dc2 |-> DatacenterPe({"rr_dc", "pe_dc1"}, {"eth1", "eth2"}),
     ce_dc  |-> Ce("dc", "datacenter", {}, {CORP}),
     rr_dc  |-> Control("RR", {"pe_dc1", "pe_dc2", "pe_hub"}),
     pe_hub |-> [DatacenterPe({"rr_dc", "pe_dc1"}, {"eth1", "eth2", "eth3"})
                    EXCEPT !.site = "hub", !.siteType = "hub"],
     ce_hub |-> Ce("hub", "hub", {"br1", "br2", "br3", "dc"}, {CORP}),
     ce_br1 |-> Ce("br1", "branch", {"hub", "dc"}, {CORP}),
     ce_br2 |-> Ce("br2", "branch", {"hub", "dc"}, {CORP}),
     ce_br3 |-> Ce("br3", "branch", {"hub", "dc"}, VRFS),
     sdwan_ctl |-> Control("controller", {})]

DeviceNames == DOMAIN Devices

(* _LINKS: the two devices of an underlay link, in the order of the source. *)
Links == {<<"p1", "p2">>, <<"p2", "p3">>, <<"p3", "p4">>, <<"p4", "p1">>, <<"p1", "p3">>,
          <<"pe_dc1", "p1">>, <<"pe_dc2", "p2">>, <<"pe_hub", "p3">>,
          <<"ce_dc", "pe_dc1">>, <<"ce_hub", "pe_hub">>, <<"rr_dc", "pe_dc1">>}

DevicesByRole(role) == {d \in DeviceNames : Devices[d].role = role}

DevicesAt(site) == {d \in DeviceNames : Devices[d].site = site}

DeviceEntityId(d) == <<Devices[d].site, d, Devices[d].role>>

SubEntityId(d, sub) == Append(DeviceEntityId(d), sub)

Site(e) == e[1]
Device(e) == e[2]
==============================================================================
