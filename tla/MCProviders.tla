----------------------------- MODULE MCProviders -----------------------------
(* Three reports of the pipeline, whose incidents come without a playbook:  *)
(* no incident; one that its copilot abstained on; and two of which only    *)
(* the first was answered, by a model that names another issue and a change *)
(* without an approval.                                                     *)
EXTENDS Providers, TLC

Predicted(root, issue, severity, score, eta) ==
    [id |-> Null, issue |-> issue, severity |-> severity, score |-> score, confidence |-> score,
     eta |-> eta, root |-> root, playbook |-> <<>>,
     devices |-> {Device(n) : n \in BlastRadius(PipelineTwin, root, {}).nodes},
     sites |-> {Site(n) : n \in BlastRadius(PipelineTwin, root, {}).nodes}]

HubIncident    == Predicted(DeviceEntityId("pe_hub"), Congestion, "P1", 70, 15)
TunnelIncident == Predicted(DeviceEntityId("ce_br3"), Tunnel, "P3", 20, Null)

Abstention == [issue |-> Tunnel, confidence |-> 10, eta |-> Null, actions |-> <<ReadOnly>>,
               sufficient |-> FALSE]
OfModel    == [issue |-> BgpFlap, confidence |-> 70, eta |-> 15,
               actions |-> <<ReadOnly, [Change EXCEPT !.approval = FALSE]>>, sufficient |-> TRUE]

SomeReports ==
    {[incidents |-> <<>>, answers |-> <<>>, history |-> {}],
     [incidents |-> <<TunnelIncident>>, answers |-> <<Abstention>>,
      history |-> {SubEntityId("ce_br3", "tunnel_hub"), SubEntityId("pe_hub", "eth1")}],
     [incidents |-> <<HubIncident, TunnelIncident>>, answers |-> <<OfModel>>,
      history |-> {DeviceEntityId("pe_hub"), SubEntityId("pe_hub", "eth1")}]}
==============================================================================
