------------------------------ MODULE Providers ------------------------------
(***************************************************************************)
(* The situation providers of netra/api/providers.py, which every route of *)
(* the operator API reads: DemoProvider with its three built-in incidents, *)
(* and LiveProvider, a stub until a report of the pipeline is attached.    *)
(*                                                                         *)
(* A restart of the server builds a new provider from the environment; a   *)
(* console keeps the incident ids it loaded before.  Scores are in         *)
(* hundredths, ETAs in seconds.                                            *)
(***************************************************************************)
EXTENDS Integers, TopologyGraph, SequencesExt

CONSTANTS
    Reports,      \* the SituationReports the pipeline may come up with
    MaxRestarts,  \* bound: providers built
    MaxTicks,     \* bound: risk ticks of one provider
    Null          \* Python's None

ASSUME RestartAssumption == MaxRestarts \in Nat /\ MaxTicks \in Nat

VARIABLES
    provider,  \* [kind, queue, answers, history, epoch]; kind "off" before the first
    tick,      \* its _tick
    frame,     \* the last frame of risk_tick, or Null
    loaded,    \* console: [id, epoch, kind] of every incident it ever loaded
    answer     \* the last answer of copilot() or situation(), or Null

providerVars == <<provider, tick, frame, loaded, answer>>
-------------------------------------------------------------------------------
Congestion == "interface_congestion"
Tunnel     == "tunnel_degradation"
BgpFlap    == "bgp_route_flap"

ReadOnly == [safety |-> "read_only", approval |-> FALSE]
Change   == [safety |-> "config_change", approval |-> TRUE]
Impact   == [safety |-> "service_impacting", approval |-> TRUE]

HubUplink == SubEntityId("pe_hub", "eth1")

(* Mutant: an id of its own for every construction.                         *)
DemoIdPerEpoch(n, epoch) == <<"INC-2026", n, epoch>>

(* The demo's incident ids are literals.                                    *)
DemoId(n, epoch) == <<"INC-2026", n>>

IncidentCongestion(epoch) ==
    [id |-> DemoId(1, epoch), issue |-> Congestion, severity |-> "P1", score |-> 88,
     confidence |-> 84, eta |-> 420, root |-> HubUplink,
     devices |-> {"pe_hub", "ce_hub", "ce_br1", "ce_br2", "ce_br3"},
     sites |-> {"hub", "br1", "br2", "br3"},
     playbook |-> <<ReadOnly, ReadOnly, Change, Impact>>]

IncidentTunnel(epoch) ==
    [id |-> DemoId(2, epoch), issue |-> Tunnel, severity |-> "P2", score |-> 66,
     confidence |-> 63, eta |-> 540, root |-> SubEntityId("ce_br3", "tunnel_hub"),
     devices |-> {"ce_br3", "p3", "p4"}, sites |-> {"br3", "core"},
     playbook |-> <<ReadOnly, Change>>]

IncidentBgpFlap(epoch) ==
    [id |-> DemoId(3, epoch), issue |-> BgpFlap, severity |-> "P3", score |-> 41,
     confidence |-> 44, eta |-> Null, root |-> SubEntityId("rr_dc", "peer_pe_hub"),
     devices |-> {"rr_dc", "pe_hub", "pe_dc1"}, sites |-> {"dc", "hub"},
     playbook |-> <<ReadOnly, Change>>]

SevRank(s) == CASE s = "P1" -> 0 [] s = "P2" -> 1 [] s = "P3" -> 2 [] OTHER -> 3

Precedes(x, y) == \/ SevRank(x.severity) < SevRank(y.severity)
                  \/ SevRank(x.severity) = SevRank(y.severity) /\ x.score > y.score

(* _build_incidents: sorted by severity, then by falling risk.              *)
BuildIncidents(epoch) ==
    LET built == {IncidentCongestion(epoch), IncidentTunnel(epoch), IncidentBgpFlap(epoch)}
    IN CHOOSE q \in [1..3 -> built] : \A m, n \in 1..3 : m < n => Precedes(q[m], q[n])

DemoProvider(epoch) ==
    [kind |-> "demo", queue |-> BuildIncidents(epoch), answers |-> << >>, history |-> {},
     epoch |-> epoch]

StubProvider(epoch) ==
    [kind |-> "stub", queue |-> <<>>, answers |-> << >>, history |-> {}, epoch |-> epoch]

(* from_scenario: the ids of the pipeline's incidents are fresh UUIDs.      *)
LiveProvider(report, epoch) ==
    LET id(n) == <<"INC", n, epoch>>
    IN [kind    |-> "live",
        queue   |-> [n \in DOMAIN report.incidents |-> [report.incidents[n] EXCEPT !.id = id(n)]],
        answers |-> [i \in {id(n) : n \in DOMAIN report.answers} |-> report.answers[i[2]]],
        history |-> report.history,
        epoch   |-> epoch]

(* What prioritize_incidents and the copilot put into a report, about       *)
(* devices of the twin: the queue is ordered by severity, and a step of a   *)
(* playbook that is more than a read has an approval.  Of the answers to    *)
(* its first incidents nothing is assumed: a model may name an issue of its *)
(* own, or propose a change without an approval.                            *)
TwinDevices == {Device(n) : n \in PipelineTwin.nodes}

ReportedIncidents ==
    [id : {Null}, issue : STRING, severity : {"P1", "P2", "P3", "INFO"}, score : 0..100,
     confidence : 0..100, eta : Nat \cup {Null}, root : {e \in Seq(STRING) : Device(e) \in TwinDevices},
     devices : SUBSET TwinDevices, sites : SUBSET STRING, playbook : Seq({ReadOnly, Change, Impact})]

ASSUME ReportAssumption ==
    \A r \in Reports :
        /\ r.incidents \in Seq(ReportedIncidents)
        /\ \A m, n \in DOMAIN r.incidents :
              m < n => SevRank(r.incidents[m].severity) <= SevRank(r.incidents[n].severity)
ASSUME NullAssumption ==
    \A e \in 1..MaxRestarts :
        /\ \A i \in Range(BuildIncidents(e)) : i.id # Null
        /\ \A r \in Reports : \A i \in Range(LiveProvider(r, e).queue) : i.id # Null

Wired == provider.kind \in {"demo", "live"}
Q     == provider.queue
-------------------------------------------------------------------------------
(* _answer_for_incident, and _synth_copilot of the live provider: an answer *)
(* with the incident's own numbers and its playbook's steps, or one         *)
(* diagnostic step without a playbook.                                      *)
Synthesised(i) ==
    [issue |-> i.issue, confidence |-> i.confidence, eta |-> i.eta,
     actions |-> IF i.playbook = <<>> THEN <<ReadOnly>> ELSE i.playbook, sufficient |-> TRUE]

(* Mutant: always synthesised afresh.                                       *)
AnswerForAfresh(i, asked) == Synthesised(i)

(* _copilot_for: without a question, the whole answer the pipeline's own    *)
(* copilot gave, which may be that it abstains.                             *)
AnswerFor(i, asked) ==
    IF ~asked /\ i.id \in DOMAIN provider.answers THEN provider.answers[i.id]
    ELSE Synthesised(i)

(* _maybe_route_by_keyword: only the demo looks at the words.               *)
ByKeyword(request) ==
    {n \in DOMAIN Q : /\ provider.kind = "demo"
                      /\ request.words # Null
                      /\ Q[n].issue \in request.words}

ByRef(request)    == {n \in DOMAIN Q : Q[n].id = request.ref}
ByEntity(request) == {n \in DOMAIN Q : Q[n].root \in request.entities}

(* The first incident of the first way that finds any.                      *)
FirstFound(ways) == Q[Min(ways[Min({k \in DOMAIN ways : ways[k] # {}})])]

(* Mutant: the words of the question win over the incident it names.        *)
ResolveByWords(request) ==
    FirstFound(<<ByKeyword(request), ByRef(request), ByEntity(request), DOMAIN Q>>)

(* The incident a request is about: the one it names, else the first rooted *)
(* in an entity it names, else by its words, else the headline.             *)
Resolve(request) ==
    FirstFound(<<ByRef(request), ByEntity(request), ByKeyword(request), DOMAIN Q>>)

(* copilot(): a wired provider without incidents has no answer.             *)
Copilot(request) ==
    /\ Wired
    /\ Q # <<>>
    /\ answer' = [request |-> request, about |-> Resolve(request).id,
                  given   |-> AnswerFor(Resolve(request), request.words # Null)]
    /\ UNCHANGED <<provider, tick, frame, loaded>>

NoRequest == [ref |-> Null, entities |-> {}, words |-> Null]

(* situation(): the card of the headline incident.                          *)
Situation ==
    /\ Wired
    /\ Q # <<>>
    /\ answer' = [request |-> NoRequest, about |-> Head(Q).id,
                  given   |-> AnswerFor(Head(Q), FALSE)]
    /\ UNCHANGED <<provider, tick, frame, loaded>>

(* Situation of a live provider whose report has no incident: an empty card.*)
EmptySituation ==
    /\ provider.kind = "live"
    /\ Q = <<>>
    /\ answer' = Null
    /\ UNCHANGED <<provider, tick, frame, loaded>>

(* incidents(), as a console loads it.                                      *)
LoadIncidents ==
    /\ Wired
    /\ loaded' = loaded \cup {[id |-> i.id, epoch |-> provider.epoch, kind |-> provider.kind] :
                                 i \in Range(Q)}
    /\ UNCHANGED <<provider, tick, frame, answer>>

(* risk_timeline(): the entity shown when none is named.  The live provider *)
(* shows another entity of the same device when that one has no history.    *)
TimelineEntity ==
    IF provider.kind = "demo" THEN {HubUplink}
    ELSE LET target == Head(Q).root
             near   == {e \in provider.history : Site(e) = Site(target) /\ Device(e) = Device(target)}
         IN IF target \in provider.history \/ near = {} THEN {target} ELSE near

(* risk_tick(): the demo names its headline entity by a constant.           *)
RiskTick ==
    /\ Wired
    /\ tick < MaxTicks
    /\ tick' = tick + 1
    /\ frame' = IF Q = <<>> THEN Null
                ELSE [entity |-> IF provider.kind = "demo" THEN HubUplink ELSE Head(Q).root,
                      issue  |-> Head(Q).issue,
                      eta    |-> IF Head(Q).eta = Null THEN Null ELSE Max({0, Head(Q).eta - 10 * tick'}),
                      entities |-> {i.root : i \in Range(SubSeq(Q, 1, Min({Len(Q), 6})))}]
    /\ UNCHANGED <<provider, loaded, answer>>
-------------------------------------------------------------------------------
(* topology(): what every device is drawn with, in thousandths.             *)
Nodes == IF provider.kind = "demo" THEN DeviceNames ELSE {Device(n) : n \in PipelineTwin.nodes}

OverlayPairs == {<<"ce_hub", "ce_br1">>, <<"ce_hub", "ce_br2">>, <<"ce_hub", "ce_br3">>,
                 <<"ce_hub", "ce_dc">>}

DrawnEdges == IF provider.kind = "demo" THEN Links \cup OverlayPairs
              ELSE {<<Device(e[1]), Device(e[2])>> : e \in PipelineTwin.edges}

RootDevices  == {Device(i.root) : i \in Range(Q)}
BlastDevices == UNION {i.devices : i \in Range(Q)}

(* Mutant: a later, lesser incident overwrites the risk of a device.        *)
AffectedRiskLast(d) ==
    LET last == Max({n \in DOMAIN Q : d = Device(Q[n].root) \/ d \in Q[n].devices})
    IN IF d = Device(Q[last].root) THEN 10 * Q[last].score ELSE 5 * Q[last].score

(* The most of the incidents rooted in the device, and half of those it is  *)
(* only downstream of.                                                      *)
AffectedRisk(d) ==
    Max({10 * i.score : i \in {x \in Range(Q) : d = Device(x.root)}}
          \cup {5 * i.score : i \in {x \in Range(Q) : d \in x.devices}})

(* Any other device gets a random baseline; an edge that touches no         *)
(* affected device gets none.                                               *)
MaxBaseline == 120
Affected(d) == d \in RootDevices \cup BlastDevices
EdgeRisk(e) == Max({0} \cup {AffectedRisk(d) : d \in {x \in Range(e) : Affected(x)}})
-------------------------------------------------------------------------------
ProviderInit ==
    /\ provider = [StubProvider(0) EXCEPT !.kind = "off"]
    /\ tick = 0
    /\ frame = Null
    /\ loaded = {}
    /\ answer = Null

(* make_provider, called by a process that has just started.                *)
MakeProvider(p) ==
    /\ provider.epoch < MaxRestarts
    /\ provider' = p
    /\ tick' = 0
    /\ frame' = Null
    /\ answer' = Null
    /\ UNCHANGED loaded

(* What a console can ask about: incidents it loaded, entities it saw.      *)
Requests ==
    [ref : {x.id : x \in loaded} \cup {Null},
     entities : {{}} \cup {{i.root} : i \in Range(Q)},
     words : {Null, {}} \cup {{i.issue} : i \in Range(Q)}]

ProviderNext ==
    \/ \E e \in {provider.epoch + 1} :
          \/ MakeProvider(DemoProvider(e))
          \/ MakeProvider(StubProvider(e))
          \/ \E r \in Reports : MakeProvider(LiveProvider(r, e))
    \/ LoadIncidents
    \/ \E request \in Requests : Copilot(request)
    \/ Situation
    \/ EmptySituation
    \/ RiskTick

ProviderSpec == ProviderInit /\ [][ProviderNext]_providerVars
-------------------------------------------------------------------------------
(* An answer is about the incident the request names, whatever its words    *)
(* and entities, if the console loaded it from this process; from an        *)
(* earlier one only the demo's ids still hold.  (An id from an earlier live *)
(* process is unknown, and the headline is answered in its place.)          *)
AnsweredAsAsked ==
    answer # Null =>
        \A x \in loaded :
            /\ x.id = answer.request.ref
            /\ x.epoch = provider.epoch \/ {x.kind, provider.kind} = {"demo"}
            => answer.about = x.id

(* The topology view shows every incident where it is: its devices and both *)
(* ends of every edge are nodes, a root cause is drawn no cooler than any   *)
(* incident it caused, a device in a blast radius hotter than one in none,  *)
(* and no edge hotter than its ends.                                        *)
TopologyShowsIncidents ==
    /\ RootDevices \cup BlastDevices \cup UNION {Range(e) : e \in DrawnEdges} \subseteq Nodes
    /\ \A i \in Range(Q) : /\ AffectedRisk(Device(i.root)) >= 10 * i.score
                           /\ \A d \in i.devices : AffectedRisk(d) >= 5 * i.score
    /\ provider.kind = "demo" => \A d \in BlastDevices : AffectedRisk(d) > MaxBaseline
    /\ \A e \in DrawnEdges : EdgeRisk(e) > 0 =>
          \E d \in Range(e) : Affected(d) /\ AffectedRisk(d) = EdgeRisk(e)

(* The docstring of DemoProvider: the incidents are computed once "so the   *)
(* whole snapshot is internally consistent across endpoints".  The queue's  *)
(* head, the frame of the risk stream, the default timeline and the         *)
(* topology's root causes are about the same device, and the topology shows *)
(* the incidents of the queue.                                              *)
EndpointsAgree ==
    Wired =>
        /\ Q # <<>> =>
              /\ \A e \in TimelineEntity : Device(e) = Device(Head(Q).root)
              /\ frame # Null => /\ frame.entity = Head(Q).root
                                 /\ frame.issue = Head(Q).issue
                                 /\ frame.entity \in frame.entities
                                 /\ {Device(e) : e \in frame.entities} \subseteq RootDevices
              /\ \A i \in Range(Q) : SevRank(Head(Q).severity) <= SevRank(i.severity)
        /\ TopologyShowsIncidents

(* What the pipeline's copilot said of an incident, its abstention included,*)
(* is on every card and in every answer no question was asked for, whatever *)
(* was asked and answered before.  Any other answer agrees with the queue   *)
(* on issue, confidence and ETA.  A step that is more than a read goes      *)
(* without an approval only where the pipeline's copilot said so itself.    *)
AnswersAreCautious ==
    answer # Null =>
        LET ofPipeline == answer.request.words = Null /\ answer.about \in DOMAIN provider.answers
        IN /\ ofPipeline => answer.given = provider.answers[answer.about]
           /\ ~ofPipeline =>
                 /\ \E i \in Range(Q) :
                       /\ i.id = answer.about
                       /\ answer.given.issue = i.issue
                       /\ answer.given.confidence = i.confidence
                       /\ answer.given.eta = i.eta
                 /\ \A n \in DOMAIN answer.given.actions :
                       answer.given.actions[n].safety # "read_only" =>
                           answer.given.actions[n].approval
==============================================================================
