--------------------------- MODULE OperatorConsole ---------------------------
(***************************************************************************)
(* The operator console of ui/app.js: one browser page whose handlers      *)
(* share the selected incident, the 3-answer card, the graph highlight and *)
(* the risk chart.  A handler runs to its next await without interruption; *)
(* while it awaits a reply the operator may click, ask the chat or receive *)
(* live frames, and replies come back in any order.                        *)
(*                                                                         *)
(* An incident is its id and its predicted issue.  An answer is identified *)
(* by the incident it is about.                                            *)
(***************************************************************************)
EXTENDS Integers, Sequences, FiniteSets

CONSTANTS
    Queues,    \* what GET /api/incidents may list, P1 first
    Slots,     \* bound: activities the operator has under way at once
    Boot,      \* the activity of boot() itself
    Null       \* null

Incidents == UNION {{queue[i] : i \in DOMAIN queue} : queue \in Queues}
Calls == Slots \cup {Boot}

ASSUME QueueAssumption ==
    /\ Null \notin Incidents
    /\ \A queue \in Queues :
          /\ queue \in Seq(Incidents) \ {<<>>}
          /\ \A i, j \in DOMAIN queue : queue[i].id = queue[j].id => i = j
ASSUME CallAssumption ==
    /\ Boot \notin Slots
    /\ Null \notin [stage : {"query", "timeline", "chat"}, inc : Incidents \cup {Null}]

VARIABLES
    phase,      \* boot(): "loading", "selecting" or "streaming"
    incidents,  \* state.incidents
    selected,   \* state.selectedId
    card,       \* the rendered card: whose incident, whose answer, whose ETA
    graph,      \* the incident the topology is dimmed around
    timeline,   \* the incident whose root cause the chart shows
    calls,      \* what each activity awaits: [stage, inc], or Null
    missed      \* history: a timeline reply failed, "keep prior chart"

consoleVars == <<phase, incidents, selected, card, graph, timeline, calls, missed>>
-------------------------------------------------------------------------------
Quiet == \A s \in Calls : calls[s] = Null

ConsoleInit ==
    /\ phase = "loading"
    /\ incidents = <<>>
    /\ selected = Null
    /\ card = Null
    /\ graph = Null
    /\ timeline = Null
    /\ calls = [s \in Calls |-> Null]
    /\ missed = FALSE

Waits(s, stage, inc) == calls' = [calls EXCEPT ![s] = [stage |-> stage, inc |-> inc]]

Ends(s) == calls' = [calls EXCEPT ![s] = Null]

(* The operator starts something.                                           *)
Acts(s) == calls[s] = Null

(* selectIncident up to its first await.                                    *)
SelectIncident(s, inc) ==
    /\ selected' = inc
    /\ Waits(s, "query", inc)

(* renderAnswers and highlightTopologyForIncident.                          *)
Render(inc, answer) ==
    /\ card' = [inc |-> inc, answer |-> answer, eta |-> answer]
    /\ graph' = inc
-------------------------------------------------------------------------------
(* boot(): topology and incidents have arrived, or counted as empty.        *)
BootLoads ==
    /\ phase = "loading"
    /\ \/ \E queue \in Queues :
             /\ incidents' = queue
             /\ phase' = "selecting"
             /\ SelectIncident(Boot, Head(queue))
       \/ /\ phase' = "streaming"
          /\ UNCHANGED <<incidents, selected, calls>>
    /\ UNCHANGED <<card, graph, timeline, missed>>

(* A queue entry or a node of the graph is clicked.                         *)
Click(s, i) ==
    /\ Acts(s)
    /\ SelectIncident(s, incidents[i])
    /\ UNCHANGED <<phase, incidents, card, graph, timeline, missed>>

(* Mutant: the reply is rendered onto whatever is selected by now.          *)
QuerySettlesOnSelected(s) ==
    /\ calls[s] # Null
    /\ calls[s].stage = "query"
    /\ Render(selected, calls[s].inc)
    /\ Waits(s, "timeline", calls[s].inc)
    /\ UNCHANGED <<phase, incidents, selected, timeline, missed>>

(* postJSON("/api/copilot/query") returns the answer about the incident, or *)
(* throws and synthCopilotFromIncident makes one up from it.                *)
QuerySettles(s) ==
    /\ calls[s] # Null
    /\ calls[s].stage = "query"
    /\ Render(calls[s].inc, calls[s].inc)
    /\ Waits(s, "timeline", calls[s].inc)
    /\ UNCHANGED <<phase, incidents, selected, timeline, missed>>

(* The await of boot() is over: initStream().                               *)
Continue(s) == phase' = IF s = Boot THEN "streaming" ELSE phase

TimelineReturns(s) ==
    /\ calls[s] # Null
    /\ calls[s].stage = "timeline"
    /\ timeline' = calls[s].inc
    /\ Ends(s)
    /\ Continue(s)
    /\ UNCHANGED <<incidents, selected, card, graph, missed>>

(* Mutant: a failed timeline escapes from selectIncident, and from boot().  *)
TimelineFailsBoot(s) ==
    /\ calls[s] # Null
    /\ calls[s].stage = "timeline"
    /\ missed' = TRUE
    /\ Ends(s)
    /\ UNCHANGED <<phase, incidents, selected, card, graph, timeline>>

TimelineFails(s) ==
    /\ calls[s] # Null
    /\ calls[s].stage = "timeline"
    /\ missed' = TRUE
    /\ Ends(s)
    /\ Continue(s)
    /\ UNCHANGED <<incidents, selected, card, graph, timeline>>

(* askCopilot: the question goes out with the incident selected now.        *)
AskCopilot(s) ==
    /\ Acts(s)
    /\ Waits(s, "chat", selected)
    /\ UNCHANGED <<phase, incidents, selected, card, graph, timeline, missed>>

(* Mutant: every answer is taken for one about the headline.                *)
MatchHeadline(answer) == {inc \in Incidents : incidents # <<>> /\ inc = Head(incidents)}

(* The first incident with the answer's predicted_issue.                    *)
Match(answer) ==
    {inc \in Incidents :
        \E i \in DOMAIN incidents :
            /\ incidents[i] = inc
            /\ inc.issue = answer.issue
            /\ \A j \in 1..(i - 1) : incidents[j].issue # answer.issue}

(* The server answers about the incident referred to, else routes by the    *)
(* question's words; a match that is not selected is "soft-synced".         *)
ChatReturns(s, answer) ==
    /\ calls[s] # Null
    /\ calls[s].stage = "chat"
    /\ calls[s].inc # Null => answer = calls[s].inc
    /\ Ends(s)
    /\ IF Match(answer) \ {selected} = {}
       THEN UNCHANGED <<selected, card, graph>>
       ELSE \E inc \in Match(answer) : selected' = inc /\ Render(inc, answer)
    /\ UNCHANGED <<phase, incidents, timeline, missed>>

ChatFails(s) ==
    /\ calls[s] # Null
    /\ calls[s].stage = "chat"
    /\ Ends(s)
    /\ UNCHANGED <<phase, incidents, selected, card, graph, timeline, missed>>

(* A live frame: with the headline selected its ETA goes onto the card.     *)
Tick ==
    /\ phase = "streaming"
    /\ incidents # <<>>
    /\ selected = Head(incidents)
    /\ card # Null
    /\ card' = [card EXCEPT !.eta = selected]
    /\ UNCHANGED <<phase, incidents, selected, graph, timeline, calls, missed>>

Settle(s) == \/ QuerySettles(s)
             \/ TimelineReturns(s)
             \/ TimelineFails(s)
             \/ \E answer \in Incidents : ChatReturns(s, answer)
             \/ ChatFails(s)

ConsoleNext ==
    \/ BootLoads
    \/ \E s \in Slots : AskCopilot(s) \/ \E i \in DOMAIN incidents : Click(s, i)
    \/ \E s \in Calls : Settle(s)
    \/ Tick

(* Requests to the page's own server settle one way or the other.           *)
ConsoleFairness == WF_consoleVars(BootLoads) /\ \A s \in Calls : WF_consoleVars(Settle(s))

ConsoleSpec == ConsoleInit /\ [][ConsoleNext]_consoleVars /\ ConsoleFairness
-------------------------------------------------------------------------------
(* However replies overtake each other, the card never mixes two faults:    *)
(* incident and answer have one predicted issue and the graph is dimmed     *)
(* around the card's incident.                                              *)
CardIsCoherent ==
    card # Null => /\ card.answer.issue = card.inc.issue
                   /\ graph = card.inc

OnePerIssue ==
    \A i, j \in DOMAIN incidents : incidents[i].issue = incidents[j].issue => i = j

(* ui/README.md: "selecting one syncs the card, the graph focus and the     *)
(* timeline".  Once every reply is in, all of them are about the selection, *)
(* the ETA that live frames write included.                                 *)
SelectionIsSynced ==
    Quiet /\ selected # Null =>
        /\ card # Null
        /\ card.inc = selected
        /\ card.eta = card.answer
        /\ graph = selected
        /\ timeline = selected \/ missed

(* app.js: "If the answer is about a specific incident, sync the            *)
(* card/graph": with no two incidents of one fault, an answer about the     *)
(* selected incident leaves the selection alone, whatever overlapped it.    *)
ChatKeepsItsIncident ==
    [][\A s \in Slots :
          /\ OnePerIssue
          /\ selected # Null
          /\ calls[s] = [stage |-> "chat", inc |-> selected]
          /\ calls'[s] = Null
          => selected' = selected]_consoleVars

(* boot() opens the live stream only after its own selection has rendered;  *)
(* it gets there whatever fails and whatever the operator does meanwhile.   *)
StreamStarts == <>[](phase = "streaming")
===============================================================================
