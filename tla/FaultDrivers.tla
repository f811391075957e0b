----------------------------- MODULE FaultDrivers -----------------------------
(***************************************************************************)
(* sim/faults: the drivers that impair a running lab, each with its label, *)
(* and run_all.py.  A driver is a sequence of docker commands with sleeps  *)
(* between them; a command may take its time, or fail without notice       *)
(* (check=False), and the operator may interrupt the driver anywhere.      *)
(*                                                                         *)
(* Times are in seconds from the start of the call.  What a command does   *)
(* to its container is external: it impairs the target of the driver's     *)
(* scenario, or takes that back.                                           *)
(***************************************************************************)
EXTENDS Integers, Sequences

CONSTANTS
    Cycles,   \* b_bgp_flap.py --cycles
    Bursts,   \* c_tunnel.py --bursts
    Delays,   \* bound: how long a command may take
    MaxCalls, \* bound: calls of a driver or of run_all
    NoLabel   \* no label yet

ASSUME DriverAssumption == Cycles \in Nat /\ Bursts \in Nat /\ Delays \subseteq Nat /\ MaxCalls \in Nat

VARIABLES
    calls,     \* ghost: calls so far
    live,      \* args.run
    todo,      \* the drivers this call has to run, with their tools
    program,   \* what the driver at work has left to do; <<>>: it is over
    now,       \* when its next command is due
    effect,    \* ghost: when its last command took effect
    lag,       \* ghost: what its commands have taken
    labels,    \* the label of each scenario in this call
    lab,       \* external: the scenarios whose target is impaired
    leftover,  \* ghost: those already impaired when the call began
    dirty      \* ghost: those whose driver was stopped, or failed to clear

driverVars == <<calls, live, todo, program, now, effect, lag, labels, lab, leftover, dirty>>
-------------------------------------------------------------------------------
Scenario == {"A", "B", "C", "D"}

Tools == [A |-> {"tc"}, B |-> {"clab", "exabgp"}, C |-> {"pumba"}, D |-> {"vtysh", "napalm"}]

Cmd(does, wait) == [does |-> does, wait |-> wait]

(* n times the steps of a driver's loop.                                    *)
Loop(n, steps) == [i \in 1..(n * Len(steps)) |-> steps[((i - 1) % Len(steps)) + 1]]

(* Mutant: without the restore after the loop.                              *)
BgpFlapUnrestored(tool) ==
    IF tool = "exabgp" THEN <<>> ELSE Loop(Cycles, <<Cmd("clear", 60), Cmd("impair", 20)>>)

(* The four main()s, after the label.  A burst of Pumba's is one command    *)
(* that ends by itself.                                                     *)
Congestion == Append(Loop(5, <<Cmd("impair", 90)>>), Cmd("clear", 0))
BgpFlap(tool) ==
    IF tool = "exabgp" THEN <<>>
    ELSE Append(Loop(Cycles, <<Cmd("clear", 60), Cmd("impair", 20)>>), Cmd("clear", 0))
Tunnel == Loop(Bursts, <<Cmd("impair", 12), Cmd("end of burst", 28)>>)
Drift(tool) == <<Cmd("show", 0), Cmd(IF tool = "vtysh" THEN "impair" ELSE "write file", 300), Cmd("clear", 0)>>

Program(s, tool) == CASE s = "A" -> Congestion [] s = "B" -> BgpFlap(tool)
                      [] s = "C" -> Tunnel     [] s = "D" -> Drift(tool)

Precursor == [A |-> 120, B |-> 90, C |-> 120, D |-> 20]
Hold == [A |-> 5 * 90, B |-> Cycles * (60 + 20), C |-> Bursts * 40, D |-> 300]

(* Mutant: the clock of the tunnel driver counts its bursts only.           *)
ClockOfBursts(s, t0) ==
    [precursor |-> t0, fault |-> t0 + Precursor[s],
     end |-> t0 + Precursor[s] + (IF s = "C" THEN Bursts * 12 ELSE Hold[s])]

(* ScenarioClock, as build_label reads it: fault_s is the precursor's       *)
(* length in every driver.                                                  *)
Clock(s, t0) == [precursor |-> t0, fault |-> t0 + Precursor[s], end |-> t0 + Precursor[s] + Hold[s]]

ASSUME NoLabelAssumption == NoLabel \notin Scenario \cup [precursor : Nat, fault : Nat, end : Nat]

(* run_all.py, or one driver with a tool.                                   *)
RunAll == <<<<"A", "tc">>, <<"B", "clab">>, <<"C", "pumba">>, <<"D", "vtysh">>>>
Single == {<<<<s, tool>>>> : s \in Scenario, tool \in UNION {Tools[x] : x \in Scenario}}
Queues == {RunAll} \cup {q \in Single : q[1][2] \in Tools[q[1][1]]}
-------------------------------------------------------------------------------
AtWork == IF todo = <<>> THEN NoLabel ELSE todo[1][1]

(* The label of the driver at work is written; its commands follow.         *)
Opened == todo # <<>> /\ labels[AtWork] # NoLabel

DriverInit == /\ calls = 0 /\ live = FALSE /\ todo = <<>> /\ program = <<>>
              /\ now = 0 /\ effect = 0 /\ lag = 0
              /\ labels = [s \in Scenario |-> NoLabel]
              /\ lab = {} /\ leftover = {} /\ dirty = {}

Call(queue, run) ==
    /\ calls < MaxCalls /\ todo = <<>>
    /\ calls' = calls + 1 /\ todo' = queue /\ live' = run
    /\ now' = 0 /\ effect' = 0
    /\ labels' = [s \in Scenario |-> NoLabel]
    /\ leftover' = lab
    /\ UNCHANGED <<program, lag, lab, dirty>>

(* open_label, before anything is injected.                                 *)
OpenLabel ==
    /\ todo # <<>> /\ ~Opened
    /\ labels' = [labels EXCEPT ![AtWork] = Clock(AtWork, now)]
    /\ program' = Program(AtWork, todo[1][2])
    /\ lag' = 0
    /\ UNCHANGED <<calls, live, todo, now, effect, lab, leftover, dirty>>

(* What a command that works does to the lab.                               *)
LabAfter(does) == CASE does = "impair" -> lab \cup {AtWork}
                    [] does \in {"clear", "end of burst"} -> lab \ {AtWork}
                    [] OTHER -> lab

(* _exec, _vtysh or _pumba_netem, and the sleep after it; in a dry run,     *)
(* neither.  A failing docker command goes unnoticed, and leaves things as  *)
(* they were; the end of a burst is no command.                             *)
Command(delay, works) ==
    LET c == Head(program)
        external == live /\ c.does \notin {"end of burst", "write file"}
    IN /\ Opened /\ program # <<>>
       /\ external \/ (works /\ delay = 0)
       /\ program' = Tail(program)
       /\ lab' = IF live /\ works THEN LabAfter(c.does) ELSE lab
       /\ effect' = now + delay
       /\ now' = now + delay + (IF live THEN c.wait ELSE 0)
       /\ lag' = lag + delay
       /\ dirty' = IF ~live \/ Len(program) > 1 THEN dirty
                   ELSE IF works THEN dirty \ {AtWork} ELSE dirty \cup {AtWork}
       /\ UNCHANGED <<calls, live, todo, labels, leftover>>

(* main() returns, and run_all.py goes on.                                  *)
Return == /\ Opened /\ program = <<>>
          /\ todo' = Tail(todo)
          /\ UNCHANGED <<calls, live, program, now, effect, lag, labels, lab, leftover, dirty>>

(* KeyboardInterrupt: nothing is caught, so nothing is cleared; a burst     *)
(* ends all the same.                                                       *)
Interrupt == /\ Opened /\ program # <<>> /\ live
             /\ todo' = <<>> /\ program' = <<>>
             /\ lab' = lab \ {"C"}
             /\ dirty' = dirty \cup ({AtWork} \ {"C"})
             /\ UNCHANGED <<calls, live, now, effect, lag, labels, leftover>>

DriverNext == \/ \E queue \in Queues, run \in BOOLEAN : Call(queue, run)
              \/ OpenLabel
              \/ \E delay \in Delays, works \in BOOLEAN : Command(delay, works)
              \/ Return
              \/ Interrupt

DriverSpec == DriverInit /\ [][DriverNext]_driverVars
-------------------------------------------------------------------------------
(* "This guarantees the labeled window bounds the impairment"               *)
(* (_labels.py): as long as its driver is at work, and its commands do not  *)
(* take longer than the precursor, a target is impaired only between the    *)
(* labelled precursor and the labelled end.  (Not after an interruption, in *)
(* spite of what that comment goes on to say.)                              *)
WindowBoundsImpairment ==
    AtWork \in lab \ leftover /\ lag <= Precursor[AtWork] =>
        /\ Opened
        /\ labels[AtWork].precursor <= effect
        /\ now <= labels[AtWork].end

(* Between two calls, nothing is impaired but what a driver left when it    *)
(* was interrupted or when its last command failed; a later run of that     *)
(* driver takes it back.                                                    *)
LabIsRestored == todo = <<>> => lab \subseteq dirty
===============================================================================
