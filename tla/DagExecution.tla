---------------------------- MODULE DagExecution ----------------------------
(***************************************************************************)
(* How a domain orchestrator runs a plan (BaseOrchestrator.execute_dag in  *)
(* ai/meridian/core/orchestrator.py, BaseAgent._execute).                  *)
(*                                                                         *)
(* A plan is a list of nodes with the ids of the nodes they depend on.     *)
(* The orchestrator works in rounds: it collects the nodes whose           *)
(* dependencies have results and runs them one after the other, awaiting   *)
(* each.  A failed node has a result like any other.  A round that finds   *)
(* no node gives up.  The order of a round, which is the order of the      *)
(* list, is left open: nothing below depends on it.                        *)
(***************************************************************************)
EXTENDS Naturals, Sequences

CONSTANTS
    Nodes,     \* the node ids of the plan
    Foreign,   \* ids that a dependency may name and no node has
    Idle       \* no node is running

ASSUME ForeignAssumption == Foreign \cap Nodes = {}
ASSUME IdleAssumption    == Idle \notin Nodes

VARIABLES
    deps,        \* deps[n]: node.dependencies
    registered,  \* the nodes whose agent is registered with the orchestrator
    waiting,     \* nodes that have no result yet
    ready,       \* what is left of the current round
    running,     \* the node whose agent is awaited, or Idle
    returned,    \* the results, in completion order
    inputs,      \* inputs[n]: whose outputs the node got as dependency_results
    stage        \* "planned", "select" a round, run the "round", "done"

dagVars == <<deps, registered, waiting, ready, running, returned, inputs, stage>>

Completed == {returned[i].node : i \in DOMAIN returned}

DagInit ==
    /\ deps = [n \in Nodes |-> {}]
    /\ registered = {}
    /\ waiting = Nodes
    /\ ready = {}
    /\ running = Idle
    /\ returned = <<>>
    /\ inputs = [n \in Nodes |-> {}]
    /\ stage = "planned"

(* The orchestrator is given a plan. An agent may be missing.              *)
ExecuteDag ==
    /\ stage = "planned"
    /\ deps' \in [Nodes -> SUBSET (Nodes \union Foreign)]
    /\ registered' \in SUBSET Nodes
    /\ stage' = "select"
    /\ UNCHANGED <<waiting, ready, running, returned, inputs>>

(* Mutant: a failed dependency holds its dependants back.                  *)
SatisfiedBySuccess(n) ==
    \A d \in deps[n] : \E i \in DOMAIN returned :
        returned[i].node = d /\ returned[i].status = "completed"
(* Mutant: one dependency is enough.                                       *)
PartlySatisfied(n) == deps[n] = {} \/ deps[n] \cap Completed # {}
Satisfied(n) == deps[n] \subseteq Completed

Select ==
    /\ stage = "select"
    /\ \E n \in waiting : Satisfied(n)
    /\ ready' = {n \in waiting : Satisfied(n)}
    /\ stage' = "round"
    /\ UNCHANGED <<deps, registered, waiting, running, returned, inputs>>

(* Mutant: the deadlock check is forgotten.                                *)
FinishWhenEmpty ==
    /\ stage = "select"
    /\ waiting = {}
    /\ stage' = "done"
    /\ UNCHANGED <<deps, registered, waiting, ready, running, returned, inputs>>

(* The plan is finished, or no node of it is ready ("DAG deadlock").       *)
Finish ==
    /\ stage = "select"
    /\ \A n \in waiting : ~Satisfied(n)
    /\ stage' = "done"
    /\ UNCHANGED <<deps, registered, waiting, ready, running, returned, inputs>>

StartNode(n) ==
    /\ stage = "round"
    /\ running = Idle
    /\ n \in ready
    /\ n \in registered
    /\ running' = n
    /\ inputs' = [inputs EXCEPT ![n] = deps[n] \cap Completed]
    /\ UNCHANGED <<deps, registered, waiting, ready, returned, stage>>

Record(n, outcome) ==
    /\ returned' = Append(returned, [node |-> n, status |-> outcome])
    /\ waiting' = waiting \ {n}
    /\ ready'   = ready \ {n}

(* The agent returns a result or raises, which _execute makes a result.    *)
EndNode(outcome) ==
    /\ running # Idle
    /\ Record(running, outcome)
    /\ running' = Idle
    /\ UNCHANGED <<deps, registered, inputs, stage>>

(* A node without an agent fails on the spot.                              *)
FailNode(n) ==
    /\ stage = "round"
    /\ running = Idle
    /\ n \in ready
    /\ n \notin registered
    /\ inputs' = [inputs EXCEPT ![n] = deps[n] \cap Completed]
    /\ Record(n, "failed")
    /\ UNCHANGED <<deps, registered, running, stage>>

EndRound ==
    /\ stage = "round"
    /\ ready = {}
    /\ running = Idle
    /\ stage' = "select"
    /\ UNCHANGED <<deps, registered, waiting, ready, running, returned, inputs>>

Execute ==
    \/ Select
    \/ Finish
    \/ \E n \in Nodes : StartNode(n)
    \/ \E outcome \in {"completed", "failed"} : EndNode(outcome)
    \/ \E n \in Nodes : FailNode(n)
    \/ EndRound

DagNext == ExecuteDag \/ Execute

-----------------------------------------------------------------------------
Results == [node : Nodes, status : {"completed", "failed"}]

(* The types of the plan and of its execution.                             *)
DagTypeOK ==
    /\ deps \in [Nodes -> SUBSET (Nodes \union Foreign)]
    /\ registered \subseteq Nodes
    /\ waiting \subseteq Nodes
    /\ ready \subseteq waiting
    /\ running \in Nodes \union {Idle}
    /\ returned \in Seq(Results)
    /\ inputs \in [Nodes -> SUBSET Nodes]
    /\ stage \in {"planned", "select", "round", "done"}

(* A node runs with the output of every one of its dependencies, and after *)
(* all of them ("respecting dependencies"), failed ones included.          *)
DependenciesFirst ==
    \A i \in DOMAIN returned :
        LET n == returned[i].node IN
        /\ inputs[n] = deps[n]
        /\ \A d \in deps[n] : \E j \in 1..(i - 1) : returned[j].node = d

(* No node is lost and none has two results.                               *)
OneResultEach ==
    /\ Completed = Nodes \ waiting
    /\ \A i, j \in DOMAIN returned : returned[i].node = returned[j].node => i = j

(* A set of nodes that wait for each other or for an id outside the plan.  *)
Stuck(S) == \A n \in S : deps[n] \cap S # {} \/ ~(deps[n] \subseteq Nodes)

(* The execution leaves out exactly the nodes that can never run: those on *)
(* a cycle of the plan or behind one, or behind an id outside the plan.    *)
(* So a plan that is a DAG is executed completely, whatever fails.         *)
OnlyStuckLeftOut ==
    stage = "done" => waiting = UNION {S \in SUBSET Nodes : Stuck(S)}

(* Every execution ends, also that of a plan with a cycle.                 *)
ExecutionEnds == stage = "select" ~> stage = "done"
=============================================================================
