------------------------------ MODULE AgentGraph ------------------------------
(***************************************************************************)
(* The graph of SACVWorkflow projected to the nodes that call the agent:   *)
(* preflight, bootstrap, the mode router and the scout do not, and         *)
(* memory_consolidation calls it twice, for AGENTS.md and for the rules of *)
(* the architecture.  AgentLedger runs on it; SACVWorkflow stays on it.    *)
(***************************************************************************)

Critics == {"security", "style", "consistency"}
Callers == Critics \cup {"node"}

\* Nodes that ask for structured output and nodes that take any answer.
Structured == {"value_node", "tdd_gate", "actor", "replan", "agents_md"}
Plain == {"verifier", "intelligent_debugger", "arch_rules"}
Ended == {"END", "crashed"}
Nodes == Structured \cup Plain \cup Ended \cup {"all_critics", "speculative_branch"}

\* Nodes that take an exception of the agent as an answer.
CatchErrors == {"verifier", "agents_md", "arch_rules"}

\* The edges, and those of a node that returns without having asked: a
\* skipped gate, stagnation, a check that fails before the classifier is
\* reached, no observations, no architecture violation.
Successors ==
    [value_node           |-> {"tdd_gate", "END"},
     tdd_gate             |-> {"tdd_gate", "actor", "END"},
     actor                |-> {"actor", "all_critics", "END"},
     all_critics          |-> {"verifier"},
     verifier             |-> {"actor", "intelligent_debugger",
                               "speculative_branch", "agents_md", "END"},
     intelligent_debugger |-> {"actor"},
     speculative_branch   |-> {"agents_md", "replan", "END"},
     replan               |-> {"tdd_gate", "END"},
     agents_md            |-> {"arch_rules"},
     arch_rules           |-> {"END"}]

SilentSuccessors ==
    [tdd_gate             |-> {"tdd_gate", "actor", "END"},
     actor                |-> {"END"},
     verifier             |-> {"actor", "intelligent_debugger",
                               "speculative_branch", "END"},
     intelligent_debugger |-> {"actor"},
     arch_rules           |-> {"END"}]
================================================================================
