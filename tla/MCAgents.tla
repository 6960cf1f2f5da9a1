-------------------------------- MODULE MCAgents ------------------------------
(***************************************************************************)
(* The two ends of a task outside the node, and the answer that comes in   *)
(* chunks, one at a time: the module that asks (AgentModule), the agent    *)
(* that runs an executor (Executor), a streamed answer (Streaming).  They  *)
(* share nothing, so a behaviour exercises the one that `side` picks.      *)
(***************************************************************************)
EXTENDS AgentModule, Executor, Streaming

VARIABLE side

agentsVars == <<side, agentVars, executorVars, vars>>

AgentsInit ==
    /\ side \in {"asks", "executes", "streams"}
    /\ AgentInit /\ ExecutorInit /\ Init
    /\ side # "executes" => ~json /\ maxConcurrent = 1
    /\ side # "streams" => ordered /\ ~replays

AgentsNext ==
    /\ UNCHANGED side
    /\ \/ side = "asks" /\ AgentNext /\ UNCHANGED <<executorVars, vars>>
       \/ side = "executes" /\ ExecutorNext /\ UNCHANGED <<agentVars, vars>>
       \/ side = "streams" /\ Next /\ UNCHANGED <<agentVars, executorVars>>

AgentsSpec == AgentsInit /\ [][AgentsNext]_agentsVars

\* The network goes on delivering, and every caller goes on polling.
StreamFairness ==
    /\ WF_vars(side = "streams" /\ Arrive)
    /\ \A c \in Callers : WF_vars(side = "streams" /\ Poll(c))

\* Nothing of AgentFairness and ExecutorFairness is enabled where the side is not exercised.
AgentsFairness == AgentFairness /\ ExecutorFairness /\ StreamFairness

FairAgentsSpec == AgentsSpec /\ AgentsFairness
===============================================================================
