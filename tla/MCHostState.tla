------------------------------ MODULE MCHostState -----------------------------
(***************************************************************************)
(* What the process around a node keeps between calls, in files and in     *)
(* memory, one thing at a time: the trust list, the task history, the key  *)
(* files, the sessions, the tool calls of the MCP bridge, the node behind  *)
(* the C interface, the counters.  They share nothing, so a behaviour      *)
(* exercises the one that `which` picks; the others keep one fixed state.  *)
(***************************************************************************)
EXTENDS TrustStore, HistoryLog, KeyFile, Sessions, McpBridge, FfiNode, Metrics, TLC

CONSTANTS p, q, c1, c2, c3

VARIABLE which

files == <<trustVars, historyVars, keyVars>>
others == <<bridgeVars, ffiVars, metricsVars>>
hostVars == <<which, files, vars, bridgeVars, ffiVars, metricsVars>>

HostInit ==
    /\ which \in {"trust", "history", "keys", "sessions", "bridge", "ffi", "metrics"}
    /\ TrustInit /\ HistoryInit /\ KeyInit /\ Init /\ BridgeInit /\ FfiInit /\ MetricsInit
    /\ which # "trust" => op = [c \in Cmds |-> [kind |-> "mode", mode |-> "Off"]]
    /\ which = "trust" =>     \* bounds; without an add the list stays empty
           /\ Cardinality({c \in Cmds : op[c].kind \notin {"add", "remove"}}) <= 1
           /\ \E c \in Cmds : op[c].kind = "add"
    /\ which # "bridge" => ~serving
    /\ which # "ffi" => api = "lmao"
    /\ which # "metrics" => "messages_received" \in watched

HostNext ==
    /\ UNCHANGED which
    /\ \/ which = "trust" /\ TrustNext /\ UNCHANGED <<historyVars, keyVars, vars, others>>
       \/ which = "history" /\ HistoryNext /\ UNCHANGED <<trustVars, keyVars, vars, others>>
       \/ which = "keys" /\ KeyNext /\ UNCHANGED <<trustVars, historyVars, vars, others>>
       \/ which = "sessions" /\ Next /\ UNCHANGED <<files, others>>
       \/ which = "bridge" /\ BridgeNext /\ UNCHANGED <<files, vars, ffiVars, metricsVars>>
       \/ which = "ffi" /\ FfiNext /\ UNCHANGED <<files, vars, bridgeVars, metricsVars>>
       \/ which = "metrics" /\ MetricsNext /\ UNCHANGED <<files, vars, bridgeVars, ffiVars>>

HostSpec == HostInit /\ [][HostNext]_hostVars

TwoPeers == {p, q}
ThreeProcesses == {c1, c2, c3}
HostSymmetry == Permutations(ThreeProcesses) \cup Permutations(TwoPeers)
===============================================================================
