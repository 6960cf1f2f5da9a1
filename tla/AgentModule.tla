------------------------------ MODULE AgentModule ------------------------------
(***************************************************************************)
(* The agent module of Basecamp (basecamp/agent-module/src/agent_impl.cpp):*)
(* it runs `lmao agent run` as a child, waits on a thread for the socket   *)
(* of the child, sends requests to it, on the thread of the host or on     *)
(* detached workers that report with an event, and takes the child down    *)
(* when it is destroyed.                                                   *)
(*                                                                         *)
(* The host calls the module from one thread, and destroys it there.  What *)
(* the child answers is one of Answers; what a request asks is left out.   *)
(***************************************************************************)
EXTENDS Naturals, FiniteSets

CONSTANTS Requests      \* calls of start_delegate and start_fetch_cid

\* What a request brings back: from the daemon, or from sendRequest itself ("own error": it could not
\* connect or write, a frame was too large, or the answer did not come in time).
Answers(want) ==
    {"kind error", "good", "garbled"} \cup IF want = "delegate" THEN {"no results", "failed"} ELSE {}

VARIABLES
    host,       \* the host: new, ready, in a step of the destructor, gone
    proc,       \* the child: none, booting, serving, stopping, dead
    sock,       \* whether the file of its socket exists
    started, shuttingDown,  \* the flags of State
    waiter,     \* the wait thread: none, polling, settling, done
    told,       \* the JSON the last call on the thread of the host returned
    work,       \* a worker: none, asking, answered, checked, done
    wants,      \* what it asks for: delegate or fetch, once it is started
    reply,      \* what its request brought back
    event       \* what the event it emitted says

agentVars == <<host, proc, sock, started, shuttingDown, waiter, told, work, wants, reply, event>>
childProcess == <<proc, sock>>
flags == <<started, shuttingDown>>
workers == <<work, wants, reply, event>>

AgentInit ==
    /\ host = "new" /\ proc = "none" /\ sock = FALSE
    /\ started = FALSE /\ shuttingDown = FALSE /\ waiter = "none" /\ told = "none"
    /\ work = [r \in Requests |-> "none"]
    /\ wants = [r \in Requests |-> "none"]
    /\ reply = [r \in Requests |-> "none"] /\ event = [r \in Requests |-> "none"]

ProcRunning == proc \in {"booting", "serving", "stopping"}

\* Where the binary is found, in the order of the search: beside the plugin, at $LMAO_BIN, in the
\* places of the system; or nowhere.
LmaoBinary == {"bundled", "env", "system", "nowhere"}

\* The constructor: without a binary it is done.
Construct ==
    /\ host = "new"
    /\ \E binary \in LmaoBinary : host' = IF binary = "nowhere" THEN "ready" ELSE "starting"
    /\ sock' = FALSE
    /\ UNCHANGED <<proc, flags, waiter, told, workers>>

\* The child starts and a thread waits for its socket; or it does not start within 5 s.
StartChild ==
    /\ host = "starting"
    /\ host' = "ready"
    /\ \/ proc' = "booting" /\ waiter' = "polling"
       \/ UNCHANGED <<proc, waiter>>
    /\ UNCHANGED <<sock, flags, told, workers>>

\* The child: it binds its socket, and may end at any time, with or without removing the file.
DaemonBinds ==
    /\ proc = "booting"
    /\ proc' = "serving" /\ sock' = TRUE
    /\ UNCHANGED <<host, flags, waiter, told, workers>>

DaemonEnds ==
    /\ ProcRunning
    /\ proc' = "dead" /\ sock' \in {sock, FALSE}
    /\ UNCHANGED <<host, flags, waiter, told, workers>>

\* One turn of the wait thread, the last one before its deadline possibly, and its settling.
WaitForSocket ==
    /\ waiter = "polling"
    /\ waiter' \in IF shuttingDown THEN {"done"} ELSE IF sock THEN {"settling"} ELSE {"polling", "done"}
    /\ UNCHANGED <<host, childProcess, flags, told, workers>>

Settle ==
    /\ waiter = "settling"
    /\ waiter' = "done" /\ started' = TRUE
    /\ UNCHANGED <<host, childProcess, shuttingDown, told, workers>>

\* Mutant: no timeouts, a request waits for its answer.
SendRequestForever(want) == IF proc \in {"serving", "stopping"} THEN Answers(want) ELSE {}

\* sendRequest: what a request may bring back.
SendRequest(want) == {"own error"} \cup IF proc \in {"serving", "stopping"} THEN Answers(want) ELSE {}

\* The JSON a call returns has the key `error` (errorJson), is an error of the daemon, or is an answer.
Shape(a) == IF a \in {"own error", "kind error"} THEN a ELSE "answer"

\* A request on the thread of the host, which waits for its answer.
Tell(want) ==
    /\ host = "ready"
    /\ told' \in {Shape(a) : a \in IF started THEN SendRequest(want) ELSE {"own error"}}
    /\ UNCHANGED <<host, childProcess, flags, waiter, workers>>

InfoOrPeers == Tell("info")
Delegate == Tell("delegate")
SendTask == Tell("task")
FetchCid == Tell("fetch")
TrustCalls == Tell("trust")
TaskHistoryCalls == Tell("history")

StopDaemon ==
    /\ started
    /\ started' = FALSE
    /\ proc' \in IF proc = "serving" THEN {"serving", "stopping"} ELSE {proc}
    /\ UNCHANGED <<sock, shuttingDown, waiter, told, workers>>

Stop == host = "ready" /\ StopDaemon /\ UNCHANGED host

\* A worker is spawned, and the id of the request returned; or there is no daemon to ask.
SpawnWorker(r, want) ==
    /\ host = "ready" /\ work[r] = "none"
    /\ work' = [work EXCEPT ![r] = IF started THEN "asking" ELSE "none"]
    /\ wants' = [wants EXCEPT ![r] = IF started THEN want ELSE "none"]
    /\ told' = IF started THEN "answer" ELSE "own error"
    /\ UNCHANGED <<host, childProcess, flags, waiter, reply, event>>

StartDelegate(r) == SpawnWorker(r, "delegate")
StartFetchCid(r) == SpawnWorker(r, "fetch")

\* The worker sends its request and has the answer, or sendRequest gives up.
WorkerAsks(r, want) ==
    /\ work[r] = "asking" /\ wants[r] = want
    /\ \E a \in SendRequest(want) : reply' = [reply EXCEPT ![r] = a]
    /\ work' = [work EXCEPT ![r] = "answered"]
    /\ UNCHANGED <<host, childProcess, flags, waiter, told, wants, event>>

DelegateAsks(r) == WorkerAsks(r, "delegate")
FetchAsks(r) == WorkerAsks(r, "fetch")

\* Mutant: the key `error` alone is looked for, which the daemon does not send.
FetchEventLegacy(a) ==
    IF a = "own error" THEN "error" ELSE IF a = "garbled" THEN "unparseable" ELSE "success"

DelegateEvent(a) ==
    CASE a \in {"kind error", "own error"} -> "error"
      [] a = "no results" -> "no peer"
      [] a = "garbled" -> "unparseable"
      [] a = "failed" -> "failed"
      [] a = "good" -> "success"

FetchEvent(a) ==
    IF a \in {"kind error", "own error"} THEN "error" ELSE IF a = "garbled" THEN "unparseable" ELSE "success"

\* The worker looks at shuttingDown, ...
WorkerChecks(r) ==
    /\ work[r] = "answered"
    /\ work' = [work EXCEPT ![r] = IF shuttingDown THEN "done" ELSE "checked"]
    /\ UNCHANGED <<host, childProcess, flags, waiter, told, wants, reply, event>>

\* ... and then emits its event, whether the host is still there to hear it or not.
WorkerEmits(r, want, what) ==
    /\ work[r] = "checked" /\ wants[r] = want
    /\ event' = [event EXCEPT ![r] = what]
    /\ work' = [work EXCEPT ![r] = "done"]
    /\ UNCHANGED <<host, childProcess, flags, waiter, told, wants, reply>>

DelegateEmits(r) == work[r] = "checked" /\ WorkerEmits(r, "delegate", DelegateEvent(reply[r]))
FetchEmits(r) == work[r] = "checked" /\ WorkerEmits(r, "fetch", FetchEvent(reply[r]))

\* The destructor: the flag, the join, the request to stop, the signals, the file.
DestroyBegins ==
    /\ host = "ready"
    /\ host' = "joining" /\ shuttingDown' = TRUE
    /\ UNCHANGED <<childProcess, started, waiter, told, workers>>

JoinWaiter ==
    /\ host = "joining" /\ waiter \in {"none", "done"}
    /\ host' = IF started THEN "stopping" ELSE "ending"
    /\ UNCHANGED <<childProcess, flags, waiter, told, workers>>

StopFirst == host = "stopping" /\ StopDaemon /\ host' = "ending"

\* Mutant: a child that was never heard of is not ended.
EndChildIfStopped ==
    /\ host = "ending"
    /\ host' = "gone" /\ sock' = FALSE
    /\ proc' = IF proc \in {"serving", "stopping"} THEN "dead" ELSE proc
    /\ UNCHANGED <<flags, waiter, told, workers>>

\* terminate, then kill, whatever still runs; the socket file is removed.
EndChild ==
    /\ host = "ending"
    /\ host' = "gone" /\ sock' = FALSE
    /\ proc' = IF ProcRunning THEN "dead" ELSE proc
    /\ UNCHANGED <<flags, waiter, told, workers>>

AgentNext ==
    \/ Construct \/ StartChild \/ DaemonBinds \/ DaemonEnds \/ WaitForSocket \/ Settle
    \/ InfoOrPeers \/ Delegate \/ SendTask \/ FetchCid \/ TrustCalls \/ TaskHistoryCalls \/ Stop
    \/ DestroyBegins \/ JoinWaiter \/ StopFirst \/ EndChild
    \/ \E r \in Requests :
        \/ StartDelegate(r) \/ DelegateAsks(r) \/ DelegateEmits(r)
        \/ StartFetchCid(r) \/ FetchAsks(r) \/ FetchEmits(r)
        \/ WorkerChecks(r)

Worker(r) == DelegateAsks(r) \/ FetchAsks(r) \/ WorkerChecks(r) \/ DelegateEmits(r) \/ FetchEmits(r)

\* The threads of the workers run, and a request of theirs ends at the latest with its timeouts.
AgentFairness == \A r \in Requests : WF_agentVars(Worker(r))

-------------------------------------------------------------------------------
(* Properties *)

\* Types of the host, the child and the workers.
AgentTypeOK ==
    /\ host \in {"new", "starting", "ready", "joining", "stopping", "ending", "gone"}
    /\ proc \in {"none", "booting", "serving", "stopping", "dead"}
    /\ {sock, started, shuttingDown} \subseteq BOOLEAN
    /\ waiter \in {"none", "polling", "settling", "done"}
    /\ work \in [Requests -> {"none", "asking", "answered", "checked", "done"}]

\* daemon_state, the badge of the module.
DaemonState == IF started /\ ProcRunning THEN "ready" ELSE IF ProcRunning THEN "starting" ELSE "offline"

\* A module that is gone leaves nothing behind: no child, whether it was still booting, had never been
\* heard of, or ignored the request to stop; no socket file; and no thread that waits for one.
NothingLeftBehind == host = "gone" => ~ProcRunning /\ ~sock /\ waiter \in {"none", "done"}

\* What an event says is what the daemon said: success is reported for an answer that is one, and the
\* advice that no peer matched only when the daemon found none (agent_impl.cpp:563-573).
EventTellsReply ==
    \A r \in Requests :
        /\ event[r] = "success" => reply[r] = "good"
        /\ event[r] = "no peer" => reply[r] = "no results"

\* Every request that was accepted is reported with an event, unless the module is shut down first.
\* A request is accepted once and its event stays, so this is a state reached for good.
AcceptedIsReported == <>[](\A r \in Requests : work[r] # "none" => event[r] # "none" \/ shuttingDown)
===============================================================================
