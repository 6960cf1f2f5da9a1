--------------------------------- MODULE Cli ----------------------------------
(***************************************************************************)
(* The one-shot commands of the `lmao` binary (cli/src/main.rs and the     *)
(* handlers it calls) next to the daemons of the same host (Daemon).       *)
(*                                                                         *)
(* A command looks for a daemon twice: main does, to decide whether it     *)
(* builds a transport of its own or an in-memory placeholder, and then the *)
(* handler does, to decide whether it sends a request.  A daemon may start *)
(* or end in between.  The trust commands are in TrustStore.               *)
(***************************************************************************)
EXTENDS Daemon

CONSTANT Invokes        \* the commands each client may run

TaskAction == {"send", "status", "stream", "delegate", "delegateTo", "delegateAll", "delegateToAll",
               "history", "get"}
HistoryAction == {"history", "get"}
PresenceAction == {"announce", "announceRepeat", "discover", "discoverWatch", "peers", "peersWatch"}
DaemonAction == {"daemonStatus", "daemonStop"}
StorageAction == {"fetch"}
AgentAction == {"agentDiscover", "agentBundle"}     \* and Run, which is the daemon
SessionAction == {"session"}
Commands == TaskAction \cup PresenceAction \cup DaemonAction \cup StorageAction \cup AgentAction
            \cup SessionAction \cup {"info", "health", "metrics", "completion"}

\* Commands that main hands over before it looks for a daemon or builds a transport.
Early == DaemonAction \cup StorageAction \cup {"info"}

ASSUME CliAssumption == Invokes \in [Clients -> SUBSET Commands]

Watching == {"announceRepeat", "discoverWatch", "peersWatch"}

\* The request a command sends when a daemon listens; the other commands send none.
RequestOf ==
    [send |-> "TaskSend", status |-> "TaskStatus", history |-> "TaskHistoryList",
     get |-> "TaskHistoryGet", peers |-> "PresencePeers", info |-> "Info", fetch |-> "StorageFetch",
     daemonStatus |-> "Info", daemonStop |-> "Shutdown",
     delegate |-> "TaskDelegate", delegateTo |-> "TaskDelegateTo",
     delegateAll |-> "TaskDelegateAll", delegateToAll |-> "TaskDelegateToAll"]

\* Commands that publish one task.
Senders == {"send", "delegate", "delegateTo", "delegateAll", "delegateToAll"}

VARIABLES
    cmd,        \* the command of a client
    pc,         \* where it is
    net,        \* the transport main built for it
    seen,       \* the incarnation it reached last
    result      \* "reported": the failure is printed and the exit status is 0

cliVars == <<cmd, pc, net, seen, result>>
vars == <<daemonVars, cliVars>>

Init ==
    /\ DaemonInit
    /\ cmd = [c \in Clients |-> "none"]
    /\ pc = [c \in Clients |-> "idle"]
    /\ net = [c \in Clients |-> "none"]
    /\ seen = [c \in Clients |-> 0]
    /\ result = [c \in Clients |-> "none"]

Goto(c, p) == pc' = [pc EXCEPT ![c] = p] /\ UNCHANGED result
Finish(c, r) == pc' = [pc EXCEPT ![c] = "done"] /\ result' = [result EXCEPT ![c] = r]

-------------------------------------------------------------------------------
(* main *)

\* The embedded node, the REST client or the delivery module may fail to come up.
BuildTransport(c) ==
    \/ net' = [net EXCEPT ![c] = "real"] /\ Goto(c, "storage")
    \/ UNCHANGED net /\ Finish(c, "failed")

BuildStorage(c) ==
    /\ pc[c] = "storage"
    /\ Goto(c, "handler") \/ Finish(c, "failed")
    /\ UNCHANGED <<daemonVars, cmd, net, seen>>

MainEarly(c, k) ==
    /\ k \in Early
    /\ Goto(c, "handler")
    /\ UNCHANGED <<net, seen>>

\* daemon_can_handle
MainPlaceholder(c, k) ==
    /\ k \in TaskAction \cup PresenceAction
    /\ Probe
    /\ seen' = [seen EXCEPT ![c] = socket]
    /\ net' = [net EXCEPT ![c] = "placeholder"]
    /\ Goto(c, "handler")

MainBuild(c, k) ==
    /\ k \notin Early
    /\ k \in TaskAction \cup PresenceAction => ~Probe
    /\ BuildTransport(c)
    /\ UNCHANGED seen

Main(c) ==
    /\ pc[c] = "idle"
    /\ \E k \in Invokes[c] :
          /\ cmd' = [cmd EXCEPT ![c] = k]
          /\ MainEarly(c, k) \/ MainPlaceholder(c, k) \/ MainBuild(c, k)
    /\ UNCHANGED daemonVars

-------------------------------------------------------------------------------
(* A command that the daemon can carry out *)

Routed(c) == cmd[c] \in DOMAIN RequestOf

\* The handler probes, and the client connects anew for the request.
TryViaDaemon(c) ==
    /\ pc[c] = "handler"
    /\ Goto(c, IF Routed(c) /\ Probe THEN "connect" ELSE "local")
    /\ UNCHANGED <<daemonVars, cmd, net, seen>>

Send(c) ==
    /\ pc[c] = "connect"
    /\ \/ /\ Probe
          /\ WriteRequest(c, RequestOf[cmd[c]])
          /\ seen' = [seen EXCEPT ![c] = socket]
          /\ Goto(c, "waiting")
       \/ ~Probe /\ Finish(c, "failed") /\ UNCHANGED <<conn, seen>>
    /\ UNCHANGED <<daemon, socket, exiting, sent, cmd, net>>

\* read_frame refuses a frame beyond MAX_FRAME_BYTES and fails on a broken connection.
ReadFrame(c) == IF conn[c].at = "answered" /\ conn[c].resp # "too_large" THEN conn[c].resp ELSE "Error"

Answered(c, ks) == pc[c] = "waiting" /\ cmd[c] \in ks /\ conn[c].at \in {"answered", "broken", "cut"}

\* A response of the expected variant is printed; another one, an error, or none, is the command's.
Prints(c) ==
    /\ conn' = [conn EXCEPT ![c] = Closed]
    /\ Finish(c, IF ReadFrame(c) = "payload" THEN "ok" ELSE "failed")
    /\ UNCHANGED <<daemon, socket, exiting, sent, cmd, net, seen>>

\* Mutant: a connection that breaks sends the command back to its own node.
PrintDaemonResponseOrRetry(c) ==
    /\ Answered(c, TaskAction \ HistoryAction)
    /\ conn' = [conn EXCEPT ![c] = Closed]
    /\ IF ReadFrame(c) = "payload" THEN Finish(c, "ok") ELSE Goto(c, "local")
    /\ UNCHANGED <<daemon, socket, exiting, sent, cmd, net, seen>>

\* Mutant: a broken connection is not noticed.
PrintDaemonResponseDeaf(c) == Answered(c, TaskAction \ HistoryAction) /\ conn[c].at = "answered" /\ Prints(c)

PrintDaemonResponse(c) == Answered(c, TaskAction \ HistoryAction) /\ Prints(c)
PrintHistory(c) == Answered(c, HistoryAction) /\ Prints(c)
PrintPeers(c) == Answered(c, {"peers"}) /\ Prints(c)
PrintInfo(c) == Answered(c, {"info"}) /\ Prints(c)
PrintStatus(c) == Answered(c, {"daemonStatus"}) /\ Prints(c)
PrintStopped(c) == Answered(c, {"daemonStop"}) /\ Prints(c)

\* The file for the payload may not be writable.
PrintFetched(c) ==
    /\ Answered(c, {"fetch"})
    /\ \/ Prints(c)
       \/ /\ conn' = [conn EXCEPT ![c] = Closed] /\ Finish(c, "failed")
          /\ UNCHANGED <<daemon, socket, exiting, sent, cmd, net, seen>>

PrintAnswer(c) ==
    \/ PrintDaemonResponse(c) \/ PrintHistory(c) \/ PrintPeers(c) \/ PrintInfo(c) \/ PrintStatus(c) \/ PrintStopped(c)
    \/ PrintFetched(c)

-------------------------------------------------------------------------------
(* A command on its own node *)

Local(c, ks) == pc[c] = "local" /\ cmd[c] \in ks
\* Without an effect that the model follows.
Ends(c, rs) ==
    /\ \E r \in rs : Finish(c, r)
    /\ UNCHANGED <<daemonVars, cmd, net, seen>>

\* build_node reads the keyfile, or creates it, before the command does anything.
BuildNodeFails(c) ==
    Local(c, Commands \ (HistoryAction \cup DaemonAction \cup StorageAction \cup {"health", "completion"}))
    /\ Ends(c, {"failed"})

\* The placeholder accepts every message, and nobody hears it.
SendOrReport(c) ==
    /\ \/ Publish(c, net[c]) /\ Finish(c, "ok")
       \/ net[c] = "real" /\ MayPublish(c, net[c]) /\ Finish(c, "reported")
    /\ UNCHANGED <<daemon, socket, exiting, conn, cmd, net, seen>>

LocalSend(c) == Local(c, {"send"}) /\ SendOrReport(c)
LocalDelegateTo(c) == Local(c, {"delegateTo", "delegateToAll"}) /\ SendOrReport(c)

\* Peers are awaited first, and the placeholder brings none.
NoPeers(c) == UNCHANGED sent /\ \E r \in {"reported", "failed"} : Finish(c, r)

\* The delegation is reported, also when it fails.
LocalDelegate(c) ==
    /\ Local(c, {"delegate"})
    /\ \/ net[c] = "real" /\ Publish(c, net[c]) /\ Finish(c, "ok")
       \/ net[c] = "real" /\ MayPublish(c, net[c]) /\ Finish(c, "reported")
       \/ NoPeers(c)
    /\ UNCHANGED <<daemon, socket, exiting, conn, cmd, net, seen>>

\* delegate_broadcast: a publish that fails is one of the results.
LocalBroadcast(c) ==
    /\ Local(c, {"delegateAll"})
    /\ (net[c] = "real" /\ MayPublish(c, net[c]) /\ Finish(c, "ok")) \/ NoPeers(c)
    /\ UNCHANGED <<daemon, socket, exiting, conn, cmd, net, seen>>

LocalStatus(c) == Local(c, {"status"}) /\ Ends(c, {"ok", "reported", "failed"})
LocalStream(c) == Local(c, {"stream"}) /\ Ends(c, {"ok", "failed"})

\* The first announcement ends the command when it fails; a repeated one does not.
LocalAnnounce(c) ==
    \/ Local(c, {"announce"}) /\ Ends(c, {"ok", "reported", "failed"})
    \/ /\ Local(c, {"announceRepeat"})
       /\ \/ Ends(c, {"reported", "failed"})
          \/ Goto(c, "watching") /\ UNCHANGED <<daemonVars, cmd, net, seen>>

LocalDiscover(c) ==
    \/ Local(c, {"discover"}) /\ Ends(c, {"ok", "failed"})
    \/ Local(c, {"discoverWatch"}) /\ Goto(c, "watching") /\ UNCHANGED <<daemonVars, cmd, net, seen>>

LocalPeers(c) ==
    \/ Local(c, {"peers"}) /\ Ends(c, {"ok", "failed"})
    \/ Local(c, {"peersWatch"}) /\ Goto(c, "watching") /\ UNCHANGED <<daemonVars, cmd, net, seen>>

\* State of the daemon that no other process has.
HistoryNeedsDaemon(c) == Local(c, HistoryAction) /\ Ends(c, {"failed"})
FetchNeedsDaemon(c) == Local(c, {"fetch"}) /\ Ends(c, {"failed"})
NotRunning(c) == Local(c, {"daemonStatus"}) /\ Ends(c, {"ok"})
NothingToStop(c) == Local(c, {"daemonStop"}) /\ Ends(c, {"ok"})

PrintViaEphemeral(c) == Local(c, {"info"}) /\ Ends(c, {"ok", "failed"})
SessionHandle(c) == Local(c, {"session"}) /\ Ends(c, {"ok", "failed"})
MetricsHandle(c) == Local(c, {"metrics"}) /\ Ends(c, {"ok", "failed"})
HealthHandle(c) == Local(c, {"health"}) /\ Ends(c, {"ok", "reported", "failed"})
CompletionHandle(c) == Local(c, {"completion"}) /\ Ends(c, {"ok"})
AgentDiscover(c) == Local(c, {"agentDiscover"}) /\ Ends(c, {"ok", "reported", "failed"})
AgentBundle(c) == Local(c, {"agentBundle"}) /\ Ends(c, {"ok", "failed"})

LocalStep(c) ==
    \/ BuildNodeFails(c)
    \/ LocalSend(c) \/ LocalDelegateTo(c) \/ LocalDelegate(c) \/ LocalBroadcast(c)
    \/ LocalStatus(c) \/ LocalStream(c)
    \/ LocalAnnounce(c) \/ LocalDiscover(c) \/ LocalPeers(c)
    \/ HistoryNeedsDaemon(c) \/ FetchNeedsDaemon(c) \/ NotRunning(c) \/ NothingToStop(c) \/ PrintViaEphemeral(c)
    \/ SessionHandle(c) \/ MetricsHandle(c) \/ HealthHandle(c) \/ CompletionHandle(c)
    \/ AgentDiscover(c) \/ AgentBundle(c)

Step(c) ==
    \/ BuildStorage(c) \/ TryViaDaemon(c) \/ Send(c) \/ PrintAnswer(c) \/ LocalStep(c)

Next ==
    \/ DaemonNext /\ UNCHANGED cliVars
    \/ \E c \in Clients : Main(c) \/ Step(c)

\* A started command runs on, and so does a daemon that has not crashed.
Spec == Init /\ [][Next]_vars /\ DaemonFairness /\ \A c \in Clients : WF_vars(Step(c))

-------------------------------------------------------------------------------
(* Properties *)

TypeOK ==
    /\ DaemonTypeOK
    /\ cmd \in [Clients -> Commands \cup {"none"}]
    /\ pc \in [Clients -> {"idle", "storage", "handler", "connect", "waiting", "local", "watching", "done"}]
    /\ net \in [Clients -> {"none", "placeholder", "real"}]
    /\ seen \in [Clients -> {0} \cup Incarnations]
    /\ result \in [Clients -> {"none", "ok", "reported", "failed"}]

\* The daemon that main found cannot be reached any more.
Gone(c) == seen[c] # 0 /\ ~(socket = seen[c] /\ Alive(seen[c]))

\* A command publishes its task at most once, by the daemon or by its own node: when a daemon dies
\* with a request of a command (daemon/client.rs, send), the command fails and does not try again.
\* When `task send` or `task delegate` claims success the task was published, but for --broadcast:
\* delegate_broadcast reports publishes that failed and is content.  And the task ends on the
\* in-memory placeholder of main.rs, where nobody hears it and success is claimed all the same, only
\* when the daemon that main found has gone before the handler looked for it.
TaskIsSentOnce ==
    \A c \in Clients :
        /\ Len(sent[c]) <= 1
        /\ cmd[c] \in Senders \ {"delegateAll"} /\ result[c] = "ok" => Len(sent[c]) = 1
        /\ sent[c] = <<"placeholder">> => Gone(c)

\* Every command ends, whatever happens to the daemon it talks to, unless it was asked to go on
\* (--watch, --repeat): DaemonClient::send has no timeout and relies on the connection breaking.
\* And `daemon stop` reports success for a daemon that ends.  A client runs one command, and an
\* incarnation that ended stays so: the end of all of them is a state that stays.
EveryCommandEnds ==
    <>[](\A c \in Clients :
            /\ pc[c] \in {"idle", "done"} \/ cmd[c] \in Watching
            /\ cmd[c] = "daemonStop" /\ result[c] = "ok" => seen[c] = 0 \/ ~Alive(seen[c]))
===============================================================================
