-------------------------------- MODULE Daemon --------------------------------
(***************************************************************************)
(* The daemon of `lmao agent run`: its start-up (cli/src/agent.rs), the    *)
(* Unix socket it serves (daemon/server.rs) and the one request and one    *)
(* response of a connection (daemon/frame.rs, daemon/protocol.rs).         *)
(*                                                                         *)
(* Several incarnations of the daemon may run on one host with one socket  *)
(* path, one after the other or at the same time.  Requests about the      *)
(* trust list are in TrustStore.  A client has at most one connection.     *)
(***************************************************************************)
EXTENDS Integers, Sequences, FiniteSets

CONSTANTS
    Clients,
    MaxDaemons      \* bound: incarnations of the daemon

ASSUME DaemonAssumption == MaxDaemons \in Nat \ {0}

Incarnations == 1 .. MaxDaemons

Request == {"Info", "PresencePeers", "TaskSend", "TaskStatus",
            "TaskDelegate", "TaskDelegateTo", "TaskDelegateAll", "TaskDelegateToAll",
            "StorageFetch", "TaskHistoryList", "TaskHistoryGet", "Shutdown"}

\* A response is the payload of its request, an error, or a payload beyond MAX_FRAME_BYTES.
Response == {"payload", "too_large", "Error"}

NoRequest == "none"
\* "broken": the daemon crashed before the answer; "cut": it exited, as asked, before it.
Phases == {"closed", "sent", "performed", "answered", "broken", "cut"}
Conn == [d : {0} \cup Incarnations, at : Phases,
         req : Request \cup {NoRequest}, resp : Response \cup {NoRequest}]
Closed == [d |-> 0, at |-> "closed", req |-> NoRequest, resp |-> NoRequest]

VARIABLES
    daemon,      \* what an incarnation does
    socket,      \* the incarnation whose listener the socket path leads to, 0 if none
    exiting,     \* incarnations that have been asked to shut down
    conn,        \* the connection of a client
    sent         \* history: places where the client's task was published, with repetitions

daemonVars == <<daemon, socket, exiting, conn, sent>>

DaemonInit ==
    /\ daemon = [d \in Incarnations |-> "off"]
    /\ socket = 0
    /\ exiting = {}
    /\ conn = [c \in Clients |-> Closed]
    /\ sent = [c \in Clients |-> <<>>]

Alive(d) == daemon[d] \in {"removing", "binding", "serving", "deaf"}

\* A connect() to the socket path succeeds.
Probe == socket # 0 /\ Alive(socket)

Publish(c, place) == sent' = [sent EXCEPT ![c] = <<place>> \o @]

\* What an error leaves open: it may come after the publish, from a retransmission or from the poll
\* for the response.
MayPublish(c, place) == Publish(c, place) \/ UNCHANGED sent

-------------------------------------------------------------------------------
(* Life of an incarnation *)

\* `lmao agent run` loads the trust list, builds its node and spawns the server.
AgentRun(d) ==
    /\ daemon[d] = "off"
    /\ \A e \in Incarnations : e < d => daemon[e] # "off"
    /\ \E s \in {"removing", "dead"} : daemon' = [daemon EXCEPT ![d] = s]
    /\ UNCHANGED <<socket, exiting, conn, sent>>

\* serve() removes whatever is at the path ...
RemoveSocket(d) ==
    /\ daemon[d] = "removing"
    /\ socket' = 0
    /\ \E s \in {"binding", "deaf"} : daemon' = [daemon EXCEPT ![d] = s]
    /\ UNCHANGED <<exiting, conn, sent>>

\* ... and binds it; when the path is taken the agent goes on without a server.
BindSocket(d) ==
    /\ daemon[d] = "binding"
    /\ \/ /\ socket = 0
          /\ socket' = d
          /\ daemon' = [daemon EXCEPT ![d] = "serving"]
       \/ /\ socket # 0
          /\ daemon' = [daemon EXCEPT ![d] = "deaf"]
          /\ UNCHANGED socket
    /\ UNCHANGED <<exiting, conn, sent>>

\* The process ends: a connection without a complete answer breaks.
End(d, how) ==
    /\ Alive(d)
    /\ daemon' = [daemon EXCEPT ![d] = "dead"]
    /\ conn' = [c \in Clients |->
                   IF conn[c].d = d /\ conn[c].at \in {"sent", "performed"}
                   THEN [conn[c] EXCEPT !.at = how] ELSE conn[c]]
    /\ exiting' = exiting \ {d}
    /\ UNCHANGED <<socket, sent>>

Crash(d) == End(d, "broken")

\* The task spawned by Shutdown exits the process when its delay has passed.
Exit(d) == d \in exiting /\ End(d, "cut")

-------------------------------------------------------------------------------
(* One connection *)

\* write_frame of the request, to the incarnation that accepts.
WriteRequest(c, req) ==
    conn' = [conn EXCEPT ![c] = [d |-> socket, at |-> "sent", req |-> req, resp |-> NoRequest]]

Pending(c, req) == conn[c].at = "sent" /\ conn[c].req = req /\ Alive(conn[c].d)
Respond(c, resp) == conn' = [conn EXCEPT ![c].at = "performed", ![c].resp = resp]
Quiet == UNCHANGED <<daemon, socket, exiting, sent>>

DispatchInfo(c) == Pending(c, "Info") /\ Respond(c, "payload") /\ Quiet

DispatchPresencePeers(c) ==
    /\ Pending(c, "PresencePeers")
    /\ \E resp \in {"payload", "Error"} : Respond(c, resp)
    /\ Quiet

DispatchTaskSend(c) ==
    /\ Pending(c, "TaskSend")
    /\ \/ Respond(c, "payload") /\ Publish(c, "daemon")
       \/ Respond(c, "Error") /\ MayPublish(c, "daemon")
    /\ UNCHANGED <<daemon, socket, exiting>>

\* poll_tasks (TaskIntake) takes all that is in the queue of the node.
DispatchTaskStatus(c) ==
    /\ Pending(c, "TaskStatus")
    /\ \E resp \in {"payload", "Error"} : Respond(c, resp)
    /\ Quiet

\* delegate_direct and delegate_task: one peer, named by --to or chosen by the strategy.
DispatchTaskDelegate(c) ==
    /\ \E req \in {"TaskDelegate", "TaskDelegateTo"} : Pending(c, req)
    /\ \/ Respond(c, "payload") /\ Publish(c, "daemon")
       \/ Respond(c, "Error") /\ MayPublish(c, "daemon")
    /\ UNCHANGED <<daemon, socket, exiting>>

\* delegate_broadcast: without a peer it is an error, and then whatever fails is one of the results.
DispatchBroadcast(c) ==
    /\ Pending(c, "TaskDelegateAll")
    /\ \/ Respond(c, "payload") /\ MayPublish(c, "daemon")
       \/ Respond(c, "Error") /\ UNCHANGED sent
    /\ UNCHANGED <<daemon, socket, exiting>>

\* --to and --broadcast together are refused.
RefuseToAll(c) == Pending(c, "TaskDelegateToAll") /\ Respond(c, "Error") /\ Quiet

DispatchStorageFetch(c) ==
    /\ Pending(c, "StorageFetch")
    /\ \E resp \in Response : Respond(c, resp)
    /\ Quiet

DispatchTaskHistoryList(c) ==
    /\ Pending(c, "TaskHistoryList")
    /\ \E resp \in Response : Respond(c, resp)
    /\ Quiet

DispatchTaskHistoryGet(c) ==
    /\ Pending(c, "TaskHistoryGet")
    /\ \E resp \in {"payload", "Error"} : Respond(c, resp)
    /\ Quiet

DispatchShutdown(c) ==
    /\ Pending(c, "Shutdown")
    /\ Respond(c, "payload")
    /\ exiting' = exiting \cup {conn[c].d}
    /\ UNCHANGED <<daemon, socket, sent>>

Dispatch(c) ==
    \/ DispatchInfo(c) \/ DispatchPresencePeers(c)
    \/ DispatchTaskSend(c) \/ DispatchTaskStatus(c)
    \/ DispatchTaskDelegate(c) \/ DispatchBroadcast(c) \/ RefuseToAll(c)
    \/ DispatchStorageFetch(c)
    \/ DispatchTaskHistoryList(c) \/ DispatchTaskHistoryGet(c)
    \/ DispatchShutdown(c)

\* handle_connection writes the response of dispatch, or its error.
WriteResponse(c) ==
    /\ conn[c].at = "performed" /\ Alive(conn[c].d)
    /\ conn' = [conn EXCEPT ![c].at = "answered"]
    /\ Quiet

Handle(c) == Dispatch(c) \/ WriteResponse(c)

DaemonNext ==
    \/ \E d \in Incarnations :
           \/ AgentRun(d) \/ RemoveSocket(d) \/ BindSocket(d)
           \/ Crash(d) \/ Exit(d)
    \/ \E c \in Clients : Handle(c)

\* A daemon that has not crashed answers, and exits when it was told to.
DaemonFairness ==
    /\ \A d \in Incarnations : WF_daemonVars(Exit(d))
    /\ \A c \in Clients : WF_daemonVars(Handle(c))

DaemonTypeOK ==
    /\ daemon \in [Incarnations -> {"off", "removing", "binding", "serving", "deaf", "dead"}]
    /\ socket \in {0} \cup Incarnations
    /\ exiting \subseteq Incarnations
    /\ conn \in [Clients -> Conn]
===============================================================================
