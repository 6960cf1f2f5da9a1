--------------------------- MODULE CliStorageProofs ---------------------------
(***************************************************************************)
(* What a command of `lmao` does with its task, whichever daemons come and *)
(* go, and what comes out of the storage backends, whoever else uses them, *)
(* for every number of clients, daemons, workers, blobs and chunks,        *)
(* checked by TLAPS.                                                       *)
(***************************************************************************)
EXTENDS Cli, Storage, TLAPS

-------------------------------------------------------------------------------
(* The commands and the daemon *)

\* Requests for which the daemon may publish the task, and those answered with a payload only then.
Publishing == {"TaskSend", "TaskDelegate", "TaskDelegateTo", "TaskDelegateAll"}
Certain == Publishing \ {"TaskDelegateAll"}

\* Commands whose success means that the task was published.
Sure == Senders \ {"delegateAll"}

\* What a connection says of the task of its client.
Served(c) ==
    /\ conn[c].at = "sent" \/ conn[c].req \notin Publishing => sent[c] = <<>>
    /\ conn[c].req = "TaskDelegateToAll" => conn[c].resp # "payload"
    /\ conn[c].at \in {"performed", "answered"} /\ conn[c].resp = "payload" /\ conn[c].req \in Certain =>
           Len(sent[c]) = 1

\* A command has a connection exactly where it waits, and until then it has published nothing.
Once(c) ==
    /\ Len(sent[c]) <= 1
    /\ pc[c] = "waiting" => Routed(c) /\ conn[c].req = RequestOf[cmd[c]] /\ Served(c)
    /\ pc[c] # "waiting" => conn[c] = Closed
    /\ pc[c] \notin {"waiting", "done"} => sent[c] = <<>>
    /\ pc[c] = "done" /\ result[c] = "ok" /\ cmd[c] \in Sure => Len(sent[c]) = 1
    /\ pc[c] # "done" => result[c] = "none"
    /\ pc[c] = "connect" => Routed(c)

CliTypes ==
    /\ cmd \in [Clients -> Commands \cup {"none"}]
    /\ pc \in [Clients -> {"idle", "storage", "handler", "connect", "waiting", "local", "watching", "done"}]
    /\ result \in [Clients -> {"none", "ok", "reported", "failed"}]
    /\ conn \in [Clients -> Conn]
    /\ sent \in [Clients -> Seq({"daemon", "none", "placeholder", "real"})]
    /\ net \in [Clients -> {"none", "placeholder", "real"}]
    /\ socket \in {0} \cup Incarnations

CliInv == CliTypes /\ \A c \in Clients : Once(c)

\* The requests of the commands whose success is certain are those of Certain or the one that the
\* daemon refuses.
LEMMA SenderRequests ==
    /\ \A k \in Sure : k \in DOMAIN RequestOf /\ RequestOf[k] \in Certain \cup {"TaskDelegateToAll"}
    /\ \A k \in Senders : k \in DOMAIN RequestOf
    /\ \A k \in DOMAIN RequestOf : RequestOf[k] \in Request
<1>1. \A k \in Sure : k \in DOMAIN RequestOf /\ RequestOf[k] \in Certain \cup {"TaskDelegateToAll"}
  BY DEF Sure, Senders, RequestOf, Certain, Publishing
<1>2. \A k \in DOMAIN RequestOf : RequestOf[k] \in Request
  BY DEF RequestOf, Request
<1>3. \A k \in Senders : k \in DOMAIN RequestOf
  BY DEF Senders, RequestOf
<1> QED
  BY <1>1, <1>2, <1>3

LEMMA PublishedOnce ==
    ASSUME NEW place
    PROVE  Len(<<place>> \o <<>>) = 1
OBVIOUS

-------------------------------------------------------------------------------

\* Nothing of a client changes.
Same(c) ==
    /\ cmd'[c] = cmd[c] /\ pc'[c] = pc[c] /\ result'[c] = result[c]
    /\ conn'[c] = conn[c] /\ sent'[c] = sent[c]

Unpublished(c) == pc[c] \notin {"waiting", "done"} /\ conn'[c] = conn[c]

\* A command goes on, ends, or publishes its task by its own node.
GoesOn(c) ==
    /\ Unpublished(c) /\ sent'[c] = sent[c] /\ result'[c] = result[c]
    /\ pc'[c] \in {"storage", "handler", "connect", "local", "watching"}
    /\ pc'[c] = "connect" => cmd'[c] \in DOMAIN RequestOf
Stops(c) ==
    /\ Unpublished(c) /\ sent'[c] = sent[c] /\ pc'[c] = "done"
    /\ result'[c] \in {"ok", "reported", "failed"} /\ (result'[c] = "ok" => cmd'[c] \notin Sure)
Publishes(c) ==
    /\ Unpublished(c) /\ pc'[c] = "done" /\ result'[c] \in {"ok", "reported"}
    /\ \E place \in {"none", "placeholder", "real"} : sent'[c] = <<place>> \o sent[c]

\* It sends its request to the daemon, or has the answer.
Asks(c) ==
    /\ pc[c] = "connect" /\ pc'[c] = "waiting"
    /\ cmd'[c] = cmd[c] /\ sent'[c] = sent[c] /\ result'[c] = result[c]
    /\ conn'[c] = [d |-> socket, at |-> "sent", req |-> RequestOf[cmd[c]], resp |-> NoRequest]
Hears(c) ==
    /\ pc[c] = "waiting" /\ pc'[c] = "done" /\ cmd'[c] = cmd[c] /\ sent'[c] = sent[c] /\ conn'[c] = Closed
    /\ result'[c] \in {"ok", "failed"}
    /\ result'[c] = "ok" => conn[c].at = "answered" /\ conn[c].resp = "payload"

ClientStep(c) == GoesOn(c) \/ Stops(c) \/ Publishes(c) \/ Asks(c) \/ Hears(c)

\* What the daemon does for a connection, and to it when it ends.
Performs(c) ==
    /\ conn[c].at = "sent"
    /\ \E resp \in Response :
        /\ conn'[c] = [conn[c] EXCEPT !.at = "performed", !.resp = resp]
        /\ \/ sent'[c] = sent[c] /\ (resp = "payload" => conn[c].req \notin Certain)
           \/ sent'[c] = <<"daemon">> \o sent[c] /\ conn[c].req \in Publishing
        /\ conn[c].req = "TaskDelegateToAll" => resp # "payload"
Writes(c) ==
    /\ conn[c].at = "performed" /\ sent'[c] = sent[c]
    /\ conn'[c] = [conn[c] EXCEPT !.at = "answered"]
Breaks(c) ==
    /\ conn[c].at \in {"sent", "performed"} /\ sent'[c] = sent[c]
    /\ \E how \in {"broken", "cut"} : conn'[c] = [conn[c] EXCEPT !.at = how]

DaemonStep(c) ==
    /\ cmd'[c] = cmd[c] /\ pc'[c] = pc[c] /\ result'[c] = result[c]
    /\ Performs(c) \/ Writes(c) \/ Breaks(c)

LEMMA OnceIsKept ==
    ASSUME CliTypes, NEW c \in Clients, Once(c), Same(c) \/ ClientStep(c) \/ DaemonStep(c)
    PROVE  Once(c)'
<1>0. /\ conn[c] \in Conn /\ sent[c] \in Seq({"daemon", "none", "placeholder", "real"})
      /\ Closed.at = "closed" /\ Len(<<>>) = 0
  BY DEF CliTypes, Closed
<1>1. CASE Same(c)
  BY <1>1 DEF Same, Once, Served, Routed
<1>2. CASE GoesOn(c)
  BY <1>2, <1>0 DEF GoesOn, Unpublished, Once, Routed
<1>3. CASE Stops(c)
  BY <1>3, <1>0 DEF Stops, Unpublished, Once
<1>4. CASE Publishes(c)
  <2>1. /\ pc'[c] = "done" /\ sent[c] = <<>> /\ conn'[c] = Closed
        /\ \E place \in {"none", "placeholder", "real"} : sent'[c] = <<place>> \o sent[c]
    BY <1>4 DEF Publishes, Unpublished, Once
  <2>2. Len(sent'[c]) = 1
    BY <2>1, PublishedOnce
  <2> QED
    BY <2>1, <2>2 DEF Once
<1>5. CASE Asks(c)
  <2>1. /\ Routed(c) /\ sent[c] = <<>> /\ result[c] = "none" /\ cmd'[c] = cmd[c]
        /\ pc'[c] = "waiting" /\ sent'[c] = sent[c] /\ result'[c] = result[c]
        /\ conn'[c].at = "sent" /\ conn'[c].req = RequestOf[cmd[c]] /\ conn'[c].resp = "none"
    BY <1>5 DEF Asks, Once, NoRequest
  <2>2. Served(c)'
    BY <2>1 DEF Served
  <2> QED
    BY <2>1, <2>2, <1>0 DEF Once, Routed
<1>6. CASE Hears(c)
  <2>1. /\ Routed(c) /\ conn[c].req = RequestOf[cmd[c]] /\ Served(c) /\ Len(sent[c]) <= 1
    BY <1>6 DEF Hears, Once
  <2>2. ASSUME result'[c] = "ok", cmd[c] \in Sure PROVE Len(sent[c]) = 1
    <3>1. conn[c].at = "answered" /\ conn[c].resp = "payload"
      BY <1>6, <2>2 DEF Hears
    <3> QED
      BY <2>1, <2>2, <3>1, SenderRequests DEF Served
  <2> QED
    BY <1>6, <2>1, <2>2 DEF Hears, Once
<1>7. CASE DaemonStep(c)
  <2>1. /\ cmd'[c] = cmd[c] /\ pc'[c] = pc[c] /\ result'[c] = result[c]
        /\ conn[c].at \in {"sent", "performed"}
    BY <1>7, Zenon DEF DaemonStep, Performs, Writes, Breaks
  <2>2. pc[c] = "waiting" /\ Routed(c) /\ conn[c].req = RequestOf[cmd[c]] /\ Served(c)
    BY <1>0, <2>1 DEF Once
  <2>3. conn'[c].req = conn[c].req
    BY <1>0, <1>7, Zenon DEF DaemonStep, Performs, Writes, Breaks, Conn
  <2>4. Len(sent'[c]) <= 1 /\ Served(c)'
    <3>1. CASE Performs(c)
      <4>1. sent[c] = <<>>
        BY <2>2, <3>1 DEF Served, Performs
      <4>2. PICK resp \in Response :
              /\ conn'[c] = [conn[c] EXCEPT !.at = "performed", !.resp = resp]
              /\ \/ sent'[c] = sent[c] /\ (resp = "payload" => conn[c].req \notin Certain)
                 \/ sent'[c] = <<"daemon">> \o sent[c] /\ conn[c].req \in Publishing
              /\ conn[c].req = "TaskDelegateToAll" => resp # "payload"
        BY <3>1, Zenon DEF Performs
      <4>3. conn'[c].at = "performed" /\ conn'[c].resp = resp
        BY <4>2, <1>0 DEF Conn
      <4>4. CASE sent'[c] = sent[c] /\ (resp = "payload" => conn[c].req \notin Certain)
        BY <4>1, <4>2, <4>3, <4>4, <2>3, <1>0 DEF Served
      <4>5. CASE sent'[c] = <<"daemon">> \o sent[c] /\ conn[c].req \in Publishing
        <5>1. Len(sent'[c]) = 1
          BY <4>1, <4>5, PublishedOnce
        <5> QED
          BY <4>2, <4>3, <4>5, <5>1, <2>3 DEF Served
      <4> QED
        BY <4>2, <4>4, <4>5
    <3>2. CASE Writes(c)
      <4>1. conn'[c].at = "answered" /\ conn'[c].resp = conn[c].resp /\ sent'[c] = sent[c] /\ conn[c].at = "performed"
        BY <3>2, <1>0 DEF Writes, Conn
      <4> QED
        BY <4>1, <2>2, <2>3 DEF Served, Once
    <3>3. CASE Breaks(c)
      <4>1. conn'[c].at \in {"broken", "cut"} /\ conn'[c].resp = conn[c].resp /\ sent'[c] = sent[c]
        BY <3>3, <1>0 DEF Breaks, Conn
      <4> QED
        BY <4>1, <2>2, <2>3 DEF Served, Once
    <3> QED
      BY <1>7, <3>1, <3>2, <3>3 DEF DaemonStep
  <2> QED
    BY <2>1, <2>2, <2>3, <2>4 DEF Once, Routed
<1> QED
  BY <1>1, <1>2, <1>3, <1>4, <1>5, <1>6, <1>7 DEF ClientStep

\* What updating one place of a function does.
LEMMA OnePlace ==
    ASSUME NEW S, NEW T, NEW f \in [S -> T], NEW g, NEW d \in S, NEW v \in T, g = [f EXCEPT ![d] = v]
    PROVE  g \in [S -> T] /\ g[d] = v /\ \A c \in S : c # d => g[c] = f[c]
OBVIOUS

LEMMA PublishStep ==
    ASSUME CliTypes, NEW d \in Clients, NEW place \in {"daemon", "none", "placeholder", "real"}, Publish(d, place)
    PROVE  /\ sent' \in [Clients -> Seq({"daemon", "none", "placeholder", "real"})]
           /\ sent'[d] = <<place>> \o sent[d]
           /\ \A c \in Clients : c # d => sent'[c] = sent[c]
<1>1. sent[d] \in Seq({"daemon", "none", "placeholder", "real"})
  BY DEF CliTypes
<1>2. <<place>> \o sent[d] \in Seq({"daemon", "none", "placeholder", "real"})
  BY <1>1
<1>3. sent' = [sent EXCEPT ![d] = <<place>> \o sent[d]] /\ sent \in [Clients -> Seq({"daemon", "none", "placeholder", "real"})]
  BY DEF Publish, CliTypes
<1> QED
  BY <1>2, <1>3, OnePlace

LEMMA RespondStep ==
    ASSUME CliTypes, NEW c \in Clients, NEW resp \in Response, Respond(c, resp)
    PROVE  /\ conn' \in [Clients -> Conn]
           /\ conn'[c] = [conn[c] EXCEPT !.at = "performed", !.resp = resp]
           /\ \A e \in Clients : e # c => conn'[e] = conn[e]
<1> DEFINE new == [conn[c] EXCEPT !.at = "performed", !.resp = resp]
<1>1. conn[c] \in Conn /\ conn \in [Clients -> Conn]
  BY DEF CliTypes
<1>2. new \in Conn
  BY <1>1, Zenon DEF Conn, Phases
<1>3. conn' = [conn EXCEPT ![c] = new]
  BY <1>1, Zenon DEF Respond, Conn
<1> QED
  BY <1>1, <1>2, <1>3, OnePlace

\* What a dispatch answers, and whether it has published the task.
LEMMA DispatchKind ==
    ASSUME NEW c \in Clients, Dispatch(c)
    PROVE  /\ conn[c].at = "sent" /\ socket' = socket
           /\ \E resp \in Response :
                 /\ Respond(c, resp)
                 /\ \/ sent' = sent /\ (resp = "payload" => conn[c].req \notin Certain)
                    \/ Publish(c, "daemon") /\ conn[c].req \in Publishing
                 /\ conn[c].req = "TaskDelegateToAll" => resp # "payload"
<1>1. CASE DispatchInfo(c)
  BY <1>1 DEF DispatchInfo, Pending, Quiet, Response, Publishing, Certain
<1>2. CASE DispatchPresencePeers(c)
  BY <1>2 DEF DispatchPresencePeers, Pending, Quiet, Response, Publishing, Certain
<1>3. CASE DispatchTaskSend(c)
  BY <1>3 DEF DispatchTaskSend, MayPublish, Pending, Response, Publishing, Certain
<1>4. CASE DispatchTaskStatus(c)
  BY <1>4 DEF DispatchTaskStatus, Pending, Quiet, Response, Publishing, Certain
<1>5. CASE DispatchTaskDelegate(c)
  BY <1>5 DEF DispatchTaskDelegate, MayPublish, Pending, Response, Publishing, Certain
<1>6. CASE RefuseToAll(c)
  BY <1>6 DEF RefuseToAll, Pending, Quiet, Response, Publishing, Certain
<1>7. CASE DispatchStorageFetch(c)
  BY <1>7 DEF DispatchStorageFetch, Pending, Quiet, Response, Publishing, Certain
<1>8. CASE DispatchTaskHistoryList(c)
  BY <1>8 DEF DispatchTaskHistoryList, Pending, Quiet, Response, Publishing, Certain
<1>9. CASE DispatchTaskHistoryGet(c)
  BY <1>9 DEF DispatchTaskHistoryGet, Pending, Quiet, Response, Publishing, Certain
<1>10. CASE DispatchShutdown(c)
  BY <1>10 DEF DispatchShutdown, Pending, Response, Publishing, Certain
<1>11. CASE DispatchBroadcast(c)
  BY <1>11 DEF DispatchBroadcast, MayPublish, Pending, Response, Publishing, Certain
<1> QED
  BY <1>1, <1>2, <1>3, <1>4, <1>5, <1>6, <1>7, <1>8, <1>9, <1>10, <1>11, Zenon DEF Dispatch

LEMMA HandleKind ==
    ASSUME CliTypes, NEW c \in Clients, Handle(c), UNCHANGED cliVars
    PROVE  CliTypes' /\ DaemonStep(c) /\ \A e \in Clients : e # c => Same(e)
<1>0. cmd' = cmd /\ pc' = pc /\ net' = net /\ result' = result
  BY DEF cliVars
<1>1. CASE Dispatch(c)
  <2>1. PICK resp \in Response :
          /\ Respond(c, resp)
          /\ \/ sent' = sent /\ (resp = "payload" => conn[c].req \notin Certain)
             \/ Publish(c, "daemon") /\ conn[c].req \in Publishing
          /\ conn[c].req = "TaskDelegateToAll" => resp # "payload"
    BY <1>1, DispatchKind
  <2>2. conn[c].at = "sent" /\ socket' = socket
    BY <1>1, DispatchKind
  <2>3. /\ conn' \in [Clients -> Conn]
        /\ conn'[c] = [conn[c] EXCEPT !.at = "performed", !.resp = resp]
        /\ \A e \in Clients : e # c => conn'[e] = conn[e]
    BY <2>1, RespondStep, Zenon
  <2>4. /\ sent' \in [Clients -> Seq({"daemon", "none", "placeholder", "real"})]
        /\ \/ sent'[c] = sent[c] /\ (resp = "payload" => conn[c].req \notin Certain)
           \/ sent'[c] = <<"daemon">> \o sent[c] /\ conn[c].req \in Publishing
        /\ \A e \in Clients : e # c => sent'[e] = sent[e]
    <3>1. CASE sent' = sent /\ (resp = "payload" => conn[c].req \notin Certain)
      BY <3>1 DEF CliTypes
    <3>2. CASE Publish(c, "daemon") /\ conn[c].req \in Publishing
      BY <3>2, PublishStep
    <3> QED
      BY <2>1, <3>1, <3>2
  <2>5. Performs(c)
    BY <2>1, <2>2, <2>3, <2>4, Zenon DEF Performs
  <2>6. CliTypes'
    BY <1>0, <2>2, <2>3, <2>4 DEF CliTypes
  <2>7. ASSUME NEW e \in Clients, e # c PROVE Same(e)
    BY <1>0, <2>3, <2>4, <2>7, Zenon DEF Same
  <2> QED
    BY <1>0, <2>5, <2>6, <2>7 DEF DaemonStep
<1>2. CASE WriteResponse(c)
  <2>1. conn[c] \in Conn /\ conn \in [Clients -> Conn] /\ sent' = sent /\ socket' = socket /\ conn[c].at = "performed"
    BY <1>2 DEF CliTypes, WriteResponse, Quiet
  <2>2. PICK new : new = [conn[c] EXCEPT !.at = "answered"]
    BY Zenon
  <2>3. new \in Conn
    BY <2>1, <2>2 DEF Conn, Phases
  <2>4. conn' = [conn EXCEPT ![c] = new]
    BY <1>2, <2>1, <2>2 DEF WriteResponse
  <2>5. conn' \in [Clients -> Conn] /\ conn'[c] = new /\ \A e \in Clients : e # c => conn'[e] = conn[e]
    BY <2>1, <2>3, <2>4, OnePlace
  <2>6. CliTypes'
    BY <1>0, <2>1, <2>5 DEF CliTypes
  <2>7. Writes(c)
    BY <2>1, <2>2, <2>5 DEF Writes
  <2>8. ASSUME NEW e \in Clients, e # c PROVE Same(e)
    BY <1>0, <2>1, <2>5, <2>8, Zenon DEF Same
  <2> QED
    BY <1>0, <2>6, <2>7, <2>8 DEF DaemonStep
<1> QED
  BY <1>1, <1>2 DEF Handle

\* The end of an incarnation breaks connections, its start and the binding of the socket do not.
LEMMA EndKind ==
    ASSUME CliTypes, NEW d \in Incarnations, NEW how \in {"broken", "cut"}, End(d, how), UNCHANGED cliVars
    PROVE  CliTypes' /\ \A c \in Clients : Same(c) \/ DaemonStep(c)
<1>0. cmd' = cmd /\ pc' = pc /\ net' = net /\ result' = result /\ socket' = socket /\ sent' = sent
  BY DEF cliVars, End
<1>1. conn' = [c \in Clients |-> IF conn[c].d = d /\ conn[c].at \in {"sent", "performed"}
                                THEN [conn[c] EXCEPT !.at = how] ELSE conn[c]]
  BY DEF End
<1>2. ASSUME NEW c \in Clients
      PROVE  conn'[c] \in Conn /\ (Same(c) \/ DaemonStep(c))
  <2>1. conn[c] \in Conn
    BY DEF CliTypes
  <2>2. CASE conn[c].d = d /\ conn[c].at \in {"sent", "performed"}
    <3>1. conn'[c] = [conn[c] EXCEPT !.at = how]
      BY <1>1, <2>2
    <3>2. conn'[c] \in Conn
      BY <2>1, <3>1 DEF Conn, Phases
    <3> QED
      BY <1>0, <2>2, <3>1, <3>2 DEF DaemonStep, Breaks
  <2>3. CASE ~(conn[c].d = d /\ conn[c].at \in {"sent", "performed"})
    BY <1>0, <1>1, <2>1, <2>3 DEF Same
  <2> QED
    BY <2>2, <2>3
<1>3. conn' \in [Clients -> Conn]
  <2>1. DOMAIN conn' = Clients /\ conn' = [c \in DOMAIN conn' |-> conn'[c]]
    BY <1>1
  <2> QED
    BY <1>2, <2>1, Zenon
<1> QED
  BY <1>0, <1>2, <1>3 DEF CliTypes

LEMMA DaemonKind ==
    ASSUME CliTypes, DaemonNext, UNCHANGED cliVars
    PROVE  CliTypes' /\ \A c \in Clients : Same(c) \/ DaemonStep(c)
<1>0. cmd' = cmd /\ pc' = pc /\ net' = net /\ result' = result
  BY DEF cliVars
<1>1. ASSUME NEW d \in Incarnations, AgentRun(d) \/ RemoveSocket(d) \/ BindSocket(d)
      PROVE  CliTypes' /\ \A c \in Clients : Same(c)
  <2>1. conn' = conn /\ sent' = sent /\ socket' \in {0} \cup Incarnations
    BY <1>1 DEF AgentRun, RemoveSocket, BindSocket, CliTypes
  <2> QED
    BY <1>0, <2>1 DEF CliTypes, Same
<1>2. ASSUME NEW d \in Incarnations, Crash(d) \/ Exit(d)
      PROVE  CliTypes' /\ \A c \in Clients : Same(c) \/ DaemonStep(c)
  BY <1>2, EndKind DEF Crash, Exit
<1>3. ASSUME NEW c \in Clients, Handle(c)
      PROVE  CliTypes' /\ \A e \in Clients : Same(e) \/ DaemonStep(e)
  BY <1>3, HandleKind
<1> QED
  BY <1>1, <1>2, <1>3 DEF DaemonNext

-------------------------------------------------------------------------------

\* What a step of a command leaves behind: its own part is typed, and nothing else has changed.
Touches(d) ==
    /\ CliTypes'
    /\ \A c \in Clients : c # d => Same(c)

LEMMA GotoStep ==
    ASSUME CliTypes, NEW d \in Clients, NEW p, Goto(d, p),
           p \in {"storage", "handler", "connect", "waiting", "local", "watching"}
    PROVE  /\ pc' \in [Clients -> {"idle", "storage", "handler", "connect", "waiting", "local", "watching", "done"}]
           /\ result' = result /\ pc'[d] = p /\ \A c \in Clients : c # d => pc'[c] = pc[c]
<1>1. /\ pc' = [pc EXCEPT ![d] = p] /\ result' = result
      /\ pc \in [Clients -> {"idle", "storage", "handler", "connect", "waiting", "local", "watching", "done"}]
  BY DEF Goto, CliTypes
<1> QED
  BY <1>1

LEMMA FinishStep ==
    ASSUME CliTypes, NEW d \in Clients, NEW r \in {"ok", "reported", "failed"}, Finish(d, r)
    PROVE  /\ pc' \in [Clients -> {"idle", "storage", "handler", "connect", "waiting", "local", "watching", "done"}]
           /\ result' \in [Clients -> {"none", "ok", "reported", "failed"}]
           /\ pc'[d] = "done" /\ result'[d] = r
           /\ \A c \in Clients : c # d => pc'[c] = pc[c] /\ result'[c] = result[c]
<1>1. /\ pc' = [pc EXCEPT ![d] = "done"] /\ result' = [result EXCEPT ![d] = r]
      /\ pc \in [Clients -> {"idle", "storage", "handler", "connect", "waiting", "local", "watching", "done"}]
      /\ result \in [Clients -> {"none", "ok", "reported", "failed"}]
  BY DEF Finish, CliTypes
<1> QED
  BY <1>1

\* A command that does nothing but go on or end.
LEMMA GoesOnStep ==
    ASSUME CliTypes, NEW d \in Clients, NEW p, Goto(d, p), p \in {"storage", "handler", "connect", "local", "watching"},
           p = "connect" => cmd'[d] \in DOMAIN RequestOf, pc[d] \notin {"waiting", "done"},
           cmd' \in [Clients -> Commands \cup {"none"}], \A c \in Clients : c # d => cmd'[c] = cmd[c],
           net' \in [Clients -> {"none", "placeholder", "real"}], UNCHANGED <<conn, sent, socket>>
    PROVE  Touches(d) /\ ClientStep(d)
<1>1. /\ pc' \in [Clients -> {"idle", "storage", "handler", "connect", "waiting", "local", "watching", "done"}]
      /\ result' = result /\ pc'[d] = p /\ \A c \in Clients : c # d => pc'[c] = pc[c]
  BY GotoStep
<1>2. GoesOn(d)
  BY <1>1 DEF GoesOn, Unpublished
<1>3. CliTypes'
  BY <1>1 DEF CliTypes
<1>4. ASSUME NEW c \in Clients, c # d PROVE Same(c)
  BY <1>1, <1>4 DEF Same
<1> QED
  BY <1>2, <1>3, <1>4 DEF Touches, ClientStep

LEMMA StopsStep ==
    ASSUME CliTypes, NEW d \in Clients, NEW r \in {"ok", "reported", "failed"}, Finish(d, r),
           r = "ok" => cmd'[d] \notin Sure, pc[d] \notin {"waiting", "done"},
           cmd' \in [Clients -> Commands \cup {"none"}], \A c \in Clients : c # d => cmd'[c] = cmd[c],
           net' \in [Clients -> {"none", "placeholder", "real"}], UNCHANGED <<conn, sent, socket>>
    PROVE  Touches(d) /\ ClientStep(d)
<1>1. /\ pc' \in [Clients -> {"idle", "storage", "handler", "connect", "waiting", "local", "watching", "done"}]
      /\ result' \in [Clients -> {"none", "ok", "reported", "failed"}]
      /\ pc'[d] = "done" /\ result'[d] = r
      /\ \A c \in Clients : c # d => pc'[c] = pc[c] /\ result'[c] = result[c]
  BY FinishStep
<1>2. Stops(d)
  BY <1>1 DEF Stops, Unpublished
<1>3. CliTypes'
  BY <1>1 DEF CliTypes
<1>4. ASSUME NEW c \in Clients, c # d PROVE Same(c)
  BY <1>1, <1>4 DEF Same
<1> QED
  BY <1>2, <1>3, <1>4 DEF Touches, ClientStep

LEMMA MainKind ==
    ASSUME CliTypes, NEW d \in Clients, Main(d)
    PROVE  Touches(d) /\ ClientStep(d)
<1>1. PICK k \in Invokes[d] :
        /\ cmd' = [cmd EXCEPT ![d] = k]
        /\ MainEarly(d, k) \/ MainPlaceholder(d, k) \/ MainBuild(d, k)
  BY Zenon DEF Main
<1>2. pc[d] = "idle" /\ conn' = conn /\ sent' = sent /\ socket' = socket
  BY DEF Main, daemonVars
<1>3. k \in Commands
  BY CliAssumption
<1>4. cmd' \in [Clients -> Commands \cup {"none"}] /\ \A c \in Clients : c # d => cmd'[c] = cmd[c]
  BY <1>1, <1>3 DEF CliTypes
<1>5. CASE MainEarly(d, k)
  BY <1>2, <1>4, <1>5, GoesOnStep, Zenon DEF MainEarly, CliTypes
<1>6. CASE MainPlaceholder(d, k)
  <2>1. net' \in [Clients -> {"none", "placeholder", "real"}]
    BY <1>6 DEF MainPlaceholder, CliTypes
  <2> QED
    BY <1>2, <1>4, <1>6, <2>1, GoesOnStep, Zenon DEF MainPlaceholder
<1>7. CASE MainBuild(d, k)
  <2>1. CASE net' = [net EXCEPT ![d] = "real"] /\ Goto(d, "storage")
    <3>1. net' \in [Clients -> {"none", "placeholder", "real"}]
      BY <2>1 DEF CliTypes
    <3> QED
      BY <1>2, <1>4, <2>1, <3>1, GoesOnStep, Zenon
  <2>2. CASE UNCHANGED net /\ Finish(d, "failed")
    <3>1. net' \in [Clients -> {"none", "placeholder", "real"}]
      BY <2>2 DEF CliTypes
    <3> QED
      BY <1>2, <1>4, <2>2, <3>1, StopsStep
  <2> QED
    BY <1>7, <2>1, <2>2, Zenon DEF MainBuild, BuildTransport
<1> QED
  BY <1>1, <1>5, <1>6, <1>7

\* A command between main and the answer of the daemon, on its own node.
LEMMA EndsStep ==
    ASSUME CliTypes, NEW d \in Clients, NEW ks, NEW rs \in SUBSET {"ok", "reported", "failed"},
           Local(d, ks), Ends(d, rs), "ok" \in rs => ks \cap Sure = {}
    PROVE  Touches(d) /\ ClientStep(d)
<1>1. PICK r \in rs : Finish(d, r)
  BY DEF Ends
<1>2. UNCHANGED <<conn, sent, socket>> /\ cmd' = cmd /\ net' = net /\ pc[d] = "local" /\ cmd[d] \in ks
  BY DEF Ends, Local, daemonVars
<1>3. cmd' \in [Clients -> Commands \cup {"none"}] /\ net' \in [Clients -> {"none", "placeholder", "real"}]
  BY <1>2 DEF CliTypes
<1> QED
  BY <1>1, <1>2, <1>3, StopsStep

LEMMA WatchesStep ==
    ASSUME CliTypes, NEW d \in Clients, NEW p \in {"handler", "connect", "local", "watching"}, Goto(d, p),
           p = "connect" => Routed(d), pc[d] \notin {"waiting", "done"}, UNCHANGED <<daemonVars, cmd, net, seen>>
    PROVE  Touches(d) /\ ClientStep(d)
<1>1. UNCHANGED <<conn, sent, socket>> /\ cmd' = cmd /\ net' = net
  BY DEF daemonVars
<1>2. cmd' \in [Clients -> Commands \cup {"none"}] /\ net' \in [Clients -> {"none", "placeholder", "real"}]
  BY <1>1 DEF CliTypes
<1> QED
  BY <1>1, <1>2, GoesOnStep DEF Routed

\* The task leaves by the node of the command, or the failure is the command's.
LEMMA PublishesStep ==
    ASSUME CliTypes, NEW d \in Clients, NEW r \in {"ok", "reported"}, Publish(d, net[d]), Finish(d, r),
           pc[d] = "local",
           UNCHANGED <<daemon, socket, exiting, conn, cmd, net, seen>>
    PROVE  Touches(d) /\ ClientStep(d)
<1>1. net[d] \in {"none", "placeholder", "real"} /\ cmd' = cmd /\ net' = net /\ conn' = conn /\ socket' = socket
  BY DEF CliTypes
<1>2. /\ sent' \in [Clients -> Seq({"daemon", "none", "placeholder", "real"})]
      /\ sent'[d] = <<net[d]>> \o sent[d]
      /\ \A c \in Clients : c # d => sent'[c] = sent[c]
  BY <1>1, PublishStep
<1>3. /\ pc' \in [Clients -> {"idle", "storage", "handler", "connect", "waiting", "local", "watching", "done"}]
      /\ result' \in [Clients -> {"none", "ok", "reported", "failed"}]
      /\ pc'[d] = "done" /\ result'[d] = r
      /\ \A c \in Clients : c # d => pc'[c] = pc[c] /\ result'[c] = result[c]
  BY FinishStep
<1>4. Publishes(d)
  BY <1>1, <1>2, <1>3 DEF Publishes, Unpublished
<1>5. CliTypes'
  BY <1>1, <1>2, <1>3 DEF CliTypes
<1>6. ASSUME NEW c \in Clients, c # d PROVE Same(c)
  BY <1>1, <1>2, <1>3, <1>6, Zenon DEF Same
<1> QED
  BY <1>4, <1>5, <1>6 DEF Touches, ClientStep

LEMMA ReportsStep ==
    ASSUME CliTypes, NEW d \in Clients, NEW r \in {"reported", "failed"}, Finish(d, r), UNCHANGED sent,
           pc[d] \notin {"waiting", "done"}, UNCHANGED <<socket, conn, cmd, net>>
    PROVE  Touches(d) /\ ClientStep(d)
<1>1. cmd' \in [Clients -> Commands \cup {"none"}] /\ net' \in [Clients -> {"none", "placeholder", "real"}]
  BY DEF CliTypes
<1> QED
  BY <1>1, StopsStep

LEMMA LocalKind ==
    ASSUME CliTypes, NEW d \in Clients, LocalStep(d)
    PROVE  Touches(d) /\ ClientStep(d)
<1>1. CASE BuildNodeFails(d)
  BY <1>1, EndsStep DEF BuildNodeFails, Sure, Senders
<1>2. CASE LocalStatus(d)
  BY <1>2, EndsStep DEF LocalStatus, Sure, Senders
<1>3. CASE LocalStream(d)
  BY <1>3, EndsStep DEF LocalStream, Sure, Senders
<1>4. CASE HistoryNeedsDaemon(d)
  BY <1>4, EndsStep DEF HistoryNeedsDaemon, Sure, Senders, HistoryAction
<1>5. CASE FetchNeedsDaemon(d)
  BY <1>5, EndsStep DEF FetchNeedsDaemon, Sure, Senders
<1>6. CASE NotRunning(d)
  BY <1>6, EndsStep DEF NotRunning, Sure, Senders
<1>7. CASE NothingToStop(d)
  BY <1>7, EndsStep DEF NothingToStop, Sure, Senders
<1>8. CASE PrintViaEphemeral(d)
  BY <1>8, EndsStep DEF PrintViaEphemeral, Sure, Senders
<1>9. CASE SessionHandle(d)
  BY <1>9, EndsStep DEF SessionHandle, Sure, Senders
<1>10. CASE MetricsHandle(d)
  BY <1>10, EndsStep DEF MetricsHandle, Sure, Senders
<1>11. CASE HealthHandle(d)
  BY <1>11, EndsStep DEF HealthHandle, Sure, Senders
<1>12. CASE CompletionHandle(d)
  BY <1>12, EndsStep DEF CompletionHandle, Sure, Senders
<1>13. CASE AgentDiscover(d)
  BY <1>13, EndsStep DEF AgentDiscover, Sure, Senders
<1>14. CASE AgentBundle(d)
  BY <1>14, EndsStep DEF AgentBundle, Sure, Senders
<1>15. ASSUME SendOrReport(d), pc[d] = "local" PROVE Touches(d) /\ ClientStep(d)
  BY <1>15, PublishesStep, ReportsStep DEF SendOrReport, MayPublish
<1>16. CASE LocalSend(d)
  BY <1>15, <1>16 DEF LocalSend, Local
<1>17. CASE LocalDelegateTo(d)
  BY <1>15, <1>17 DEF LocalDelegateTo, Local
<1>18. CASE LocalDelegate(d)
  <2>1. pc[d] = "local" /\ UNCHANGED <<daemon, socket, exiting, conn, cmd, net, seen>>
    BY <1>18 DEF LocalDelegate, Local
  <2>2. CASE \E r \in {"ok", "reported"} : Publish(d, net[d]) /\ Finish(d, r)
    BY <2>1, <2>2, PublishesStep
  <2>3. CASE UNCHANGED sent /\ \E r \in {"reported", "failed"} : Finish(d, r)
    BY <2>1, <2>3, ReportsStep
  <2> QED
    BY <1>18, <2>2, <2>3 DEF LocalDelegate, MayPublish, NoPeers
<1>23. CASE LocalBroadcast(d)
  <2>1. /\ pc[d] = "local" /\ cmd[d] = "delegateAll"
        /\ UNCHANGED <<daemon, socket, exiting, conn, cmd, net, seen>>
    BY <1>23 DEF LocalBroadcast, Local
  <2>2. CASE Publish(d, net[d]) /\ Finish(d, "ok")
    BY <2>1, <2>2, PublishesStep
  <2>3. CASE UNCHANGED sent /\ \E r \in {"ok", "reported", "failed"} : Finish(d, r)
    <3>1. /\ cmd' \in [Clients -> Commands \cup {"none"}]
          /\ net' \in [Clients -> {"none", "placeholder", "real"}]
      BY <2>1 DEF CliTypes
    <3>2. cmd'[d] \notin Sure
      BY <2>1 DEF Sure
    <3> QED
      BY <2>1, <2>3, <3>1, <3>2, StopsStep
  <2> QED
    BY <1>23, <2>2, <2>3 DEF LocalBroadcast, MayPublish, NoPeers
<1>19. ASSUME NEW ks, Local(d, ks), Goto(d, "watching"), UNCHANGED <<daemonVars, cmd, net, seen>>
     PROVE  Touches(d) /\ ClientStep(d)
  BY <1>19, WatchesStep DEF Local
<1>20. CASE LocalAnnounce(d)
  <2>1. CASE Local(d, {"announce"}) /\ Ends(d, {"ok", "reported", "failed"})
    BY <2>1, EndsStep DEF Sure, Senders
  <2>2. CASE Local(d, {"announceRepeat"}) /\ Ends(d, {"reported", "failed"})
    BY <2>2, EndsStep
  <2> QED
    BY <1>19, <1>20, <2>1, <2>2 DEF LocalAnnounce
<1>21. CASE LocalDiscover(d)
  <2>1. CASE Local(d, {"discover"}) /\ Ends(d, {"ok", "failed"})
    BY <2>1, EndsStep DEF Sure, Senders
  <2> QED
    BY <1>19, <1>21, <2>1 DEF LocalDiscover
<1>22. CASE LocalPeers(d)
  <2>1. CASE Local(d, {"peers"}) /\ Ends(d, {"ok", "failed"})
    BY <2>1, EndsStep DEF Sure, Senders
  <2> QED
    BY <1>19, <1>22, <2>1 DEF LocalPeers
<1> QED
  BY <1>1, <1>2, <1>3, <1>4, <1>5, <1>6, <1>7, <1>8, <1>9, <1>10, <1>11, <1>12, <1>13, <1>14, <1>16, <1>17, <1>18, <1>20, <1>21, <1>22, <1>23 DEF LocalStep

LEMMA SendKind ==
    ASSUME CliTypes, NEW d \in Clients, Once(d), Send(d)
    PROVE  Touches(d) /\ ClientStep(d)
<1>0. pc[d] = "connect" /\ Routed(d) /\ cmd' = cmd /\ net' = net /\ sent' = sent /\ socket' = socket
  BY DEF Send, Once
<1>1. CASE WriteRequest(d, RequestOf[cmd[d]]) /\ Goto(d, "waiting")
  <2>1. RequestOf[cmd[d]] \in Request
    BY <1>0, SenderRequests DEF Routed
  <2>2. PICK new : new = [d |-> socket, at |-> "sent", req |-> RequestOf[cmd[d]], resp |-> NoRequest]
    BY Zenon
  <2>3. new \in Conn
    BY <2>1, <2>2 DEF Conn, Phases, CliTypes
  <2>4. conn' = [conn EXCEPT ![d] = new] /\ conn \in [Clients -> Conn]
    BY <1>1, <2>2 DEF WriteRequest, CliTypes
  <2>5. conn' \in [Clients -> Conn] /\ conn'[d] = new /\ \A c \in Clients : c # d => conn'[c] = conn[c]
    BY <2>3, <2>4, OnePlace
  <2>6. /\ pc' \in [Clients -> {"idle", "storage", "handler", "connect", "waiting", "local", "watching", "done"}]
        /\ result' = result /\ pc'[d] = "waiting" /\ \A c \in Clients : c # d => pc'[c] = pc[c]
    BY <1>1, GotoStep
  <2>7. Asks(d)
    BY <1>0, <2>2, <2>5, <2>6 DEF Asks
  <2>8. CliTypes'
    BY <1>0, <2>5, <2>6 DEF CliTypes
  <2>9. ASSUME NEW c \in Clients, c # d PROVE Same(c)
    BY <1>0, <2>5, <2>6, <2>9, Zenon DEF Same
  <2> QED
    BY <2>7, <2>8, <2>9 DEF Touches, ClientStep
<1>2. CASE Finish(d, "failed") /\ UNCHANGED <<conn, seen>>
  BY <1>0, <1>2, ReportsStep
<1> QED
  BY <1>1, <1>2 DEF Send

LEMMA HearsStep ==
    ASSUME CliTypes, NEW d \in Clients, NEW r \in {"ok", "failed"}, Finish(d, r), pc[d] = "waiting",
           r = "ok" => conn[d].at = "answered" /\ conn[d].resp = "payload",
           conn' = [conn EXCEPT ![d] = Closed], UNCHANGED <<daemon, socket, exiting, sent, cmd, net, seen>>
    PROVE  Touches(d) /\ ClientStep(d)
<1>1. Closed \in Conn /\ conn \in [Clients -> Conn]
  BY DEF Closed, Conn, Phases, CliTypes
<1>2. conn' \in [Clients -> Conn] /\ conn'[d] = Closed /\ \A c \in Clients : c # d => conn'[c] = conn[c]
  BY <1>1, OnePlace
<1>3. /\ pc' \in [Clients -> {"idle", "storage", "handler", "connect", "waiting", "local", "watching", "done"}]
      /\ result' \in [Clients -> {"none", "ok", "reported", "failed"}]
      /\ pc'[d] = "done" /\ result'[d] = r
      /\ \A c \in Clients : c # d => pc'[c] = pc[c] /\ result'[c] = result[c]
  BY FinishStep
<1>4. Hears(d)
  BY <1>2, <1>3 DEF Hears
<1>5. CliTypes'
  BY <1>2, <1>3 DEF CliTypes
<1>6. ASSUME NEW c \in Clients, c # d PROVE Same(c)
  BY <1>2, <1>3, <1>6 DEF Same
<1> QED
  BY <1>4, <1>5, <1>6 DEF Touches, ClientStep

LEMMA PrintKind ==
    ASSUME CliTypes, NEW d \in Clients, PrintAnswer(d)
    PROVE  Touches(d) /\ ClientStep(d)
<1>1. pc[d] = "waiting"
  BY DEF PrintAnswer, PrintDaemonResponse, PrintHistory, PrintPeers, PrintInfo, PrintStatus, PrintStopped,
         PrintFetched, Answered
<1>2. CASE Prints(d)
  <2>1. PICK r : r = (IF ReadFrame(d) = "payload" THEN "ok" ELSE "failed")
    OBVIOUS
  <2>2. Finish(d, r) /\ r \in {"ok", "failed"}
    BY <1>2, <2>1 DEF Prints
  <2>3. r = "ok" => conn[d].at = "answered" /\ conn[d].resp = "payload"
    BY <2>1 DEF ReadFrame
  <2> QED
    BY <1>1, <1>2, <2>2, <2>3, HearsStep, Zenon DEF Prints
<1>3. CASE /\ conn' = [conn EXCEPT ![d] = Closed] /\ Finish(d, "failed")
           /\ UNCHANGED <<daemon, socket, exiting, sent, cmd, net, seen>>
  BY <1>1, <1>3, HearsStep, Zenon
<1> QED
  BY <1>2, <1>3 DEF PrintAnswer, PrintDaemonResponse, PrintHistory, PrintPeers, PrintInfo, PrintStatus, PrintStopped,
                    PrintFetched

LEMMA StepKind ==
    ASSUME CliTypes, NEW d \in Clients, Once(d), Step(d)
    PROVE  Touches(d) /\ ClientStep(d)
<1>1. CASE BuildStorage(d)
  <2>1. pc[d] = "storage" /\ UNCHANGED <<daemonVars, cmd, net, seen>>
    BY <1>1 DEF BuildStorage
  <2>2. CASE Goto(d, "handler")
    BY <2>1, <2>2, WatchesStep
  <2>3. CASE Finish(d, "failed")
    BY <2>1, <2>3, ReportsStep DEF daemonVars
  <2> QED
    BY <1>1, <2>2, <2>3 DEF BuildStorage
<1>2. CASE TryViaDaemon(d)
  BY <1>2, WatchesStep DEF TryViaDaemon
<1> QED
  BY <1>1, <1>2, SendKind, PrintKind, LocalKind DEF Step

LEMMA CliStep ==
    ASSUME CliInv, [Next]_vars
    PROVE  CliInv'
<1>0. CliTypes /\ \A c \in Clients : Once(c)
  BY DEF CliInv
<1>1. CliTypes' /\ \A c \in Clients : Same(c) \/ ClientStep(c) \/ DaemonStep(c)
  <2>1. CASE DaemonNext /\ UNCHANGED cliVars
    BY <1>0, <2>1, DaemonKind
  <2>2. ASSUME NEW d \in Clients, Main(d) \/ Step(d)
        PROVE  CliTypes' /\ \A c \in Clients : Same(c) \/ ClientStep(c)
    BY <1>0, <2>2, MainKind, StepKind DEF Touches
  <2>3. CASE UNCHANGED vars
    <3>1. cmd' = cmd /\ pc' = pc /\ net' = net /\ result' = result /\ conn' = conn /\ sent' = sent /\ socket' = socket
      BY <2>3 DEF vars, cliVars, daemonVars
    <3> QED
      BY <1>0, <3>1 DEF CliTypes, Same
  <2> QED
    BY <2>1, <2>2, <2>3 DEF Next
<1> QED
  BY <1>0, <1>1, OnceIsKept DEF CliInv

-------------------------------------------------------------------------------
(* The placeholder transport *)

\* An incarnation that the socket has led to: it serves, or has ended.
Bound(d) == daemon[d] \in {"serving", "dead"}

\* A command with the placeholder has found a daemon, and sends by the placeholder only without it.
Astray(c) ==
    /\ seen[c] # 0 => Bound(seen[c])
    /\ net[c] = "placeholder" => seen[c] # 0
    /\ pc[c] = "local" /\ net[c] = "placeholder" /\ cmd[c] \in Senders => Gone(c)
    /\ sent[c] = <<"placeholder">> => Gone(c)

SeenTypes ==
    /\ daemon \in [Incarnations -> {"off", "removing", "binding", "serving", "deaf", "dead"}]
    /\ seen \in [Clients -> {0} \cup Incarnations]
    /\ socket \in {0} \cup Incarnations
    /\ socket # 0 => Bound(socket)

AstrayInv == SeenTypes /\ \A c \in Clients : Astray(c)

\* An incarnation that was bound never gets the socket again.
Ages ==
    /\ \A d \in Incarnations :
           /\ Bound(d) => daemon'[d] \in {"serving", "dead"}
           /\ daemon[d] = "dead" => daemon'[d] = "dead"
    /\ \/ socket' \in {0, socket}
       \/ socket' \in Incarnations /\ daemon[socket'] = "binding" /\ daemon'[socket'] = "serving"

LEMMA NobodyHears ==
    /\ <<>> # <<"placeholder">> /\ <<"daemon">> \o <<>> # <<"placeholder">>
    /\ \A place : <<place>> \o <<>> = <<"placeholder">> => place = "placeholder"
OBVIOUS

LEMMA DaemonAges ==
    ASSUME SeenTypes, DaemonNext
    PROVE  Ages /\ daemon' \in [Incarnations -> {"off", "removing", "binding", "serving", "deaf", "dead"}]
<1>1. ASSUME NEW d \in Incarnations, AgentRun(d)
      PROVE  Ages /\ daemon' \in [Incarnations -> {"off", "removing", "binding", "serving", "deaf", "dead"}]
  <2>1. PICK s \in {"removing", "dead"} : daemon' = [daemon EXCEPT ![d] = s]
    BY <1>1 DEF AgentRun
  <2>2. daemon[d] = "off" /\ socket' = socket
    BY <1>1 DEF AgentRun
  <2> QED
    BY <2>1, <2>2 DEF SeenTypes, Ages, Bound
<1>2. ASSUME NEW d \in Incarnations, RemoveSocket(d)
      PROVE  Ages /\ daemon' \in [Incarnations -> {"off", "removing", "binding", "serving", "deaf", "dead"}]
  <2>1. PICK s \in {"binding", "deaf"} : daemon' = [daemon EXCEPT ![d] = s]
    BY <1>2 DEF RemoveSocket
  <2>2. daemon[d] = "removing" /\ socket' = 0
    BY <1>2 DEF RemoveSocket
  <2> QED
    BY <2>1, <2>2 DEF SeenTypes, Ages, Bound
<1>3. ASSUME NEW d \in Incarnations, BindSocket(d)
      PROVE  Ages /\ daemon' \in [Incarnations -> {"off", "removing", "binding", "serving", "deaf", "dead"}]
  <2>1. daemon[d] = "binding"
    BY <1>3 DEF BindSocket
  <2>2. CASE socket' = d /\ daemon' = [daemon EXCEPT ![d] = "serving"]
    BY <2>1, <2>2 DEF SeenTypes, Ages, Bound
  <2>3. CASE socket' = socket /\ daemon' = [daemon EXCEPT ![d] = "deaf"]
    BY <2>1, <2>3 DEF SeenTypes, Ages, Bound
  <2> QED
    BY <1>3, <2>2, <2>3 DEF BindSocket
<1>4. ASSUME NEW d \in Incarnations, Crash(d) \/ Exit(d)
      PROVE  Ages /\ daemon' \in [Incarnations -> {"off", "removing", "binding", "serving", "deaf", "dead"}]
  <2>1. daemon' = [daemon EXCEPT ![d] = "dead"] /\ socket' = socket
    BY <1>4 DEF Crash, Exit, End
  <2> QED
    BY <2>1 DEF SeenTypes, Ages, Bound
<1>5. ASSUME NEW c \in Clients, Handle(c)
      PROVE  Ages /\ daemon' \in [Incarnations -> {"off", "removing", "binding", "serving", "deaf", "dead"}]
  <2>1. daemon' = daemon /\ socket' = socket
    BY <1>5, Zenon DEF Handle, Dispatch, WriteResponse, Quiet, DispatchInfo, DispatchPresencePeers, DispatchTaskSend,
         DispatchTaskStatus, DispatchTaskDelegate, DispatchBroadcast, RefuseToAll, DispatchStorageFetch,
         DispatchTaskHistoryList, DispatchTaskHistoryGet, DispatchShutdown
  <2> QED
    BY <2>1 DEF SeenTypes, Ages, Bound
<1> QED
  BY <1>1, <1>2, <1>3, <1>4, <1>5 DEF DaemonNext

\* What has gone stays away.
LEMMA GoneIsKept ==
    ASSUME SeenTypes, Ages, NEW c \in Clients, seen[c] # 0 => Bound(seen[c]), Gone(c), seen'[c] = seen[c]
    PROVE  Gone(c)'
<1>1. PICK s \in Incarnations : s = seen[c]
  BY DEF Gone, SeenTypes
<1>2. s # 0 /\ Bound(s) /\ ~(socket = s /\ Alive(s))
  BY <1>1 DEF Gone
<1>3. ASSUME socket' = s, daemon'[s] \in {"removing", "binding", "serving", "deaf"} PROVE FALSE
  <2>1. daemon[s] # "binding" /\ daemon[s] # "dead"
    BY <1>2, <1>3 DEF Bound, Ages
  <2>2. socket = s
    BY <1>2, <1>3, <2>1 DEF Ages
  <2> QED
    BY <1>2, <2>1, <2>2 DEF Bound, Alive
<1> QED
  BY <1>1, <1>2, <1>3 DEF Gone, Alive

LEMMA AstrayOfDaemon ==
    ASSUME CliTypes, AstrayInv, DaemonNext, UNCHANGED cliVars, \A c \in Clients : Once(c)
    PROVE  AstrayInv'
<1>0. cmd' = cmd /\ pc' = pc /\ net' = net /\ seen' = seen /\ SeenTypes
  BY DEF cliVars, AstrayInv
<1>1. Ages /\ daemon' \in [Incarnations -> {"off", "removing", "binding", "serving", "deaf", "dead"}]
  BY <1>0, DaemonAges
<1>2. SeenTypes'
  BY <1>0, <1>1 DEF SeenTypes, Ages, Bound
<1>3. ASSUME NEW c \in Clients PROVE Astray(c)'
  <2>1. Astray(c) /\ Once(c) /\ seen'[c] = seen[c] /\ seen[c] \in {0} \cup Incarnations
    BY <1>0 DEF AstrayInv, SeenTypes
  <2>2. Gone(c) => Gone(c)'
    BY <1>0, <1>1, <2>1, GoneIsKept DEF Astray
  <2>3. seen'[c] # 0 => Bound(seen[c])'
    BY <1>0, <1>1, <2>1 DEF Astray, Ages, Bound
  <2>4. sent'[c] = <<"placeholder">> => sent[c] = <<"placeholder">>
    <3>1. Same(c) \/ DaemonStep(c)
      BY DaemonKind
    <3>2. CASE sent'[c] = sent[c]
      BY <3>2
    <3>3. CASE Performs(c)
      <4>1. conn[c].at = "sent" /\ (sent'[c] = sent[c] \/ sent'[c] = <<"daemon">> \o sent[c])
        BY <3>3 DEF Performs
      <4>2. pc[c] = "waiting"
        <5>1. Closed.at # "sent"
          BY DEF Closed
        <5>2. pc[c] # "waiting" => conn[c] = Closed
          BY <2>1, Zenon DEF Once
        <5> QED
          BY <4>1, <5>1, <5>2, Zenon
      <4>3. sent[c] = <<>>
        BY <2>1, <4>1, <4>2 DEF Once, Served
      <4> QED
        BY <4>1, <4>3, NobodyHears, Zenon
    <3> QED
      BY <3>1, <3>2, <3>3, Zenon DEF Same, DaemonStep, Writes, Breaks
  <2> QED
    BY <1>0, <2>1, <2>2, <2>3, <2>4, Zenon DEF Astray
<1> QED
  BY <1>2, <1>3 DEF AstrayInv

\* Of a command: it finds a daemon, turns to its own node, publishes there, or does none of these.
Looks(c) == Probe /\ seen'[c] = socket /\ sent'[c] = sent[c] /\ pc[c] \in {"idle", "connect"} /\ pc'[c] # "local"
Settled(c) == seen'[c] = seen[c] /\ net'[c] = net[c] /\ cmd'[c] = cmd[c]
Turns(c) == Settled(c) /\ sent'[c] = sent[c] /\ (Routed(c) => ~Probe)
Hands(c) ==
    /\ Settled(c) /\ pc[c] = "local" /\ cmd[c] \in Senders /\ pc'[c] # "local"
    /\ sent'[c] = <<net[c]>> \o sent[c]
Passes(c) == seen'[c] = seen[c] /\ sent'[c] = sent[c] /\ pc'[c] # "local" /\ net'[c] \in {net[c], "real"}
Rests(c) == Settled(c) /\ sent'[c] = sent[c] /\ pc'[c] = pc[c]

LEMMA AstrayIsKept ==
    ASSUME SeenTypes, daemon' = daemon, socket' = socket, NEW c \in Clients, Astray(c), Once(c),
           Looks(c) \/ Turns(c) \/ Hands(c) \/ Passes(c) \/ Rests(c)
    PROVE  Astray(c)'
<1>1. ASSUME seen'[c] = seen[c] PROVE (Gone(c) => Gone(c)') /\ (seen'[c] # 0 => Bound(seen[c])')
  BY <1>1, Zenon DEF Gone, Alive, Bound, Astray
<1>2. CASE Looks(c)
  <2>1. sent[c] = <<>> /\ seen'[c] # 0 /\ pc'[c] # "local" /\ sent'[c] = sent[c]
    BY <1>2 DEF Looks, Once, Probe
  <2>2. Bound(seen[c])'
    BY <1>2, Zenon DEF Looks, SeenTypes, Bound, Probe
  <2> QED
    BY <2>1, <2>2, NobodyHears, Zenon DEF Astray
<1>3. CASE Turns(c)
  <2>1. ASSUME net[c] = "placeholder", cmd[c] \in Senders PROVE Gone(c)
    <3>1. ~Probe /\ seen[c] # 0
      BY <1>3, <2>1, SenderRequests DEF Turns, Routed, Astray
    <3> QED
      BY <3>1 DEF Probe, Gone
  <2> QED
    BY <1>1, <1>3, <2>1, Zenon DEF Turns, Settled, Astray
<1>4. CASE Hands(c)
  <2>1. sent[c] = <<>>
    BY <1>4 DEF Hands, Once
  <2>2. ASSUME sent'[c] = <<"placeholder">> PROVE Gone(c)
    <3>1. net[c] = "placeholder"
      BY <1>4, <2>1, <2>2, NobodyHears, Zenon DEF Hands
    <3> QED
      BY <1>4, <3>1 DEF Hands, Astray
  <2> QED
    BY <1>1, <1>4, <2>2, Zenon DEF Hands, Settled, Astray
<1>5. CASE Passes(c)
  <2>1. net'[c] = "placeholder" => net[c] = "placeholder"
    BY <1>5 DEF Passes
  <2> QED
    BY <1>1, <1>5, <2>1, Zenon DEF Passes, Astray
<1>6. CASE Rests(c)
  BY <1>1, <1>6, Zenon DEF Rests, Settled, Astray
<1> QED
  BY <1>2, <1>3, <1>4, <1>5, <1>6

\* What a step of a command does to what main set up.
Moves(d) ==
    /\ daemon' = daemon /\ socket' = socket /\ seen' \in [Clients -> {0} \cup Incarnations]
    /\ \A c \in Clients : c # d => seen'[c] = seen[c] /\ net'[c] = net[c]
    /\ Looks(d) \/ Turns(d) \/ Hands(d) \/ Passes(d)

\* A step that leaves what main set up, and sent, alone and does not turn to the node.
LEMMA PassesStep ==
    ASSUME CliTypes, SeenTypes, NEW d \in Clients, NEW p, p # "local", pc' = [pc EXCEPT ![d] = p],
           UNCHANGED <<daemon, socket, sent, net, seen>>
    PROVE  Moves(d)
BY DEF CliTypes, SeenTypes, Moves, Passes

LEMMA MainMoves ==
    ASSUME CliTypes, SeenTypes, NEW d \in Clients, Main(d)
    PROVE  Moves(d)
<1>1. PICK k \in Invokes[d] : MainEarly(d, k) \/ MainPlaceholder(d, k) \/ MainBuild(d, k)
  BY Zenon DEF Main
<1>2. pc[d] = "idle" /\ daemon' = daemon /\ sent' = sent /\ socket' = socket
  BY DEF Main, daemonVars
<1>3. CASE MainEarly(d, k)
  BY <1>2, <1>3, PassesStep DEF MainEarly, Goto
<1>4. CASE MainPlaceholder(d, k)
  <2>1. /\ Probe /\ seen' = [seen EXCEPT ![d] = socket] /\ net' = [net EXCEPT ![d] = "placeholder"]
        /\ pc' = [pc EXCEPT ![d] = "handler"]
    BY <1>4 DEF MainPlaceholder, Goto
  <2> QED
    BY <1>2, <2>1 DEF CliTypes, SeenTypes, Moves, Looks
<1>5. CASE MainBuild(d, k)
  <2>1. CASE net' = [net EXCEPT ![d] = "real"] /\ Goto(d, "storage")
    <3>1. seen' = seen /\ pc' = [pc EXCEPT ![d] = "storage"]
      BY <1>5, <2>1 DEF MainBuild, Goto
    <3> QED
      BY <1>2, <2>1, <3>1 DEF CliTypes, SeenTypes, Moves, Passes
  <2>2. CASE UNCHANGED net /\ Finish(d, "failed")
    BY <1>2, <1>5, <2>2, PassesStep DEF MainBuild, Finish
  <2> QED
    BY <1>5, <2>1, <2>2, Zenon DEF MainBuild, BuildTransport
<1> QED
  BY <1>1, <1>3, <1>4, <1>5

LEMMA SendMoves ==
    ASSUME CliTypes, SeenTypes, NEW d \in Clients, Send(d)
    PROVE  Moves(d)
<1>0. pc[d] = "connect" /\ UNCHANGED <<daemon, socket, sent, net>>
  BY DEF Send
<1>1. CASE Probe /\ seen' = [seen EXCEPT ![d] = socket] /\ Goto(d, "waiting")
  <2>1. pc' = [pc EXCEPT ![d] = "waiting"]
    BY <1>1 DEF Goto
  <2> QED
    BY <1>0, <1>1, <2>1 DEF CliTypes, SeenTypes, Moves, Looks
<1>2. CASE Finish(d, "failed") /\ UNCHANGED <<conn, seen>>
  BY <1>0, <1>2, PassesStep DEF Finish
<1> QED
  BY <1>1, <1>2 DEF Send

LEMMA HandsStep ==
    ASSUME CliTypes, SeenTypes, NEW d \in Clients, NEW r, Publish(d, net[d]), Finish(d, r), Local(d, Senders),
           UNCHANGED <<daemon, socket, exiting, conn, cmd, net, seen>>
    PROVE  Moves(d)
<1>1. sent'[d] = <<net[d]>> \o sent[d]
  <2>1. net[d] \in {"daemon", "none", "placeholder", "real"}
    BY DEF CliTypes
  <2> QED
    BY <2>1, PublishStep, Zenon
<1>2. pc'[d] = "done"
  BY DEF CliTypes, Finish
<1>3. Hands(d)
  BY <1>1, <1>2 DEF Hands, Settled, Local
<1> QED
  BY <1>3 DEF Moves, SeenTypes

\* A command on its own node publishes only if it is one of Senders.
LEMMA LocalMoves ==
    ASSUME CliTypes, SeenTypes, NEW d \in Clients, LocalStep(d)
    PROVE  Moves(d)
<1>1. ASSUME NEW rs, Ends(d, rs) PROVE Moves(d)
  BY <1>1, PassesStep DEF Ends, Finish, daemonVars
<1>2. ASSUME Goto(d, "watching"), UNCHANGED <<daemonVars, cmd, net, seen>> PROVE Moves(d)
  BY <1>2, PassesStep DEF Goto, daemonVars
<1>3. ASSUME UNCHANGED sent, UNCHANGED <<daemon, socket, exiting, conn, cmd, net, seen>>, NEW r, Finish(d, r)
      PROVE  Moves(d)
  BY <1>3, PassesStep DEF Finish
<1>4. CASE LocalSend(d) \/ LocalDelegateTo(d)
  <2>1. Local(d, Senders) /\ SendOrReport(d)
    BY <1>4 DEF LocalSend, LocalDelegateTo, Local, Senders
  <2> QED
    BY <1>3, <2>1, HandsStep, Zenon DEF SendOrReport, MayPublish
<1>5. CASE LocalDelegate(d)
  <2>1. Local(d, Senders)
    BY <1>5 DEF LocalDelegate, Local, Senders
  <2> QED
    BY <1>3, <1>5, <2>1, HandsStep, Zenon DEF LocalDelegate, MayPublish, NoPeers
<1>6. CASE LocalBroadcast(d)
  <2>1. Local(d, Senders)
    BY <1>6 DEF LocalBroadcast, Local, Senders
  <2> QED
    BY <1>3, <1>6, <2>1, HandsStep, Zenon DEF LocalBroadcast, MayPublish, NoPeers
<1>7. ASSUME \/ BuildNodeFails(d) \/ LocalStatus(d) \/ LocalStream(d) \/ LocalAnnounce(d) \/ LocalDiscover(d)
             \/ LocalPeers(d) \/ HistoryNeedsDaemon(d) \/ FetchNeedsDaemon(d) \/ NotRunning(d) \/ NothingToStop(d)
      PROVE  Moves(d)
  BY <1>1, <1>2, <1>7, Zenon DEF BuildNodeFails, LocalStatus, LocalStream, LocalAnnounce, LocalDiscover, LocalPeers,
       HistoryNeedsDaemon, FetchNeedsDaemon, NotRunning, NothingToStop
<1>8. ASSUME \/ PrintViaEphemeral(d) \/ SessionHandle(d) \/ MetricsHandle(d) \/ HealthHandle(d)
             \/ CompletionHandle(d) \/ AgentDiscover(d) \/ AgentBundle(d)
      PROVE  Moves(d)
  BY <1>1, <1>8, Zenon DEF PrintViaEphemeral, SessionHandle, MetricsHandle, HealthHandle, CompletionHandle,
       AgentDiscover, AgentBundle
<1> QED
  BY <1>4, <1>5, <1>6, <1>7, <1>8, Zenon DEF LocalStep

LEMMA StepMoves ==
    ASSUME CliTypes, SeenTypes, NEW d \in Clients, Step(d)
    PROVE  Moves(d)
<1>1. CASE BuildStorage(d)
  BY <1>1, PassesStep DEF BuildStorage, Goto, Finish, daemonVars
<1>2. CASE TryViaDaemon(d)
  <2>1. UNCHANGED <<daemon, socket, sent, cmd, net, seen>>
    BY <1>2 DEF TryViaDaemon, daemonVars
  <2>2. CASE Routed(d) /\ Probe
    BY <1>2, <2>1, <2>2, PassesStep DEF TryViaDaemon, Goto
  <2>3. CASE ~(Routed(d) /\ Probe)
    BY <2>1, <2>3 DEF Moves, Turns, Settled, SeenTypes
  <2> QED
    BY <2>2, <2>3
<1>3. CASE PrintAnswer(d)
  <2>1. \E r : Finish(d, r)
    BY <1>3, Zenon DEF PrintAnswer, PrintDaemonResponse, PrintHistory, PrintPeers, PrintInfo, PrintStatus, PrintStopped,
         PrintFetched, Prints
  <2>2. UNCHANGED <<daemon, socket, exiting, sent, cmd, net, seen>>
    BY <1>3, Zenon DEF PrintAnswer, PrintDaemonResponse, PrintHistory, PrintPeers, PrintInfo, PrintStatus, PrintStopped,
         PrintFetched, Prints
  <2> QED
    BY <2>1, <2>2, PassesStep DEF Finish
<1> QED
  BY <1>1, <1>2, <1>3, SendMoves, LocalMoves DEF Step

LEMMA AstrayStep ==
    ASSUME CliInv, AstrayInv, [Next]_vars
    PROVE  AstrayInv'
<1>0. CliTypes /\ SeenTypes /\ \A c \in Clients : Once(c) /\ Astray(c)
  BY DEF CliInv, AstrayInv
<1>1. CASE DaemonNext /\ UNCHANGED cliVars
  BY <1>0, <1>1, AstrayOfDaemon
<1>2. ASSUME NEW d \in Clients, Main(d) \/ Step(d)
      PROVE  AstrayInv'
  <2>1. Moves(d)
    BY <1>0, <1>2, MainMoves, StepMoves
  <2>2. \A c \in Clients : c # d => Same(c)
    BY <1>0, <1>2, MainKind, StepKind DEF Touches
  <2>3. ASSUME NEW c \in Clients PROVE Astray(c)'
    <3>1. CASE c = d
      BY <1>0, <2>1, <3>1, AstrayIsKept, Zenon DEF Moves
    <3>2. CASE c # d
      <4>1. Rests(c) /\ daemon' = daemon /\ socket' = socket
        BY <2>1, <2>2, <3>2, Zenon DEF Moves, Same, Rests, Settled
      <4> QED
        BY <1>0, <4>1, AstrayIsKept, Zenon
    <3> QED
      BY <3>1, <3>2
  <2>4. SeenTypes'
    BY <1>0, <2>1 DEF Moves, SeenTypes, Bound
  <2> QED
    BY <2>3, <2>4 DEF AstrayInv
<1>3. CASE UNCHANGED vars
  <2>1. UNCHANGED <<daemon, socket, sent, cmd, pc, net, seen>>
    BY <1>3 DEF vars, cliVars, daemonVars
  <2>2. SeenTypes'
    BY <1>0, <2>1 DEF SeenTypes, Bound
  <2>3. ASSUME NEW c \in Clients PROVE Astray(c)'
    <3>1. Rests(c)
      BY <2>1, Zenon DEF Rests, Settled
    <3> QED
      BY <1>0, <2>1, <3>1, AstrayIsKept, Zenon
  <2> QED
    BY <2>2, <2>3 DEF AstrayInv
<1> QED
  BY <1>1, <1>2, <1>3 DEF Next

LEMMA NoTask == Len(<<>>) <= 1
OBVIOUS

\* For any number of commands and incarnations of the daemon: a command publishes its task at most
\* once, exactly once when it reports success but for a broadcast, and on the placeholder of main.rs
\* only when the daemon that main found has gone.
THEOREM TaskIsSentOnceHolds == Spec => []TaskIsSentOnce
<1>1. Init => CliInv
  <2>1. ASSUME Init PROVE CliTypes
    BY <2>1 DEF Init, DaemonInit, CliTypes, Conn, Closed, Phases
  <2>2. ASSUME Init, NEW c \in Clients PROVE Once(c)
    <3>1. pc[c] = "idle" /\ conn[c] = Closed /\ sent[c] = <<>> /\ result[c] = "none"
      BY <2>2, Zenon DEF Init, DaemonInit
    <3> QED
      BY <3>1, NoTask, Zenon DEF Once
  <2> QED
    BY <2>1, <2>2 DEF CliInv
<1>2. Init => AstrayInv
  <2>1. ASSUME Init PROVE SeenTypes
    BY <2>1 DEF Init, DaemonInit, SeenTypes
  <2>2. ASSUME Init, NEW c \in Clients PROVE Astray(c)
    <3>1. pc[c] = "idle" /\ sent[c] = <<>> /\ seen[c] = 0 /\ net[c] = "none"
      BY <2>2, Zenon DEF Init, DaemonInit
    <3> QED
      BY <3>1, NobodyHears DEF Astray
  <2> QED
    BY <2>1, <2>2 DEF AstrayInv
<1>3. CliInv /\ [Next]_vars => CliInv'
  BY CliStep
<1>4. CliInv /\ AstrayInv /\ [Next]_vars => AstrayInv'
  BY AstrayStep
<1>5. CliInv /\ AstrayInv => TaskIsSentOnce
  <2>1. ASSUME CliInv, AstrayInv, NEW c \in Clients
        PROVE  /\ Len(sent[c]) <= 1
               /\ cmd[c] \in Sure /\ result[c] = "ok" => Len(sent[c]) = 1
               /\ sent[c] = <<"placeholder">> => Gone(c)
    BY <2>1 DEF CliInv, AstrayInv, Astray, Once
  <2> QED
    BY <2>1 DEF TaskIsSentOnce, Sure
<1> QED
  BY <1>1, <1>2, <1>3, <1>4, <1>5, PTL DEF Spec

-------------------------------------------------------------------------------
(* The storage backends *)

LOCAL INSTANCE SequenceTheorems

StorageSpec == StorageInit /\ [][StorageNext]_storageVars

\* The first n chunks of a blob, and those from k to n.
Upto(b, n) == [i \in 1 .. n |-> <<b, i>>]
Between(b, k, n) == [i \in 1 .. n - k |-> <<b, k + i>>]

\* A done event of an upload carries its content, or an error.
OwnDone(w) == doneRx[w] \in Seq({Data(Blob(w)), Missing})

\* What a download of the host has, and what its channels hold: the chunks the node has emitted.
Collects(w) ==
    /\ feed[w] \in 0 .. Chunks
    /\ w \in due => doneRx[w] = <<>>
    /\ doneRx[w] # <<>> => feed[w] = Chunks
    /\ w \in due \/ doneRx[w] # <<>> =>
           \E k \in 0 .. feed[w] : out[w] = Upto(Blob(w), k) /\ chunkRx[w] = Between(Blob(w), k, feed[w])

Fresh(w) ==
    /\ w \notin due /\ feed[w] = 0
    /\ out[w] = <<>> /\ chunkRx[w] = <<>> /\ doneRx[w] = <<>>
    /\ handed[w] = [next |-> 1, held |-> <<>>]

\* An operation that met no hazard: what it has so far is right.
OpRight(w) ==
    /\ at[w] \in {"idle", "init", "fetch"} => Fresh(w)
    /\ at[w] = "chunk" =>
           /\ w \notin due /\ doneRx[w] = <<>>
           /\ handed[w].next \in 1 .. Chunks + 1 /\ handed[w].held = Upto(Blob(w), handed[w].next - 1)
    /\ at[w] = "await" => job[w].what = "upload" /\ handed[w].held = Data(Blob(w)) /\ OwnDone(w)
    /\ at[w] = "read" => backend = "libstorage" /\ job[w].what = "download" /\ scratch[Blob(w)] = Data(Blob(w))
    /\ at[w] = "collect" => job[w].what = "download" /\ Collects(w)
    /\ at[w] \in {"remove", "done"} => out[w] = Data(Blob(w))

\* And nothing else can come between it and its node.
Alone(w) == Busy(w) => \A v \in Workers : ~Clash(w, v)

StorageTypes ==
    /\ backend \in {"rest", "libstorage", "module", "core"}
    /\ job \in [Workers -> [what : {"upload", "download"}, blob : Blobs]]
    /\ DOMAIN at = Workers /\ at = [w \in Workers |-> at[w]]
    /\ handed = [w \in Workers |-> handed[w]] /\ out = [w \in Workers |-> out[w]]
    /\ scratch = [b \in Blobs |-> scratch[b]] /\ feed = [w \in Workers |-> feed[w]]
    /\ chunkRx = [w \in Workers |-> chunkRx[w]] /\ doneRx = [w \in Workers |-> doneRx[w]]
    /\ due \subseteq Workers

StorageInv == StorageTypes /\ \A w \in Workers \ excused : OpRight(w) /\ Alone(w)

-------------------------------------------------------------------------------
(* Chunks *)

LEMMA AppendStays ==
    ASSUME NEW S, NEW s \in Seq(S), NEW v \in S
    PROVE  Append(s, v) \in Seq(S)
OBVIOUS

\* The arithmetic of chunks: of an upload that is handed over, and of a download that is fed.
LEMMA HandedNumbers ==
    ASSUME NEW n \in 1 .. Chunks + 1
    PROVE  /\ n <= Chunks => /\ n \in 1 .. Chunks /\ n + 1 \in 1 .. Chunks + 1
                             /\ n - 1 \in Nat /\ n - 1 + 1 = n /\ n + 1 - 1 = n
           /\ n > Chunks => n - 1 = Chunks
BY StorageAssumption

LEMMA FeedNumbers ==
    ASSUME NEW n \in 0 .. Chunks
    PROVE  /\ n \in Nat /\ \A k \in 0 .. n : k \in Nat /\ k \in 0 .. n + 1
           /\ n < Chunks => n + 1 \in 0 .. Chunks
           /\ ~(n < Chunks) => n = Chunks
BY StorageAssumption

LEMMA HeadLemma == ASSUME NEW S, NEW s \in Seq(S), s # <<>> PROVE Head(s) \in S
OBVIOUS

LEMMA NothingYet == ASSUME NEW S PROVE <<>> \in Seq(S)
OBVIOUS

\* The other arguments of a function that changes at one.
LEMMA Elsewhere ==
    ASSUME NEW B, NEW f, f = [b \in B |-> f[b]], NEW a, NEW c \in B, a # c, NEW x
    PROVE  [f EXCEPT ![a] = x][c] = f[c]
OBVIOUS

LEMMA NoChunks == ASSUME NEW b PROVE Upto(b, 0) = <<>> /\ Between(b, 0, 0) = <<>>
BY DEF Upto, Between

LEMMA UptoLemma ==
    ASSUME NEW b, NEW n \in Nat
    PROVE  /\ Upto(b, 0) = <<>>
           /\ Append(Upto(b, n), <<b, n + 1>>) = Upto(b, n + 1)
           /\ Upto(b, n) \in Seq({<<b, i>> : i \in Nat}) /\ Len(Upto(b, n)) = n
<1>1. Upto(b, 0) = <<>>
  BY DEF Upto
<1>2. Upto(b, n) \in Seq({<<b, i>> : i \in Nat}) /\ Len(Upto(b, n)) = n
  BY DEF Upto
<1>3. Append(Upto(b, n), <<b, n + 1>>) = Upto(b, n + 1)
  BY <1>2 DEF Upto
<1> QED
  BY <1>1, <1>2, <1>3

LEMMA BetweenLemma ==
    ASSUME NEW b, NEW n \in Nat, NEW k \in 0 .. n
    PROVE  /\ Between(b, n, n) = <<>>
           /\ Append(Between(b, k, n), <<b, n + 1>>) = Between(b, k, n + 1)
           /\ Between(b, k, n) = <<>> => k = n
           /\ Between(b, k, n) # <<>> =>
                  k + 1 \in 0 .. n /\ Head(Between(b, k, n)) = <<b, k + 1>> /\ Tail(Between(b, k, n)) = Between(b, k + 1, n)
<1>0. Between(b, k, n) \in Seq({<<b, i>> : i \in Nat}) /\ Len(Between(b, k, n)) = n - k
  BY DEF Between
<1>1. Between(b, n, n) = <<>>
  BY DEF Between
<1>2. Append(Between(b, k, n), <<b, n + 1>>) = Between(b, k, n + 1)
  BY <1>0 DEF Between
<1>3. Between(b, k, n) = <<>> => k = n
  BY <1>0
<1>4. ASSUME Between(b, k, n) # <<>>
      PROVE  k + 1 \in 0 .. n /\ Head(Between(b, k, n)) = <<b, k + 1>> /\ Tail(Between(b, k, n)) = Between(b, k + 1, n)
  <2>1. k < n
    BY <1>1, <1>4
  <2>2. Head(Between(b, k, n)) = <<b, k + 1>>
    BY <2>1, <1>0 DEF Between
  <2>3. PICK t : t = Between(b, k, n)
    OBVIOUS
  <2>4. t \in Seq({<<b, i>> : i \in Nat}) /\ t # <<>> /\ Len(t) = n - k
    BY <1>0, <1>4, <2>3
  <2>5. Tail(t) \in Seq({<<b, i>> : i \in Nat}) /\ Len(Tail(t)) = n - k - 1 /\ \A i \in 1 .. n - k - 1 : Tail(t)[i] = t[i + 1]
    BY <2>4, HeadTailProperties
  <2>6. ASSUME NEW i \in 1 .. n - k - 1 PROVE t[i + 1] = <<b, k + 1 + i>>
    BY <2>1, <2>3 DEF Between
  <2>7. Tail(t) = Between(b, k + 1, n)
    <3>1. PICK u : u = Between(b, k + 1, n)
      OBVIOUS
    <3>2. u \in Seq({<<b, i>> : i \in Nat}) /\ Len(u) = n - k - 1
      BY <2>1, <3>1 DEF Between
    <3>3. ASSUME NEW i \in 1 .. n - k - 1 PROVE u[i] = <<b, k + 1 + i>>
      BY <3>1 DEF Between
    <3> QED
      BY <2>5, <2>6, <3>1, <3>2, <3>3, SeqEqual, Zenon
  <2> QED
    BY <2>1, <2>2, <2>3, <2>7
<1> QED
  BY <1>1, <1>2, <1>3, <1>4

-------------------------------------------------------------------------------
(* What one operation does to the others *)

\* A function of the workers changes for one of them only.
Only(f, g, u) == g = [w \in Workers |-> g[w]] /\ \A w \in Workers : w # u => g[w] = f[w]

LEMMA OnlyHere ==
    ASSUME NEW u \in Workers, NEW f, f = [w \in Workers |-> f[w]],
           NEW g, g = f \/ \E v : g = [f EXCEPT ![u] = v]
    PROVE  Only(f, g, u)
BY DEF Only

Untouched(w) ==
    /\ at'[w] = at[w] /\ handed'[w] = handed[w] /\ out'[w] = out[w]
    /\ feed'[w] = feed[w] /\ chunkRx'[w] = chunkRx[w] /\ doneRx'[w] = doneRx[w]
    /\ w \in due' <=> w \in due
    /\ at[w] = "read" => scratch'[Blob(w)] = scratch[Blob(w)]

\* No operation begins, and what the node is asked to do is for one under way.
NoneBegins == \A v \in Workers : (Busy(v)' => Busy(v)) /\ (v \in due' => v \in due \/ Busy(v))

StepOf(u) ==
    /\ StorageTypes' /\ backend' = backend /\ job' = job /\ excused \subseteq excused' /\ NoneBegins
    /\ \A w \in Workers \ excused' : w # u => Untouched(w)
    /\ u \notin excused' => OpRight(u)'

LEMMA UntouchedRight ==
    ASSUME NEW w, OpRight(w), Untouched(w), backend' = backend, job' = job
    PROVE  OpRight(w)'
<1>1. /\ at'[w] = at[w] /\ handed'[w] = handed[w] /\ out'[w] = out[w]
      /\ feed'[w] = feed[w] /\ chunkRx'[w] = chunkRx[w] /\ doneRx'[w] = doneRx[w]
      /\ w \in due' <=> w \in due
      /\ at[w] = "read" => scratch'[Blob(w)] = scratch[Blob(w)]
      /\ job'[w] = job[w]
  BY Zenon DEF Untouched
<1>2. Blob(w)' = Blob(w)
  BY DEF Blob
<1>3. Fresh(w) => Fresh(w)'
  BY <1>1, Zenon DEF Fresh
<1>4. Collects(w) => Collects(w)'
  BY <1>1, <1>2, Zenon DEF Collects
<1>5. OwnDone(w) => OwnDone(w)'
  BY <1>1, <1>2, Zenon DEF OwnDone
<1> QED
  BY <1>1, <1>2, <1>3, <1>4, <1>5, Zenon DEF OpRight

LEMMA StillAlone ==
    ASSUME NEW w \in Workers, Alone(w), NoneBegins, backend' = backend, job' = job
    PROVE  Alone(w)'
<1> SUFFICES ASSUME Busy(w)', NEW v \in Workers, Clash(w, v)' PROVE FALSE
  BY DEF Alone
<1>1. Busy(w) /\ (Busy(v)' => Busy(v)) /\ (v \in due' => v \in due \/ Busy(v))
  BY DEF NoneBegins
<1>2. ~Clash(w, v)
  BY <1>1 DEF Alone
<1> QED
  BY <1>1, <1>2 DEF Clash, Blob

LEMMA StepOfKeeps ==
    ASSUME StorageInv, NEW u \in Workers, StepOf(u)
    PROVE  StorageInv'
<1>1. StorageTypes' /\ backend' = backend /\ job' = job /\ excused \subseteq excused' /\ NoneBegins
  BY DEF StepOf
<1>2. ASSUME NEW w \in Workers \ excused' PROVE OpRight(w)' /\ Alone(w)'
  <2>1. OpRight(w) /\ Alone(w)
    BY <1>1 DEF StorageInv
  <2>2. Alone(w)'
    BY <1>1, <2>1, StillAlone
  <2>3. w # u => Untouched(w)
    BY DEF StepOf
  <2>4. w # u => OpRight(w)'
    BY <1>1, <2>1, <2>3, UntouchedRight
  <2>5. w = u => OpRight(w)'
    BY DEF StepOf
  <2> QED
    BY <2>2, <2>4, <2>5
<1> QED
  BY <1>1, <1>2 DEF StorageInv

\* Of the others, a step of an operation can only reach the file of the same blob.
LEMMA OwnStep ==
    ASSUME StorageInv, NEW u \in Workers, Busy(u), backend' = backend, job' = job, excused \subseteq excused',
           Only(at, at', u), Only(handed, handed', u), Only(out, out', u), Only(feed, feed', u),
           Only(chunkRx, chunkRx', u), Only(doneRx, doneRx', u),
           due' = due \/ due' = due \cup {u} \/ due' = due \ {u},
           \/ scratch' = scratch
           \/ /\ backend = "libstorage" /\ job[u].what = "download"
              /\ \E x : scratch' = [scratch EXCEPT ![Blob(u)] = x],
           u \notin excused' => OpRight(u)'
    PROVE  StorageInv'
<1>1. StorageTypes'
  <2>1. scratch = [b \in Blobs |-> scratch[b]] => scratch' = [b \in Blobs |-> scratch'[b]]
    OBVIOUS
  <2>2. DOMAIN at' = Workers
    BY DEF Only
  <2> QED
    BY <2>1, <2>2, Zenon DEF StorageInv, StorageTypes, Only
<1>2. NoneBegins
  <2>1. ASSUME NEW v \in Workers, Busy(v)' PROVE Busy(v)
    BY <2>1 DEF Busy, Only
  <2> QED
    BY <2>1, Zenon DEF NoneBegins
<1>3. ASSUME NEW w \in Workers \ excused', w # u PROVE Untouched(w)
  <2>1. at[w] = "read" => scratch'[Blob(w)] = scratch[Blob(w)]
    <3> SUFFICES ASSUME at[w] = "read", NEW x, scratch' = [scratch EXCEPT ![Blob(u)] = x],
                        backend = "libstorage", job[u].what = "download"
                 PROVE  scratch'[Blob(w)] = scratch[Blob(w)]
      BY Zenon
    <3>1. OpRight(w) /\ Alone(w)
      BY Zenon DEF StorageInv
    <3>2. job[w].what = "download" /\ Busy(w)
      BY <3>1, Zenon DEF OpRight, Busy
    <3>3. Blob(w) # Blob(u)
      BY <1>3, <3>1, <3>2, Zenon DEF Alone, Clash
    <3>4. Blob(w) \in Blobs
      BY DEF StorageInv, StorageTypes, Blob
    <3>5. scratch = [b \in Blobs |-> scratch[b]]
      BY Zenon DEF StorageInv, StorageTypes
    <3> QED
      BY <3>3, <3>4, <3>5, Elsewhere, Zenon
  <2> QED
    BY <1>3, <2>1 DEF Untouched, Only
<1> QED
  BY <1>1, <1>2, <1>3, StepOfKeeps, Zenon DEF StepOf

LEMMA Ended ==
    ASSUME NEW u, job' = job, at'[u] = "error" \/ (at'[u] = "done" /\ out'[u] = Data(Blob(u)))
    PROVE  OpRight(u)'
BY Zenon DEF OpRight, Blob

\* A function of the workers is left alone or updated at one of them.
At(f, g, u) == g = f \/ \E v : g = [f EXCEPT ![u] = v]

\* The operations themselves do nothing to the events; their answers come from the node.
LEMMA PlainStep ==
    ASSUME StorageInv, NEW u \in Workers, Busy(u), backend' = backend, job' = job, excused \subseteq excused',
           At(at, at', u), At(handed, handed', u), At(out, out', u), At(chunkRx, chunkRx', u), At(doneRx, doneRx', u),
           feed' = feed, due' = due \/ due' = due \cup {u},
           \/ scratch' = scratch
           \/ /\ backend = "libstorage" /\ job[u].what = "download"
              /\ \E x : scratch' = [scratch EXCEPT ![Blob(u)] = x],
           u \notin excused' => OpRight(u)'
    PROVE  StorageInv'
<1>1. /\ at = [w \in Workers |-> at[w]] /\ handed = [w \in Workers |-> handed[w]] /\ out = [w \in Workers |-> out[w]]
      /\ feed = [w \in Workers |-> feed[w]]
      /\ chunkRx = [w \in Workers |-> chunkRx[w]] /\ doneRx = [w \in Workers |-> doneRx[w]]
  BY DEF StorageInv, StorageTypes
<1>2. Only(at, at', u) /\ Only(handed, handed', u)
  BY <1>1, OnlyHere, Zenon DEF At
<1>3. Only(out, out', u) /\ Only(feed, feed', u)
  BY <1>1, OnlyHere, Zenon DEF At
<1>4. Only(chunkRx, chunkRx', u) /\ Only(doneRx, doneRx', u)
  BY <1>1, OnlyHere, Zenon DEF At
<1> QED
  BY <1>2, <1>3, <1>4, OwnStep, Zenon

LEMMA UploadStep ==
    ASSUME StorageInv, NEW u \in Workers, Upload(u) \/ RestDownload(u)
    PROVE  StorageInv'
<1>1. /\ at[u] \in {"send", "fetch"}
      /\ Yield(u, Data(Blob(u))) \/ (Fail(u) /\ UNCHANGED out)
      /\ UNCHANGED <<backend, embedded, job, handed, scratch, coreVars, excused>>
  BY Zenon DEF Upload, RestDownload, Is
<1>2. at = [w \in Workers |-> at[w]] /\ out = [w \in Workers |-> out[w]]
  BY DEF StorageInv, StorageTypes
<1>3. At(at, at', u) /\ At(out, out', u) /\ OpRight(u)'
  <2>1. CASE Yield(u, Data(Blob(u)))
    <3>1. at' = [at EXCEPT ![u] = "done"] /\ out' = [out EXCEPT ![u] = Data(Blob(u))]
      BY <2>1 DEF Yield, MoveTo
    <3>2. at'[u] = "done" /\ out'[u] = Data(Blob(u))
      BY <1>2, <3>1
    <3> QED
      BY <1>1, <3>1, <3>2, Ended, Zenon DEF At
  <2>2. CASE Fail(u) /\ UNCHANGED out
    <3>1. at' = [at EXCEPT ![u] = "error"]
      BY <2>2 DEF Fail, MoveTo
    <3>2. at'[u] = "error"
      BY <1>2, <3>1
    <3> QED
      BY <1>1, <2>2, <3>1, <3>2, Ended, Zenon DEF At
  <2> QED
    BY <1>1, <2>1, <2>2
<1>4. Busy(u) /\ At(handed, handed', u) /\ At(chunkRx, chunkRx', u) /\ At(doneRx, doneRx', u)
  BY <1>1 DEF Busy, At, coreVars
<1>5. feed' = feed /\ due' = due
  BY <1>1 DEF coreVars
<1> QED
  BY <1>1, <1>3, <1>4, <1>5, PlainStep, Zenon

LEMMA LibDownloadStep ==
    ASSUME StorageInv, NEW u \in Workers, LibDownload(u)
    PROVE  StorageInv'
<1>0. /\ backend = "libstorage" /\ job[u].what = "download"
      /\ UNCHANGED <<backend, embedded, job, handed, coreVars, excused>>
  BY Zenon DEF LibDownload
<1>1. /\ at = [w \in Workers |-> at[w]] /\ out = [w \in Workers |-> out[w]]
      /\ scratch = [b \in Blobs |-> scratch[b]] /\ Blob(u) \in Blobs
  BY DEF StorageInv, StorageTypes, Blob
<1>2. At(handed, handed', u) /\ At(chunkRx, chunkRx', u) /\ At(doneRx, doneRx', u) /\ feed' = feed /\ due' = due
  BY <1>0 DEF At, coreVars
<1>3. ASSUME NEW l, MoveTo(u, l), out' = out, Busy(u),
             scratch' = scratch \/ \E x : scratch' = [scratch EXCEPT ![Blob(u)] = x],
             u \notin excused' => OpRight(u)'
      PROVE  StorageInv'
  BY <1>0, <1>2, <1>3, PlainStep, Zenon DEF At, MoveTo
<1>4. ASSUME NEW l, MoveTo(u, l) PROVE at'[u] = l
  BY <1>1, <1>4 DEF MoveTo
<1>5. CASE at[u] = "fetch" /\ scratch' = [scratch EXCEPT ![Blob(u)] = <<>>] /\ MoveTo(u, "stream") /\ UNCHANGED out
  <2>1. at'[u] = "stream" /\ Busy(u)
    BY <1>4, <1>5, Zenon DEF Busy
  <2>2. OpRight(u)'
    BY <2>1, Zenon DEF OpRight
  <2> QED
    BY <1>3, <1>5, <2>1, <2>2, Zenon
<1>6. CASE at[u] = "stream" /\ scratch' = [scratch EXCEPT ![Blob(u)] = Data(Blob(u))] /\ MoveTo(u, "read") /\ UNCHANGED out
  <2>1. at'[u] = "read" /\ Busy(u) /\ scratch'[Blob(u)] = Data(Blob(u))
    BY <1>1, <1>4, <1>6 DEF Busy
  <2>2. OpRight(u)'
    BY <1>0, <2>1, Zenon DEF OpRight, Blob
  <2> QED
    BY <1>3, <1>6, <2>1, <2>2, Zenon
<1>7. CASE at[u] \in {"fetch", "stream", "read"} /\ Fail(u) /\ UNCHANGED <<scratch, out>>
  <2>1. MoveTo(u, "error") /\ at'[u] = "error" /\ Busy(u)
    BY <1>4, <1>7 DEF Busy, Fail
  <2>2. OpRight(u)'
    BY <2>1, Zenon DEF OpRight
  <2> QED
    BY <1>3, <1>7, <2>1, <2>2
<1>8. CASE at[u] = "read" /\ out' = [out EXCEPT ![u] = scratch[Blob(u)]] /\ MoveTo(u, "remove") /\ UNCHANGED scratch
  <2>1. at'[u] = "remove" /\ Busy(u) /\ out'[u] = scratch[Blob(u)]
    BY <1>1, <1>4, <1>8 DEF Busy
  <2>2. u \notin excused' => OpRight(u)'
    <3> SUFFICES ASSUME u \notin excused' PROVE OpRight(u)'
      OBVIOUS
    <3>1. OpRight(u)
      BY <1>0, Zenon DEF StorageInv
    <3>2. scratch[Blob(u)] = Data(Blob(u))
      BY <1>8, <3>1, Zenon DEF OpRight
    <3> QED
      BY <1>0, <2>1, <3>2, Zenon DEF OpRight, Blob
  <2>3. At(at, at', u) /\ At(out, out', u)
    BY <1>8, Zenon DEF At, MoveTo
  <2> QED
    BY <1>0, <1>2, <1>8, <2>1, <2>2, <2>3, PlainStep, Zenon
<1>9. CASE at[u] = "remove" /\ scratch' = [scratch EXCEPT ![Blob(u)] = Missing] /\ MoveTo(u, "done") /\ UNCHANGED out
  <2>1. at'[u] = "done" /\ Busy(u)
    BY <1>4, <1>9 DEF Busy
  <2>2. u \notin excused' => OpRight(u)'
    <3> SUFFICES ASSUME u \notin excused' PROVE OpRight(u)'
      OBVIOUS
    <3>1. OpRight(u)
      BY <1>0 DEF StorageInv
    <3>2. out'[u] = Data(Blob(u))
      BY <1>9, <3>1, Zenon DEF OpRight
    <3> QED
      BY <1>0, <2>1, <3>2, Ended, Zenon
  <2> QED
    BY <1>3, <1>9, <2>1, <2>2, Zenon
<1> QED
  BY <1>5, <1>6, <1>7, <1>8, <1>9, Zenon DEF LibDownload

\* What a chunk adds to the session of an upload.
LEMMA SessionStep ==
    ASSUME StorageInv, NEW u \in Workers, at[u] = "chunk", handed[u].next <= Chunks, OpRight(u), Session(u, TRUE)
    PROVE  /\ handed'[u].next \in 1 .. Chunks + 1
           /\ handed'[u].held = Upto(Blob(u), handed'[u].next - 1)
<1>1. PICK n : n = handed[u].next
  BY Zenon
<1>2. n \in 1 .. Chunks /\ handed[u].held = Upto(Blob(u), n - 1)
  <2>1. n \in 1 .. Chunks + 1 /\ n <= Chunks /\ handed[u].held = Upto(Blob(u), n - 1)
    BY <1>1, Zenon DEF OpRight
  <2> QED
    BY <2>1, HandedNumbers, Zenon
<1>3. Data(Blob(u))[n] = <<Blob(u), n>>
  BY <1>2, Zenon DEF Data
<1>4. handed' = [handed EXCEPT ![u] = [next |-> n + 1, held |-> Append(Upto(Blob(u), n - 1), <<Blob(u), n>>)]]
  BY <1>1, <1>2, <1>3, Zenon DEF Session
<1>5. handed = [w \in Workers |-> handed[w]]
  BY DEF StorageInv, StorageTypes
<1>6. handed'[u].next = n + 1 /\ handed'[u].held = Append(Upto(Blob(u), n - 1), <<Blob(u), n>>)
  BY <1>4, <1>5
<1>7. n - 1 \in Nat /\ n - 1 + 1 = n /\ n + 1 - 1 = n /\ n + 1 \in 1 .. Chunks + 1
  <2>1. n \in 1 .. Chunks + 1 /\ n <= Chunks
    BY <1>1, Zenon DEF OpRight
  <2> QED
    BY <2>1, HandedNumbers, Zenon
<1>8. Append(Upto(Blob(u), n - 1), <<Blob(u), n>>) = Upto(Blob(u), n)
  BY <1>7, UptoLemma, Zenon
<1>9. handed'[u].next - 1 = n
  BY <1>6, <1>7
<1> QED
  BY <1>6, <1>7, <1>8, <1>9, Zenon

\* An upload of the module or of the host whose session is open.
LEMMA BeginsSession ==
    ASSUME StorageInv, NEW u \in Workers, at[u] = "init", OpRight(u), at'[u] = "chunk", job' = job,
           UNCHANGED <<handed, coreVars>>
    PROVE  OpRight(u)'
<1>1. Fresh(u)
  BY Zenon DEF OpRight
<1>2. u \notin due' /\ doneRx'[u] = <<>> /\ handed'[u].next = 1 /\ handed'[u].held = <<>>
  <2>1. u \notin due /\ doneRx[u] = <<>> /\ handed[u] = [next |-> 1, held |-> <<>>]
    BY <1>1, Zenon DEF Fresh
  <2>2. due' = due /\ doneRx' = doneRx /\ handed' = handed
    BY DEF coreVars
  <2>3. [next |-> 1, held |-> <<>>].next = 1 /\ [next |-> 1, held |-> <<>>].held = <<>>
    OBVIOUS
  <2> QED
    BY <2>1, <2>2, <2>3, Zenon
<1>3. Upto(Blob(u), 0) = <<>> /\ 1 - 1 = 0 /\ 1 \in 1 .. Chunks + 1
  BY StorageAssumption DEF Upto
<1>4. handed'[u].held = Upto(Blob(u)', handed'[u].next - 1)
  BY <1>2, <1>3, Zenon DEF Blob
<1> QED
  BY <1>2, <1>3, <1>4, Zenon DEF OpRight

LEMMA GrowsSession ==
    ASSUME StorageInv, NEW u \in Workers, at[u] = "chunk", OpRight(u), at'[u] = "chunk", job' = job,
           handed[u].next <= Chunks, Session(u, TRUE), UNCHANGED coreVars
    PROVE  OpRight(u)'
<1>1. handed'[u].next \in 1 .. Chunks + 1 /\ handed'[u].held = Upto(Blob(u), handed'[u].next - 1)
  BY SessionStep, Zenon
<1>2. u \notin due' /\ doneRx'[u] = <<>>
  BY Zenon DEF OpRight, coreVars
<1>3. Blob(u)' = Blob(u)
  BY DEF Blob
<1> QED
  BY <1>1, <1>2, <1>3, Zenon DEF OpRight

LEMMA FullSession ==
    ASSUME NEW u, at[u] = "chunk", OpRight(u), handed[u].next > Chunks
    PROVE  handed[u].held = Data(Blob(u))
<1>1. handed[u].next - 1 = Chunks /\ handed[u].held = Upto(Blob(u), handed[u].next - 1)
  <2>1. PICK n : n = handed[u].next
    BY Zenon
  <2>2. n \in 1 .. Chunks + 1 /\ n > Chunks /\ handed[u].held = Upto(Blob(u), n - 1)
    BY <2>1, Zenon DEF OpRight
  <2> QED
    BY <2>1, <2>2, HandedNumbers, Zenon
<1> QED
  BY <1>1, Zenon DEF Upto, Data

LEMMA ModuleStep ==
    ASSUME StorageInv, NEW u \in Workers, NEW a \in Shapes,
           InitModule(u, a) \/ ChunkModule(u, a) \/ FinalizeModule(u, a) \/ DownloadModule(u, a)
    PROVE  StorageInv'
<1>0. at = [w \in Workers |-> at[w]] /\ out = [w \in Workers |-> out[w]]
  BY DEF StorageInv, StorageTypes
<1>1. ASSUME NEW l, MoveTo(u, l) PROVE at'[u] = l /\ At(at, at', u)
  BY <1>0, <1>1, Zenon DEF MoveTo, At
<1>2. ASSUME NEW v, Yield(u, v) PROVE at'[u] = "done" /\ At(at, at', u) /\ out'[u] = v /\ At(out, out', u)
  BY <1>0, <1>1, <1>2, Zenon DEF Yield, At
<1>3. /\ Busy(u) /\ backend' = backend /\ job' = job /\ excused \subseteq excused' /\ feed' = feed /\ due' = due
      /\ scratch' = scratch /\ At(chunkRx, chunkRx', u) /\ At(doneRx, doneRx', u)
      /\ UNCHANGED coreVars
  <2>1. Busy(u)
    BY Zenon DEF InitModule, ChunkModule, FinalizeModule, DownloadModule, Is, Busy
  <2>2. excused \subseteq excused'
    BY Zenon DEF InitModule, ChunkModule, FinalizeModule, DownloadModule
  <2>3. backend' = backend /\ job' = job /\ scratch' = scratch /\ UNCHANGED coreVars
    BY Zenon DEF InitModule, ChunkModule, FinalizeModule, DownloadModule
  <2> QED
    BY <2>1, <2>2, <2>3 DEF coreVars, At
<1>4. u \notin excused' => OpRight(u)
  BY <1>3 DEF StorageInv
<1>5. ASSUME At(at, at', u), At(handed, handed', u), At(out, out', u), u \notin excused' => OpRight(u)'
      PROVE  StorageInv'
  BY <1>3, <1>5, PlainStep, Zenon
<1>6. ASSUME Fail(u), UNCHANGED <<handed, out>> PROVE StorageInv'
  <2>1. at'[u] = "error" /\ At(at, at', u)
    BY <1>1, <1>6 DEF Fail
  <2>2. OpRight(u)'
    BY <1>3, <2>1, Ended, Zenon
  <2> QED
    BY <1>5, <1>6, <2>1, <2>2 DEF At
<1>7. ASSUME NEW v, Yield(u, v), UNCHANGED handed, u \notin excused' => v = Data(Blob(u)) PROVE StorageInv'
  <2>1. at'[u] = "done" /\ At(at, at', u) /\ out'[u] = v /\ At(out, out', u) /\ At(handed, handed', u)
    BY <1>2, <1>7 DEF At
  <2>2. u \notin excused' => OpRight(u)'
    BY <1>3, <1>7, <2>1, Ended
  <2> QED
    BY <1>5, <2>1, <2>2
<1>8. CASE InitModule(u, a)
  <2>1. at[u] = "init" /\ UNCHANGED <<handed, out>>
    BY <1>8, Zenon DEF InitModule, Is
  <2>2. CASE MoveTo(u, "chunk")
    <3>1. at'[u] = "chunk" /\ At(at, at', u)
      BY <1>1, <2>2
    <3>2. u \notin excused' => OpRight(u)'
      BY <1>3, <1>4, <2>1, <3>1, BeginsSession, Zenon
    <3> QED
      BY <1>5, <2>1, <3>1, <3>2 DEF At
  <2>3. CASE MoveTo(u, "error")
    BY <1>6, <2>1, <2>3 DEF Fail
  <2> QED
    BY <1>8, <2>2, <2>3 DEF InitModule
<1>9. CASE ChunkModule(u, a)
  <2>1. at[u] = "chunk" /\ handed[u].next <= Chunks /\ out' = out
    BY <1>9, Zenon DEF ChunkModule, Is
  <2>2. CASE Fail(u) /\ UNCHANGED handed
    BY <1>6, <2>1, <2>2, Zenon
  <2>3. ASSUME NEW keep \in {a # "error", TRUE}, UNCHANGED at, Session(u, keep) PROVE StorageInv'
    <3>1. At(handed, handed', u)
      BY <2>3, Zenon DEF Session, At
    <3>2. u \notin excused' => keep
      BY <1>9, <2>3, Zenon DEF ChunkModule
    <3>3. u \notin excused' => Session(u, TRUE)
      BY <2>3, <3>2 DEF Session
    <3>4. u \notin excused' => OpRight(u)'
      BY <1>3, <1>4, <2>1, <2>3, <3>3, GrowsSession, Zenon
    <3> QED
      BY <1>5, <2>1, <2>3, <3>1, <3>4 DEF At
  <2> QED
    BY <1>9, <2>2, <2>3, Zenon DEF ChunkModule
<1>10. CASE FinalizeModule(u, a)
  <2>1. at[u] = "chunk" /\ handed[u].next > Chunks /\ handed' = handed
    BY <1>10, Zenon DEF FinalizeModule, Is
  <2>2. u \notin excused' => handed[u].held = Data(Blob(u))
    BY <1>4, <2>1, FullSession, Zenon
  <2> QED
    BY <1>6, <1>7, <1>10, <2>1, <2>2, Zenon DEF FinalizeModule
<1>11. CASE DownloadModule(u, a)
  <2>1. handed' = handed /\ (a = "error" => u \in excused')
    BY <1>11, Zenon DEF DownloadModule
  <2> QED
    BY <1>6, <1>7, <1>11, <2>1, Zenon DEF DownloadModule
<1> QED
  BY <1>8, <1>9, <1>10, <1>11

-------------------------------------------------------------------------------
(* The storage module through the C API of the host *)

LEMMA CoreCallStep ==
    ASSUME StorageInv, NEW u \in Workers,
           InitCore(u) \/ ChunkCore(u) \/ FinalizeCore(u) \/ DownloadCore(u)
    PROVE  StorageInv'
<1>0. at = [w \in Workers |-> at[w]]
  BY DEF StorageInv, StorageTypes
<1>1. ASSUME NEW l, MoveTo(u, l) PROVE at'[u] = l /\ At(at, at', u)
  BY <1>0, <1>1, Zenon DEF MoveTo, At
<1>2. /\ Busy(u) /\ backend' = backend /\ job' = job /\ excused' = excused
      /\ scratch' = scratch /\ out' = out /\ feed' = feed /\ chunkRx' = chunkRx /\ doneRx' = doneRx
  <2>1. Busy(u)
    BY Zenon DEF InitCore, ChunkCore, FinalizeCore, DownloadCore, Is, Busy
  <2> QED
    BY <2>1, Zenon DEF InitCore, ChunkCore, FinalizeCore, DownloadCore, coreVars
<1>3. u \notin excused' => OpRight(u)
  BY <1>2 DEF StorageInv
<1>4. ASSUME At(at, at', u), At(handed, handed', u), due' = due \/ due' = due \cup {u}, u \notin excused' => OpRight(u)'
      PROVE  StorageInv'
  <2>1. At(out, out', u) /\ At(chunkRx, chunkRx', u) /\ At(doneRx, doneRx', u)
    BY <1>2 DEF At
  <2> QED
    BY <1>2, <1>4, <2>1, PlainStep, Zenon
<1>5. ASSUME Fail(u), UNCHANGED <<handed, due>> PROVE StorageInv'
  <2>1. at'[u] = "error" /\ At(at, at', u)
    BY <1>1, <1>5 DEF Fail
  <2>2. OpRight(u)'
    BY <1>2, <2>1, Ended, Zenon
  <2> QED
    BY <1>4, <1>5, <2>1, <2>2 DEF At
<1>6. Fail(u) => at'[u] = "error"
  BY <1>1 DEF Fail
<1>7. CASE InitCore(u)
  <2>1. at[u] = "init" /\ UNCHANGED <<handed, coreVars>> /\ due' = due
    BY <1>7, Zenon DEF InitCore, Is, coreVars
  <2>2. CASE MoveTo(u, "chunk")
    <3>1. at'[u] = "chunk" /\ At(at, at', u)
      BY <1>1, <2>2
    <3>2. u \notin excused' => OpRight(u)'
      BY <1>2, <1>3, <2>1, <3>1, BeginsSession, Zenon
    <3> QED
      BY <1>4, <2>1, <3>1, <3>2 DEF At
  <2> QED
    BY <1>5, <1>7, <2>1, <2>2 DEF InitCore, CallMethod
<1>8. CASE ChunkCore(u)
  <2>1. at[u] = "chunk" /\ handed[u].next <= Chunks /\ UNCHANGED coreVars /\ due' = due
    BY <1>8, Zenon DEF ChunkCore, Is, coreVars
  <2>2. CASE MoveTo(u, "chunk")
    <3>1. at'[u] = "chunk" /\ At(at, at', u)
      BY <1>1, <2>2
    <3>2. Session(u, TRUE)
      BY <1>8, <3>1, Zenon DEF ChunkCore, CallFailed
    <3>3. At(handed, handed', u)
      BY <3>2, Zenon DEF Session, At
    <3>4. u \notin excused' => OpRight(u)'
      BY <1>2, <1>3, <2>1, <3>1, <3>2, GrowsSession, Zenon
    <3> QED
      BY <1>4, <2>1, <3>1, <3>3, <3>4, Zenon
  <2>3. CASE Fail(u)
    BY <1>5, <1>6, <1>8, <2>1, <2>3, Zenon DEF ChunkCore, CallFailed
  <2> QED
    BY <1>8, <2>2, <2>3, Zenon DEF ChunkCore, CallMethod
<1>9. CASE FinalizeCore(u)
  <2>1. at[u] = "chunk" /\ handed[u].next > Chunks /\ handed' = handed /\ job[u].what = "upload"
    BY <1>9, Zenon DEF FinalizeCore, Is
  <2>2. CASE MoveTo(u, "await")
    <3>1. at'[u] = "await" /\ At(at, at', u)
      BY <1>1, <2>2
    <3>2. due' = due \cup {u}
      BY <1>9, <3>1, Zenon DEF FinalizeCore, CallFailed
    <3>3. ASSUME u \notin excused' PROVE OpRight(u)'
      <4>1. OpRight(u)
        BY <1>3, <3>3
      <4>2. handed[u].held = Data(Blob(u)) /\ doneRx[u] = <<>>
        BY <2>1, <4>1, FullSession, Zenon DEF OpRight
      <4>3. OwnDone(u)'
        BY <1>2, <4>2, NothingYet, Zenon DEF OwnDone
      <4> QED
        BY <1>2, <2>1, <3>1, <4>2, <4>3, Zenon DEF OpRight, Blob
    <3> QED
      BY <1>4, <2>1, <3>1, <3>2, <3>3, Zenon DEF At
  <2>3. CASE Fail(u)
    BY <1>5, <1>6, <1>9, <2>1, <2>3, Zenon DEF FinalizeCore, CallFailed
  <2> QED
    BY <1>9, <2>2, <2>3, Zenon DEF FinalizeCore, CallMethod
<1>10. CASE DownloadCore(u)
  <2>1. at[u] = "fetch" /\ handed' = handed /\ job[u].what = "download"
    BY <1>10, Zenon DEF DownloadCore, Is
  <2>2. CASE MoveTo(u, "collect")
    <3>1. at'[u] = "collect" /\ At(at, at', u)
      BY <1>1, <2>2
    <3>2. due' = due \cup {u}
      BY <1>10, <3>1 DEF DownloadCore, CallFailed
    <3>3. ASSUME u \notin excused' PROVE OpRight(u)'
      <4>1. Fresh(u)
        BY <1>3, <2>1, <3>3, Zenon DEF OpRight
      <4>2. feed'[u] = 0 /\ doneRx'[u] = <<>> /\ out'[u] = <<>> /\ chunkRx'[u] = <<>>
        BY <1>2, <4>1, Zenon DEF Fresh
      <4>3. out'[u] = Upto(Blob(u)', 0) /\ chunkRx'[u] = Between(Blob(u)', 0, 0)
        BY <4>2, NoChunks, Zenon
      <4>4. 0 \in 0 .. Chunks /\ 0 \in 0 .. 0
        BY StorageAssumption
      <4>5. Collects(u)'
        BY <4>2, <4>3, <4>4, Zenon DEF Collects
      <4> QED
        BY <1>2, <2>1, <3>1, <4>5, Zenon DEF OpRight
    <3> QED
      BY <1>4, <2>1, <3>1, <3>2, <3>3, Zenon DEF At
  <2>3. CASE Fail(u)
    BY <1>5, <1>6, <1>10, <2>1, <2>3, Zenon DEF DownloadCore, CallFailed
  <2> QED
    BY <1>10, <2>2, <2>3 DEF DownloadCore, CallMethod
<1> QED
  BY <1>7, <1>8, <1>9, <1>10

LEMMA AwaitStep ==
    ASSUME StorageInv, NEW u \in Workers, AwaitCid(u)
    PROVE  StorageInv'
<1>0. at = [w \in Workers |-> at[w]] /\ out = [w \in Workers |-> out[w]]
  BY DEF StorageInv, StorageTypes
<1>1. /\ Busy(u) /\ backend' = backend /\ job' = job /\ excused' = excused
      /\ scratch' = scratch /\ handed' = handed /\ feed' = feed /\ due' = due /\ chunkRx' = chunkRx
      /\ at[u] = "await" /\ doneRx[u] # <<>>
  BY Zenon DEF AwaitCid, Is, Busy
<1>2. At(doneRx, doneRx', u) /\ At(handed, handed', u) /\ At(chunkRx, chunkRx', u)
  BY <1>1, Zenon DEF AwaitCid, At
<1>3. At(at, at', u) /\ At(out, out', u) /\ (u \notin excused' => OpRight(u)')
  <2>1. CASE Head(doneRx[u]) = Missing /\ Fail(u) /\ UNCHANGED out
    <3>1. at' = [at EXCEPT ![u] = "error"] /\ at'[u] = "error"
      BY <1>0, <2>1 DEF Fail, MoveTo
    <3> QED
      BY <1>1, <2>1, <3>1, Ended, Zenon DEF At
  <2>2. CASE Head(doneRx[u]) # Missing /\ Yield(u, Head(doneRx[u]))
    <3>1. at' = [at EXCEPT ![u] = "done"] /\ out' = [out EXCEPT ![u] = Head(doneRx[u])]
      BY <2>2 DEF Yield, MoveTo
    <3>2. at'[u] = "done" /\ out'[u] = Head(doneRx[u])
      BY <1>0, <3>1
    <3>3. ASSUME u \notin excused' PROVE Head(doneRx[u]) = Data(Blob(u))
      <4>1. OwnDone(u)
        BY <1>1, <3>3, Zenon DEF StorageInv, OpRight
      <4>2. Head(doneRx[u]) \in {Data(Blob(u)), Missing}
        BY <1>1, <4>1, HeadLemma, Zenon DEF OwnDone
      <4> QED
        BY <2>2, <4>2
    <3> QED
      BY <1>1, <3>1, <3>2, <3>3, Ended, Zenon DEF At
  <2> QED
    BY <2>1, <2>2 DEF AwaitCid
<1> QED
  BY <1>1, <1>2, <1>3, PlainStep, Zenon

LEMMA CollectChunkStep ==
    ASSUME StorageInv, NEW u \in Workers, CollectChunk(u)
    PROVE  StorageInv'
<1>0. /\ at = [w \in Workers |-> at[w]] /\ out = [w \in Workers |-> out[w]]
      /\ chunkRx = [w \in Workers |-> chunkRx[w]]
  BY DEF StorageInv, StorageTypes
<1>1. /\ Busy(u) /\ backend' = backend /\ job' = job /\ excused' = excused
      /\ scratch' = scratch /\ handed' = handed /\ feed' = feed /\ due' = due /\ doneRx' = doneRx
      /\ at[u] = "collect" /\ chunkRx[u] # <<>> /\ chunkRx' = [chunkRx EXCEPT ![u] = Tail(chunkRx[u])]
  BY Zenon DEF CollectChunk, Is, Busy
<1>2. At(doneRx, doneRx', u) /\ At(handed, handed', u) /\ At(chunkRx, chunkRx', u)
  BY <1>1, Zenon DEF At
<1>3. At(at, at', u) /\ At(out, out', u) /\ (u \notin excused' => OpRight(u)')
  <2>1. CASE Fail(u) /\ UNCHANGED out
    <3>1. at' = [at EXCEPT ![u] = "error"] /\ at'[u] = "error"
      BY <1>0, <2>1 DEF Fail, MoveTo
    <3> QED
      BY <1>1, <2>1, <3>1, Ended, Zenon DEF At
  <2>2. CASE out' = [out EXCEPT ![u] = Append(out[u], Head(chunkRx[u]))] /\ UNCHANGED at
    <3>1. out'[u] = Append(out[u], Head(chunkRx[u])) /\ chunkRx'[u] = Tail(chunkRx[u])
      BY <1>0, <1>1, <2>2
    <3>2. ASSUME u \notin excused' PROVE OpRight(u)'
      <4>1. job[u].what = "download" /\ Collects(u)
        BY <1>1, <3>2, Zenon DEF StorageInv, OpRight
      <4>2. ASSUME u \in due \/ doneRx[u] # <<>>
            PROVE  \E k \in 0 .. feed[u] : out'[u] = Upto(Blob(u), k) /\ chunkRx'[u] = Between(Blob(u), k, feed[u])
        <5>1. PICK k \in 0 .. feed[u] : out[u] = Upto(Blob(u), k) /\ chunkRx[u] = Between(Blob(u), k, feed[u])
          BY <4>1, <4>2, Zenon DEF Collects
        <5>2. feed[u] \in Nat /\ k \in Nat
          <6>1. feed[u] \in 0 .. Chunks
            BY <4>1, Zenon DEF Collects
          <6> QED
            BY <6>1, FeedNumbers, Zenon
        <5>3. /\ k + 1 \in 0 .. feed[u] /\ Head(chunkRx[u]) = <<Blob(u), k + 1>>
              /\ Tail(chunkRx[u]) = Between(Blob(u), k + 1, feed[u])
          <6>1. Between(Blob(u), k, feed[u]) # <<>>
            BY <1>1, <5>1, Zenon
          <6>2. /\ k + 1 \in 0 .. feed[u] /\ Head(Between(Blob(u), k, feed[u])) = <<Blob(u), k + 1>>
                /\ Tail(Between(Blob(u), k, feed[u])) = Between(Blob(u), k + 1, feed[u])
            BY <5>1, <5>2, <6>1, BetweenLemma, Zenon
          <6> QED
            BY <5>1, <6>2, Zenon
        <5>4. Append(Upto(Blob(u), k), <<Blob(u), k + 1>>) = Upto(Blob(u), k + 1)
          BY <5>2, UptoLemma, Zenon
        <5>5. out'[u] = Upto(Blob(u), k + 1) /\ chunkRx'[u] = Between(Blob(u), k + 1, feed[u])
          BY <3>1, <5>1, <5>3, <5>4, Zenon
        <5> QED
          BY <5>3, <5>5, Zenon
      <4>3. Blob(u)' = Blob(u)
        BY <1>1 DEF Blob
      <4>4. Collects(u)'
        BY <1>1, <4>1, <4>2, <4>3, Zenon DEF Collects
      <4> QED
        BY <1>1, <2>2, <4>1, <4>4, Zenon DEF OpRight
    <3> QED
      BY <2>2, <3>2, Zenon DEF At
  <2> QED
    BY <2>1, <2>2 DEF CollectChunk
<1> QED
  BY <1>1, <1>2, <1>3, PlainStep, Zenon

LEMMA CollectDoneStep ==
    ASSUME StorageInv, NEW u \in Workers, CollectDone(u)
    PROVE  StorageInv'
<1>0. at = [w \in Workers |-> at[w]]
  BY DEF StorageInv, StorageTypes
<1>1. /\ Busy(u) /\ backend' = backend /\ job' = job /\ excused \subseteq excused'
      /\ scratch' = scratch /\ handed' = handed /\ feed' = feed /\ due' = due /\ chunkRx' = chunkRx /\ out' = out
      /\ at[u] = "collect" /\ doneRx[u] # <<>> /\ (u \notin excused' => chunkRx[u] = <<>>)
  BY Zenon DEF CollectDone, Is, Busy
<1>2. At(doneRx, doneRx', u) /\ At(handed, handed', u) /\ At(chunkRx, chunkRx', u) /\ At(out, out', u)
  BY <1>1, Zenon DEF At, CollectDone
<1>3. at' = [at EXCEPT ![u] = "done"] /\ at'[u] = "done"
  BY <1>0 DEF CollectDone, MoveTo
<1>4. ASSUME u \notin excused' PROVE OpRight(u)'
  <2>1. Collects(u)
    BY <1>1, <1>4, Zenon DEF StorageInv, OpRight
  <2>2. PICK k \in 0 .. Chunks : out[u] = Upto(Blob(u), k) /\ chunkRx[u] = Between(Blob(u), k, Chunks)
    BY <1>1, <2>1, Zenon DEF Collects
  <2>3. k = Chunks
    <3>1. Between(Blob(u), k, Chunks) = <<>>
      BY <1>1, <1>4, <2>2, Zenon
    <3>2. Chunks \in Nat
      BY StorageAssumption
    <3> QED
      BY <2>2, <3>1, <3>2, BetweenLemma, Zenon
  <2>4. out'[u] = Data(Blob(u))
    BY <1>1, <2>2, <2>3, Zenon DEF Upto, Data
  <2> QED
    BY <1>1, <1>3, <2>4, Ended, Zenon
<1> QED
  BY <1>1, <1>2, <1>3, <1>4, PlainStep, Zenon DEF At

\* An event of the node reaches whoever listens: nobody else, when the operation has met no hazard.
LEMMA NotHeard ==
    ASSUME StorageInv, NEW u \in Workers, u \in due, backend = "core"
    PROVE  \A w \in Workers \ {u} : w \in excused \/ w \notin Listening(job[u].what)
<1> SUFFICES ASSUME NEW w \in Workers \ {u}, w \notin excused PROVE w \notin Listening(job[u].what)
  OBVIOUS
<1>1. Alone(w)
  BY DEF StorageInv
<1> QED
  BY <1>1 DEF Listening, Alone, Clash

LEMMA EventTypes ==
    ASSUME StorageTypes, UNCHANGED <<backend, job, at, handed, out, scratch>>, due' \subseteq Workers,
           chunkRx' = [w \in Workers |-> chunkRx'[w]], doneRx' = [w \in Workers |-> doneRx'[w]],
           feed' = [w \in Workers |-> feed'[w]]
    PROVE  StorageTypes'
BY DEF StorageTypes

LEMMA EventStep ==
    ASSUME StorageInv, NEW u \in Workers, u \in due, backend = "core",
           UNCHANGED <<backend, embedded, job, at, handed, out, scratch, excused>>,
           feed' = feed \/ \E n : feed' = [feed EXCEPT ![u] = n], due' = due \/ due' = due \ {u},
           chunkRx' = chunkRx \/ \E v : chunkRx' = ToAll(chunkRx, job[u].what, v),
           doneRx' = doneRx \/ \E v : doneRx' = ToAll(doneRx, job[u].what, v),
           u \notin excused => OpRight(u)'
    PROVE  StorageInv'
<1>1. /\ chunkRx = [w \in Workers |-> chunkRx[w]] /\ doneRx = [w \in Workers |-> doneRx[w]]
      /\ feed = [w \in Workers |-> feed[w]]
  BY DEF StorageInv, StorageTypes
<1>2. chunkRx' = [w \in Workers |-> chunkRx'[w]] /\ doneRx' = [w \in Workers |-> doneRx'[w]]
  BY <1>1 DEF ToAll
<1>3. feed' = [w \in Workers |-> feed'[w]] /\ \A w \in Workers : w # u => feed'[w] = feed[w]
  BY <1>1
<1>4. StorageTypes'
  <2>1. due' \subseteq Workers
    BY Zenon DEF StorageInv, StorageTypes
  <2>2. StorageTypes
    BY Zenon DEF StorageInv
  <2> QED
    BY <1>2, <1>3, <2>1, <2>2, EventTypes
<1>5. NoneBegins
  BY Zenon DEF NoneBegins, Busy
<1>n. \A w \in Workers \ {u} : w \in excused \/ w \notin Listening(job[u].what)
  BY NotHeard
<1>6. ASSUME NEW w \in Workers \ excused', w # u PROVE Untouched(w)
  <2>0. w \in Workers /\ w \notin Listening(job[u].what)
    <3>1. w \in Workers \ {u} /\ w \notin excused
      BY <1>6
    <3> QED
      BY <1>n, <3>1, Zenon
  <2>1. chunkRx'[w] = chunkRx[w]
    <3>1. ASSUME NEW v PROVE ToAll(chunkRx, job[u].what, v)[w] = chunkRx[w]
      BY <2>0, Zenon DEF ToAll
    <3>2. ASSUME NEW v, chunkRx' = ToAll(chunkRx, job[u].what, v) PROVE chunkRx'[w] = chunkRx[w]
      BY <3>1, <3>2, Zenon
    <3> QED
      BY <3>2, Zenon
  <2>2. doneRx'[w] = doneRx[w]
    <3>1. ASSUME NEW v PROVE ToAll(doneRx, job[u].what, v)[w] = doneRx[w]
      BY <2>0, Zenon DEF ToAll
    <3>2. ASSUME NEW v, doneRx' = ToAll(doneRx, job[u].what, v) PROVE doneRx'[w] = doneRx[w]
      BY <3>1, <3>2, Zenon
    <3> QED
      BY <3>2, Zenon
  <2> QED
    BY <1>3, <1>6, <2>1, <2>2 DEF Untouched
<1> QED
  BY <1>4, <1>5, <1>6, StepOfKeeps, Zenon DEF StepOf

LEMMA NodeUploadedStep ==
    ASSUME StorageInv, NEW u \in Workers, NodeUploaded(u)
    PROVE  StorageInv'
<1>1. /\ backend = "core" /\ job[u].what = "upload" /\ u \in due
      /\ due' = due \ {u}
      /\ UNCHANGED <<backend, embedded, job, at, handed, out, scratch, feed, chunkRx, excused>>
  BY Zenon DEF NodeUploaded
<1>2. PICK v \in {handed[u].held, Missing} : doneRx' = ToAll(doneRx, "upload", v)
  BY DEF NodeUploaded
<1>3. ASSUME u \notin excused PROVE OpRight(u)'
  <2>1. OpRight(u)
    BY <1>3 DEF StorageInv
  <2>2. at[u] \notin {"idle", "init", "fetch", "chunk", "collect"}
    BY <1>1, <2>1, Zenon DEF OpRight, Fresh
  <2>3. at[u] = "await" => OwnDone(u)'
    <3> SUFFICES ASSUME at[u] = "await" PROVE OwnDone(u)'
      OBVIOUS
    <3>1. handed[u].held = Data(Blob(u)) /\ doneRx[u] \in Seq({Data(Blob(u)), Missing})
      BY <2>1, Zenon DEF OpRight, OwnDone
    <3>2. doneRx'[u] = doneRx[u] \/ doneRx'[u] = Append(doneRx[u], v)
      BY <1>2, Zenon DEF ToAll
    <3>3. v \in {Data(Blob(u)), Missing}
      BY <1>2, <3>1, Zenon
    <3>4. doneRx'[u] \in Seq({Data(Blob(u)), Missing})
      <4>1. PICK S : S = {Data(Blob(u)), Missing}
        BY Zenon
      <4>2. doneRx[u] \in Seq(S) /\ v \in S
        BY <3>1, <3>3, <4>1, Zenon
      <4>3. Append(doneRx[u], v) \in Seq(S)
        BY <4>2, AppendStays, Zenon
      <4> QED
        BY <3>2, <4>1, <4>2, <4>3, Zenon
    <3> QED
      BY <1>1, <3>4 DEF OwnDone, Blob
  <2> QED
    BY <1>1, <2>1, <2>2, <2>3, Zenon DEF OpRight, Blob
<1> QED
  BY <1>1, <1>2, <1>3, EventStep, Zenon

LEMMA NodeFeedsStep ==
    ASSUME StorageInv, NEW u \in Workers, NodeFeeds(u) \/ NodeFails(u)
    PROVE  StorageInv'
<1>1. /\ backend = "core" /\ job[u].what = "download" /\ u \in due
      /\ UNCHANGED <<backend, embedded, job, at, handed, out, scratch, excused>>
  BY Zenon DEF NodeFeeds, NodeFails
<1>2. feed = [w \in Workers |-> feed[w]]
  BY DEF StorageInv, StorageTypes
<1>3. ASSUME u \notin excused, at[u] = "collect" => Collects(u)' PROVE OpRight(u)'
  <2>1. OpRight(u)
    BY <1>3 DEF StorageInv
  <2>2. at[u] \notin {"idle", "init", "fetch", "chunk", "await"}
    BY <1>1, <2>1, Zenon DEF OpRight, Fresh
  <2> QED
    BY <1>1, <1>3, <2>1, <2>2, Zenon DEF OpRight, Blob
<1>4. ASSUME u \notin excused, at[u] = "collect"
      PROVE  /\ u \in Listening("download") /\ feed[u] \in 0 .. Chunks /\ doneRx[u] = <<>>
             /\ \E k \in 0 .. feed[u] : out[u] = Upto(Blob(u), k) /\ chunkRx[u] = Between(Blob(u), k, feed[u])
  <2>1. Collects(u)
    BY <1>4, Zenon DEF StorageInv, OpRight
  <2>2. u \in Listening("download")
    BY <1>1, <1>4 DEF Listening, Busy
  <2> QED
    BY <1>1, <2>1, <2>2, Zenon DEF Collects
<1>5. CASE NodeFeeds(u) /\ feed[u] < Chunks
  <2>1. /\ feed' = [feed EXCEPT ![u] = feed[u] + 1] /\ UNCHANGED <<due, doneRx>>
        /\ chunkRx' = ToAll(chunkRx, "download", Data(Blob(u))[feed[u] + 1])
    BY <1>5, Zenon DEF NodeFeeds
  <2>2. ASSUME u \notin excused, at[u] = "collect" PROVE Collects(u)'
    <3>1. PICK k \in 0 .. feed[u] : out[u] = Upto(Blob(u), k) /\ chunkRx[u] = Between(Blob(u), k, feed[u])
      BY <1>4, <2>2, Zenon
    <3>2. feed[u] \in Nat /\ feed[u] + 1 \in 0 .. Chunks /\ k \in 0 .. feed[u] + 1
      <4>1. feed[u] \in 0 .. Chunks /\ feed[u] < Chunks
        BY <1>4, <1>5, <2>2, Zenon DEF Collects
      <4> QED
        BY <4>1, FeedNumbers, Zenon
    <3>3. Data(Blob(u))[feed[u] + 1] = <<Blob(u), feed[u] + 1>>
      BY <3>2 DEF Data
    <3>4. chunkRx'[u] = Append(chunkRx[u], <<Blob(u), feed[u] + 1>>)
      <4>1. u \in Listening("download")
        BY <1>4, <2>2, Zenon
      <4>2. chunkRx'[u] = Append(chunkRx[u], Data(Blob(u))[feed[u] + 1])
        BY <2>1, <4>1 DEF ToAll
      <4> QED
        BY <3>3, <4>2
    <3>5. Append(Between(Blob(u), k, feed[u]), <<Blob(u), feed[u] + 1>>) = Between(Blob(u), k, feed[u] + 1)
      BY <3>2, BetweenLemma, Zenon
    <3>6. feed'[u] = feed[u] + 1 /\ doneRx'[u] = <<>> /\ out'[u] = out[u] /\ Blob(u)' = Blob(u)
      BY <1>1, <1>2, <1>4, <2>1, <2>2, Zenon DEF Blob
    <3>7. out'[u] = Upto(Blob(u)', k) /\ chunkRx'[u] = Between(Blob(u)', k, feed'[u]) /\ k \in 0 .. feed'[u]
      BY <3>1, <3>2, <3>4, <3>5, <3>6, Zenon
    <3> QED
      BY <3>2, <3>6, <3>7, Zenon DEF Collects
  <2> QED
    BY <1>1, <1>3, <2>1, <2>2, EventStep, Zenon
<1>6. CASE NodeFeeds(u) /\ ~(feed[u] < Chunks)
  <2>1. /\ due' = due \ {u} /\ UNCHANGED <<feed, chunkRx>>
        /\ doneRx' = ToAll(doneRx, "download", Blob(u))
    BY <1>6, Zenon DEF NodeFeeds
  <2>2. ASSUME u \notin excused, at[u] = "collect" PROVE Collects(u)'
    <3>1. feed'[u] = Chunks /\ feed[u] = Chunks
      <4>1. feed[u] \in 0 .. Chunks /\ ~(feed[u] < Chunks) /\ feed' = feed
        BY <1>4, <1>6, <2>1, <2>2, Zenon DEF Collects
      <4> QED
        BY <4>1, FeedNumbers, Zenon
    <3>2. out'[u] = out[u] /\ chunkRx'[u] = chunkRx[u] /\ Blob(u)' = Blob(u) /\ u \notin due'
      BY <1>1, <2>1, Zenon DEF Blob
    <3>3. \E k \in 0 .. feed'[u] : out'[u] = Upto(Blob(u)', k) /\ chunkRx'[u] = Between(Blob(u)', k, feed'[u])
      BY <1>4, <2>2, <3>1, <3>2, Zenon
    <3>4. feed'[u] \in 0 .. Chunks
      BY <3>1, StorageAssumption, SMTT(20)
    <3> QED
      BY <3>1, <3>2, <3>3, <3>4, Zenon DEF Collects
  <2> QED
    BY <1>1, <1>3, <2>1, <2>2, EventStep, Zenon
<1>7. CASE NodeFails(u)
  <2>1. due' = due \ {u} /\ UNCHANGED <<feed, doneRx>> /\ chunkRx' = ToAll(chunkRx, "download", Missing)
    BY <1>7, Zenon DEF NodeFails
  <2>2. ASSUME u \notin excused, at[u] = "collect" PROVE Collects(u)'
    BY <1>4, <2>1, <2>2, Zenon DEF Collects
  <2> QED
    BY <1>1, <1>3, <2>1, <2>2, EventStep, Zenon
<1> QED
  BY <1>5, <1>6, <1>7

-------------------------------------------------------------------------------
(* An operation begins; the backend comes and goes *)

LEMMA StartStep ==
    ASSUME StorageInv, NEW u \in Workers, StartOp(u)
    PROVE  StorageInv'
<1>1. /\ at[u] = "idle" /\ UNCHANGED <<backend, embedded, job, handed, out, scratch, coreVars>>
      /\ at' = [at EXCEPT ![u] = First[backend][job[u].what]]
      /\ excused' = LET vs == {v \in Workers : Clash(u, v)} IN IF vs = {} THEN excused ELSE excused \cup vs \cup {u}
  BY Zenon DEF StartOp, MoveTo
<1>2. /\ at = [w \in Workers |-> at[w]] /\ backend \in {"rest", "libstorage", "module", "core"}
      /\ job[u].what \in {"upload", "download"}
  BY DEF StorageInv, StorageTypes
<1>3. First[backend][job[u].what] \in {"send", "init", "fetch"}
  BY <1>2 DEF First
<1>4. at'[u] \in {"send", "init", "fetch"} /\ \A w \in Workers : w # u => at'[w] = at[w]
  BY <1>1, <1>2, <1>3, Zenon
<1>5. /\ excused \subseteq excused'
      /\ \A v \in Workers : Clash(u, v) => v \in excused' /\ u \in excused'
  BY <1>1, Zenon
<1>6. /\ due' = due /\ feed' = feed /\ chunkRx' = chunkRx /\ doneRx' = doneRx /\ handed' = handed /\ out' = out
      /\ scratch' = scratch /\ backend' = backend /\ job' = job
  BY <1>1, Zenon DEF coreVars
<1>7. StorageTypes'
  <2>1. DOMAIN at' = Workers /\ at' = [w \in Workers |-> at'[w]]
    BY <1>1, <1>2
  <2> QED
    BY <1>6, <2>1, Zenon DEF StorageInv, StorageTypes
<1>8. ASSUME NEW w \in Workers \ excused' PROVE OpRight(w)' /\ Alone(w)'
  <2>1. OpRight(w) /\ Alone(w)
    BY <1>5 DEF StorageInv
  <2>2. OpRight(w)'
    <3>1. CASE w = u
      <4>1. Fresh(u)
        BY <1>1, <2>1, <3>1, Zenon DEF OpRight
      <4>2. Fresh(u)'
        BY <1>6, <4>1, Zenon DEF Fresh
      <4> QED
        BY <1>4, <3>1, <4>2, Zenon DEF OpRight
    <3>2. CASE w # u
      <4>1. Untouched(w)
        BY <1>4, <1>6, <3>2, Zenon DEF Untouched
      <4> QED
        BY <1>6, <2>1, <4>1, UntouchedRight
    <3> QED
      BY <3>1, <3>2
  <2>3. Alone(w)'
    <3> SUFFICES ASSUME Busy(w)', NEW v \in Workers, Clash(w, v)' PROVE FALSE
      BY DEF Alone
    <3>1. \A x \in Workers : x # u => (Busy(x)' <=> Busy(x))
      BY <1>4, Zenon DEF Busy
    <3>2. v # w
      BY Zenon DEF Clash
    <3>3. CASE w = u
      <4>1. Clash(u, v)
        BY <1>6, <3>1, <3>2, <3>3, Zenon DEF Clash, Blob
      <4> QED
        BY <1>5, <3>3, <4>1
    <3>4. CASE w # u /\ v = u
      <4>1. Busy(w)
        BY <3>1, <3>4
      <4>2. Clash(u, w)
        BY <1>6, <3>4, <4>1, Zenon DEF Clash, Blob
      <4> QED
        BY <1>5, <4>2
    <3>5. CASE w # u /\ v # u
      <4>1. Busy(w) /\ Clash(w, v)
        BY <1>6, <3>1, <3>5, Zenon DEF Clash, Blob
      <4> QED
        BY <2>1, <4>1 DEF Alone
    <3> QED
      BY <3>3, <3>4, <3>5
  <2> QED
    BY <2>2, <2>3
<1> QED
  BY <1>7, <1>8 DEF StorageInv

LEMMA StorageStutters ==
    ASSUME StorageInv, UNCHANGED <<backend, job, at, handed, out, scratch, coreVars, excused>>
    PROVE  StorageInv'
<1>1. /\ due' = due /\ feed' = feed /\ chunkRx' = chunkRx /\ doneRx' = doneRx
  BY DEF coreVars
<1>2. StorageTypes'
  <2>1. StorageTypes
    BY DEF StorageInv
  <2>2. backend' \in {"rest", "libstorage", "module", "core"} /\ due' \subseteq Workers
    BY <1>1, <2>1 DEF StorageTypes
  <2>3. job' \in [Workers -> [what : {"upload", "download"}, blob : Blobs]]
    BY <2>1 DEF StorageTypes
  <2>4. (DOMAIN at = Workers /\ at = [w \in Workers |-> at[w]])'
    BY <2>1 DEF StorageTypes
  <2>5. (handed = [w \in Workers |-> handed[w]] /\ out = [w \in Workers |-> out[w]])'
    BY <2>1 DEF StorageTypes
  <2>6. (scratch = [b \in Blobs |-> scratch[b]] /\ feed = [w \in Workers |-> feed[w]])'
    BY <1>1, <2>1 DEF StorageTypes
  <2>7. (chunkRx = [w \in Workers |-> chunkRx[w]] /\ doneRx = [w \in Workers |-> doneRx[w]])'
    BY <1>1, <2>1 DEF StorageTypes
  <2> QED
    BY <2>2, <2>3, <2>4, <2>5, <2>6, <2>7, ZenonT(20) DEF StorageTypes
<1>3. NoneBegins
  BY <1>1 DEF NoneBegins, Busy
<1>4. ASSUME NEW w \in Workers \ excused' PROVE OpRight(w)' /\ Alone(w)'
  <2>1. OpRight(w) /\ Alone(w)
    BY DEF StorageInv
  <2>2. Untouched(w)
    BY <1>1, Zenon DEF Untouched
  <2> QED
    BY <1>3, <2>1, <2>2, UntouchedRight, StillAlone
<1> QED
  BY <1>2, <1>4 DEF StorageInv

LEMMA StorageStep ==
    ASSUME StorageInv, [StorageNext]_storageVars
    PROVE  StorageInv'
<1>1. CASE WithStorageConfig \/ ShutdownStorage \/ UNCHANGED storageVars
  <2>1. UNCHANGED <<backend, job, at, handed, out, scratch, coreVars, excused>>
    BY <1>1 DEF WithStorageConfig, ShutdownStorage, storageVars, coreVars
  <2> QED
    BY <2>1, StorageStutters
<1>2. ASSUME NEW w \in Workers, StartOp(w) \/ Upload(w) \/ RestDownload(w) \/ LibDownload(w) PROVE StorageInv'
  BY <1>2, StartStep, UploadStep, LibDownloadStep
<1>3. ASSUME NEW w \in Workers, InitCore(w) \/ ChunkCore(w) \/ FinalizeCore(w) \/ DownloadCore(w) PROVE StorageInv'
  BY <1>3, CoreCallStep
<1>4. ASSUME NEW w \in Workers, NodeUploaded(w) \/ NodeFeeds(w) \/ NodeFails(w) PROVE StorageInv'
  BY <1>4, NodeUploadedStep, NodeFeedsStep
<1>5. ASSUME NEW w \in Workers, AwaitCid(w) \/ CollectChunk(w) \/ CollectDone(w) PROVE StorageInv'
  BY <1>5, AwaitStep, CollectChunkStep, CollectDoneStep
<1> QED
  BY <1>1, <1>2, <1>3, <1>4, <1>5, ModuleStep, Zenon DEF StorageNext

\* For any number of workers, blobs and chunks: an operation of a backend that succeeds and met none of
\* the hazards has the content it was asked for.
THEOREM StorageIsFaithfulHolds == StorageSpec => []StorageIsFaithful
<1>1. StorageInit => StorageInv
  <2> SUFFICES ASSUME StorageInit PROVE StorageInv
    OBVIOUS
  <2>1. StorageTypes
    BY StorageAssumption, Zenon DEF StorageInit, StorageTypes
  <2>2. ASSUME NEW w \in Workers PROVE OpRight(w) /\ Alone(w)
    <3>1. at[w] = "idle" /\ Fresh(w)
      BY DEF StorageInit, Fresh
    <3> QED
      BY <3>1, Zenon DEF OpRight, Alone, Busy
  <2> QED
    BY <2>1, <2>2 DEF StorageInv
<1>2. StorageInv /\ [StorageNext]_storageVars => StorageInv'
  BY StorageStep
<1>3. StorageInv => StorageIsFaithful
  BY Zenon DEF StorageInv, OpRight, StorageIsFaithful
<1> QED
  BY <1>1, <1>2, <1>3, PTL DEF StorageSpec
===============================================================================
