------------------------- MODULE AgentsBackendsProofs -------------------------
(***************************************************************************)
(* What holds at the two ends of a task and of the things a node is built  *)
(* on, for every number of tasks, requests and threads, every text, pipe,  *)
(* timeout and amount, checked by TLAPS: the agent that runs an executor   *)
(* (Executor), the module of the host that asks (AgentModule), the shim to *)
(* the modules of Logos Core (Shim) and the reading of the chain (Chain).  *)
(***************************************************************************)
EXTENDS Executor, AgentModule, Shim, Chain, SequenceTheorems, FiniteSetTheorems, TLAPS

-------------------------------------------------------------------------------
(* The load of an agent *)

ExecutorSpec == ExecutorInit /\ [][ExecutorNext]_executorVars

Busy == {"feed", "wait", "upload", "respond"}

\* The loop works on one task at a time, and has one exactly where run_exec or its answer is.
OneInHand ==
    /\ fate \in [Jobs -> Fates] /\ inFlight \in Nat
    /\ loop \in {"start", "poll", "next", "dead"} \cup Busy
    /\ \/ /\ loop \notin Busy /\ inFlight = 0
          /\ \A j \in Jobs : fate[j] # "exec"
       \/ /\ loop \in Busy /\ inFlight = 1
          /\ \E j \in Jobs : \A k \in Jobs : fate[k] = "exec" <=> k = j

LEMMA OneInHandStep == OneInHand /\ [ExecutorNext]_executorVars => OneInHand'
<1> SUFFICES ASSUME OneInHand, [ExecutorNext]_executorVars PROVE OneInHand'
  OBVIOUS
<1> USE DEF OneInHand, Busy, Fates
<1>1. CASE OpenInbox \/ PollTasks \/ BatchDone
  <2>1. /\ inFlight' = inFlight /\ loop \in {"start", "poll", "next"} /\ loop' \in {"poll", "next"}
        /\ fate' = fate \/ \E g \in {"discarded", "batch"} : fate' = All("inbox", g)
    BY <1>1, Zenon DEF OpenInbox, PollTasks, BatchDone
  <2>2. loop \notin Busy /\ loop' \notin Busy
    BY <2>1
  <2>3. inFlight = 0 /\ \A j \in Jobs : fate[j] # "exec"
    BY <2>2, Zenon
  <2>4. fate' \in [Jobs -> Fates] /\ \A j \in Jobs : fate'[j] # "exec"
    BY <2>1, <2>3 DEF All
  <2> QED
    BY <2>1, <2>2, <2>3, <2>4, Zenon
<1>2. CASE Feed \/ Wait \/ UploadLog
  <2>1. UNCHANGED <<fate, inFlight>> /\ loop \in Busy /\ loop' \in Busy
    BY <1>2, Zenon DEF Feed, Wait, UploadLog, Rest
  <2> QED
    BY <2>1, Zenon
<1>3. CASE ChildReads \/ ChildWrites \/ ChildExits
  <2>1. UNCHANGED <<fate, inFlight, loop>>
    BY <1>3, Zenon DEF ChildReads, ChildWrites, ChildExits, Rest
  <2> QED
    BY <2>1, Zenon
<1>4. ASSUME NEW j \in Jobs, Sent(j) \/ Reject(j) \/ Skip(j) PROVE OneInHand'
  <2>1. /\ UNCHANGED <<loop, inFlight>> /\ fate[j] # "exec"
        /\ \E g \in Fates \ {"exec"} : fate' = [fate EXCEPT ![j] = g]
    BY <1>4, Zenon DEF Sent, Reject, Skip
  <2>2. fate' \in [Jobs -> Fates] /\ \A k \in Jobs : fate'[k] = "exec" <=> fate[k] = "exec"
    BY <2>1, Zenon
  <2> QED
    BY <2>1, <2>2, Zenon
<1>5. ASSUME NEW j \in Jobs, RespondTo(j) PROVE OneInHand'
  <2>1. /\ loop = "respond" /\ fate[j] = "exec" /\ loop' \in {"next", "dead"}
        /\ \E g \in Fates \ {"exec"} : fate' = [fate EXCEPT ![j] = g]
    BY <1>5, Zenon DEF RespondTo
  <2>2. inFlight' = 0
    <3>1. inFlight = 1
      BY <2>1, Zenon
    <3>2. inFlight' = IF inFlight = 0 THEN 0 ELSE inFlight - 1
      BY <1>5, Zenon DEF RespondTo, LoadDec
    <3> HIDE DEF OneInHand
    <3> QED
      BY <3>1, <3>2
  <2>3. fate' \in [Jobs -> Fates] /\ \A k \in Jobs : fate'[k] # "exec"
    BY <2>1, Zenon
  <2> QED
    BY <2>1, <2>2, <2>3, Zenon
<1>6. ASSUME NEW j \in Jobs, NEW n \in Sizes, NEW b \in Behaviours, Spawn(j, n, b) PROVE OneInHand'
  <2>1. /\ loop = "next" /\ loop' \in {"feed", "respond"} /\ inFlight' = inFlight + 1
        /\ fate' = [fate EXCEPT ![j] = "exec"]
    BY <1>6, Zenon DEF Spawn
  <2>2. inFlight = 0 /\ \A k \in Jobs : fate[k] # "exec"
    BY <2>1, Zenon
  <2>3. fate' \in [Jobs -> Fates] /\ \A k \in Jobs : fate'[k] = "exec" <=> k = j
    BY <2>1, <2>2, Zenon
  <2>4. inFlight' = 1 /\ loop' \in Busy
    <3> HIDE DEF OneInHand
    <3> QED
      BY <2>1, <2>2
  <2> QED
    BY <2>3, <2>4, Zenon
<1>7. CASE UNCHANGED executorVars
  BY <1>7, Zenon DEF executorVars
<1> QED
  BY <1>1, <1>2, <1>3, <1>4, <1>5, <1>6, <1>7, Zenon DEF ExecutorNext

\* The load an agent advertises is the number of tasks it is executing: every way through run_exec,
\* upload_log and the answer that starts with load_inc ends with load_dec.
THEOREM LoadIsExactHolds == ExecutorSpec => []LoadIsExact
<1>1. ExecutorInit => OneInHand
  BY DEF ExecutorInit, OneInHand, Fates, Busy
<1>2. OneInHand => LoadIsExact
  <2> SUFFICES ASSUME OneInHand PROVE inFlight = Cardinality(In("exec"))
    BY DEF LoadIsExact
  <2>1. CASE loop \notin Busy
    <3>1. In("exec") = {} /\ inFlight = 0
      BY <2>1 DEF OneInHand, In
    <3> QED
      BY <3>1, FS_EmptySet
  <2>2. CASE loop \in Busy
    <3>1. PICK j \in Jobs : \A k \in Jobs : fate[k] = "exec" <=> k = j
      BY <2>2 DEF OneInHand
    <3>2. In("exec") = {j}
      BY <3>1 DEF In
    <3>3. inFlight = 1 /\ Cardinality({j}) = 1
      BY <2>2, FS_Singleton, Zenon DEF OneInHand
    <3> QED
      BY <3>2, <3>3
  <2> QED
    BY <2>1, <2>2
<1> QED
  BY <1>1, <1>2, OneInHandStep, PTL DEF ExecutorSpec

-------------------------------------------------------------------------------
(* The agent module of the host *)

AgentSpec == AgentInit /\ [][AgentNext]_agentVars

\* The constructor has not come to the child yet, or the destructor has gone past the wait thread.
Lifetime ==
    /\ host \in {"new", "starting"} => proc = "none" /\ waiter = "none"
    /\ host \in {"stopping", "ending", "gone"} => waiter \in {"none", "done"}
    /\ host = "gone" => ~ProcRunning /\ sock = FALSE

LEMMA LifetimeStep == Lifetime /\ [AgentNext]_agentVars => Lifetime'
<1> SUFFICES ASSUME Lifetime, [AgentNext]_agentVars PROVE Lifetime'
  OBVIOUS
<1> USE DEF Lifetime, ProcRunning, childProcess
<1>1. CASE Construct \/ StartChild \/ DaemonBinds \/ DaemonEnds \/ WaitForSocket \/ Settle
  BY <1>1, Zenon DEF Construct, StartChild, DaemonBinds, DaemonEnds, WaitForSocket, Settle
<1>2. ASSUME NEW want, Tell(want) PROVE Lifetime'
  BY <1>2, Zenon DEF Tell
<1>3. CASE Stop \/ StopFirst
  BY <1>3 DEF Stop, StopFirst, StopDaemon
<1>4. CASE DestroyBegins \/ JoinWaiter \/ EndChild
  BY <1>4 DEF DestroyBegins, JoinWaiter, EndChild
<1>5. ASSUME NEW r \in Requests,
             \/ StartDelegate(r) \/ DelegateAsks(r) \/ DelegateEmits(r)
             \/ StartFetchCid(r) \/ FetchAsks(r) \/ FetchEmits(r)
             \/ WorkerChecks(r)
      PROVE  Lifetime'
  BY <1>5, Zenon DEF StartDelegate, DelegateAsks, DelegateEmits, StartFetchCid, FetchAsks, FetchEmits,
              WorkerChecks, SpawnWorker, WorkerAsks, WorkerEmits
<1>6. CASE UNCHANGED agentVars
  BY <1>6 DEF agentVars
<1> QED
  BY <1>1, <1>2, <1>3, <1>4, <1>5, <1>6, Zenon DEF AgentNext, InfoOrPeers, Delegate, SendTask, FetchCid,
     TrustCalls, TaskHistoryCalls

\* A module that is gone leaves no child, no socket file and no wait thread behind, whether the child
\* was still booting, had never been heard of, or ignored the request to stop.
THEOREM NothingLeftBehindHolds == AgentSpec => []NothingLeftBehind
<1>1. AgentInit => Lifetime
  BY DEF AgentInit, Lifetime
<1>2. Lifetime => NothingLeftBehind
  BY DEF Lifetime, NothingLeftBehind
<1> QED
  BY <1>1, <1>2, LifetimeStep, PTL DEF AgentSpec

\* A reply is what sendRequest can bring back, and stays; an event is emitted once, from it.
Replies ==
    /\ work \in [Requests -> {"none", "asking", "answered", "checked", "done"}]
    /\ reply \in [Requests -> {"none", "own error"} \cup Answers("delegate")]
    /\ DOMAIN event = Requests /\ DOMAIN wants = Requests
    /\ \A r \in Requests :
        /\ event[r] # "none" => work[r] = "done"
        /\ work[r] = "checked" \/ work[r] = "answered" =>
               reply[r] \in {"own error"} \cup Answers(wants[r])

EventInv == Replies /\ EventTellsReply

LEMMA EventStep == EventInv /\ [AgentNext]_agentVars => EventInv'
<1> SUFFICES ASSUME EventInv, [AgentNext]_agentVars PROVE EventInv'
  OBVIOUS
<1> USE DEF EventInv, Replies, EventTellsReply
<1>1. ASSUME UNCHANGED workers PROVE EventInv'
  BY <1>1, Zenon DEF workers
<1>2. CASE \/ Construct \/ StartChild \/ DaemonBinds \/ DaemonEnds \/ WaitForSocket \/ Settle
           \/ Stop \/ DestroyBegins \/ JoinWaiter \/ StopFirst \/ EndChild
  BY <1>1, <1>2, Zenon DEF Construct, StartChild, DaemonBinds, DaemonEnds, WaitForSocket, Settle, Stop,
                    StopDaemon, DestroyBegins, JoinWaiter, StopFirst, EndChild
<1>3. ASSUME NEW want, Tell(want) PROVE EventInv'
  BY <1>1, <1>3, Zenon DEF Tell
<1>4. ASSUME NEW r \in Requests, NEW want, SpawnWorker(r, want) PROVE EventInv'
  BY <1>4, Zenon DEF SpawnWorker
<1>5. ASSUME NEW r \in Requests, NEW want \in {"delegate", "fetch"}, WorkerAsks(r, want)
      PROVE  EventInv'
  <2>1. PICK a \in SendRequest(want) : reply' = [reply EXCEPT ![r] = a]
    BY <1>5, Zenon DEF WorkerAsks
  <2>2. a \in {"own error"} \cup Answers(want) /\ a \in {"own error"} \cup Answers("delegate")
    BY <1>5, Zenon DEF SendRequest, Answers
  <2>3. /\ work[r] = "asking" /\ wants[r] = want /\ work' = [work EXCEPT ![r] = "answered"]
        /\ UNCHANGED <<wants, event>>
    BY <1>5, Zenon DEF WorkerAsks
  <2>4. event[r] = "none"
    BY <2>3, Zenon
  <2> QED
    BY <2>1, <2>2, <2>3, <2>4, Zenon
<1>6. ASSUME NEW r \in Requests, WorkerChecks(r) PROVE EventInv'
  BY <1>6, Zenon DEF WorkerChecks
<1>7. ASSUME NEW r \in Requests, DelegateEmits(r) PROVE EventInv'
  <2>1. /\ work[r] = "checked" /\ work' = [work EXCEPT ![r] = "done"] /\ UNCHANGED <<wants, reply>>
        /\ event' = [event EXCEPT ![r] = DelegateEvent(reply[r])] /\ wants[r] = "delegate"
    BY <1>7, Zenon DEF DelegateEmits, WorkerEmits
  <2>2. reply[r] \in {"own error"} \cup Answers("delegate")
    BY <2>1, Zenon
  <2>3. /\ DelegateEvent(reply[r]) = "success" => reply[r] = "good"
        /\ DelegateEvent(reply[r]) = "no peer" => reply[r] = "no results"
    BY <2>2, Zenon DEF DelegateEvent, Answers
  <2> QED
    BY <2>1, <2>3, Zenon
<1>8. ASSUME NEW r \in Requests, FetchEmits(r) PROVE EventInv'
  <2>1. /\ work[r] = "checked" /\ work' = [work EXCEPT ![r] = "done"] /\ UNCHANGED <<wants, reply>>
        /\ event' = [event EXCEPT ![r] = FetchEvent(reply[r])] /\ wants[r] = "fetch"
    BY <1>8, Zenon DEF FetchEmits, WorkerEmits
  <2>2. reply[r] \in {"own error"} \cup Answers("fetch")
    BY <2>1, Zenon
  <2>3. (FetchEvent(reply[r]) = "success" => reply[r] = "good") /\ FetchEvent(reply[r]) # "no peer"
    BY <2>2, Zenon DEF FetchEvent, Answers
  <2> QED
    BY <2>1, <2>3, Zenon
<1>9. CASE UNCHANGED agentVars
  BY <1>1, <1>9, Zenon DEF agentVars, workers
<1> QED
  BY <1>2, <1>3, <1>4, <1>5, <1>6, <1>7, <1>8, <1>9, Zenon DEF AgentNext, InfoOrPeers, Delegate, SendTask,
     FetchCid, TrustCalls, TaskHistoryCalls, StartDelegate, StartFetchCid, DelegateAsks, FetchAsks

\* An event reports success only for an answer that is one, and that no peer matched only when the
\* daemon found none, whichever of the ways of sendRequest to fail was taken.
THEOREM EventTellsReplyHolds == AgentSpec => []EventTellsReply
<1>1. AgentInit => EventInv
  BY DEF AgentInit, EventInv, Replies, EventTellsReply
<1>2. EventInv => EventTellsReply
  BY DEF EventInv
<1> QED
  BY <1>1, <1>2, EventStep, PTL DEF AgentSpec

-------------------------------------------------------------------------------
(* The shim *)

ShimSpec == ShimInit /\ [][ShimNext]_shimVars

Kinds == {"nothing", "call", "listen", "quit"}
Closures == [who : Threads \cup {NoThread}, call : 0 .. MaxCalls, what : Kinds]
Values == {"none", "timeout", "error", "true", "value", "{}"}

ShimTypes ==
    /\ qt \in {"starting", "ready", "quitting", "gone"}
    /\ posted \in Seq(Closures) /\ running \in Closures
    /\ nth \in [Threads -> 0 .. MaxCalls]
    /\ slot \in [Calls -> Values] /\ answer \in [Calls -> Values]

\* The quit is the last closure that is ever posted.
QuitIsLast ==
    /\ qt \in {"starting", "gone"} => posted = <<>> /\ running = Idle
    /\ running.what = "quit" => qt = "quitting" /\ posted = <<>>
    /\ \A i \in 1 .. Len(posted) : posted[i].what = "quit" => i = Len(posted) /\ qt = "quitting"

\* What the slot of a call holds, and what the call returned, is what the module answered to it.
OwnResults ==
    \A c \in Calls :
        /\ slot[c] # "none" => <<c, slot[c]>> \in results
        /\ answer[c] \notin {"none", "timeout"} => <<c, answer[c]>> \in results

ShimInv == ShimTypes /\ QuitIsLast /\ OwnResults

LEMMA ClosureLemma ==
    /\ Idle \in Closures /\ Idle.what = "nothing"
    /\ \A t \in Threads \cup {NoThread}, n \in 0 .. MaxCalls, k \in Kinds :
           Closure(t, n, k) \in Closures /\ Closure(t, n, k).what = k
  BY ShimAssumption DEF Idle, Closure, Closures, Kinds

\* What posting a closure does to the queue, and taking the first one.
LEMMA PostedLemma ==
    ASSUME NEW s \in Seq(Closures), NEW c \in Closures
    PROVE  /\ Append(s, c) \in Seq(Closures) /\ Len(Append(s, c)) = Len(s) + 1 /\ Len(s) \in Nat
           /\ Append(s, c) # <<>>
           /\ Append(s, c)[Len(s) + 1] = c /\ \A i \in 1 .. Len(s) : Append(s, c)[i] = s[i]
<1>1. /\ Append(s, c) \in Seq(Closures) /\ Len(Append(s, c)) = Len(s) + 1 /\ Len(s) \in Nat
      /\ Append(s, c)[Len(s) + 1] = c /\ \A i \in 1 .. Len(s) : Append(s, c)[i] = s[i]
  BY AppendProperties, LenProperties
<1> QED
  BY <1>1, EmptySeq

LEMMA TakenLemma ==
    ASSUME NEW s \in Seq(Closures), s # <<>>
    PROVE  /\ Head(s) \in Closures /\ Tail(s) \in Seq(Closures) /\ Head(s) = s[1]
           /\ Len(s) \in Nat /\ Len(s) >= 1 /\ Len(Tail(s)) = Len(s) - 1
           /\ \A i \in 1 .. Len(s) - 1 : Tail(s)[i] = s[i + 1]
           /\ Len(s) = 1 => Tail(s) = <<>>
<1>1. /\ Head(s) \in Closures /\ Tail(s) \in Seq(Closures) /\ Head(s) = s[1]
      /\ Len(Tail(s)) = Len(s) - 1 /\ \A i \in 1 .. Len(Tail(s)) : Tail(s)[i] = s[i + 1]
  BY HeadTailProperties
<1>2. Len(s) \in Nat /\ Len(s) >= 1
  BY LenProperties, EmptySeq
<1> QED
  BY <1>1, <1>2, EmptySeq

\* A closure is posted: that of a call or a listen while the shim is used, or the quit that ends it.
LEMMA PostStep ==
    ASSUME ShimInv, NEW c \in Closures, qt = "ready", posted' = Append(posted, c),
           \/ qt' = "ready" /\ c.what # "quit"
           \/ qt' = "quitting" /\ c.what = "quit",
           nth' \in [Threads -> 0 .. MaxCalls], UNCHANGED <<running, slot, answer, results>>
    PROVE  ShimInv'
<1>1. posted \in Seq(Closures) /\ Len(posted) \in Nat
  BY LenProperties DEF ShimInv, ShimTypes
<1>2. /\ posted' \in Seq(Closures) /\ Len(posted') = Len(posted) + 1 /\ posted' # <<>>
      /\ posted'[Len(posted) + 1] = c /\ \A i \in 1 .. Len(posted) : posted'[i] = posted[i]
  BY <1>1, PostedLemma
<1>3. ShimTypes'
  BY <1>2 DEF ShimInv, ShimTypes
<1>4. QuitIsLast'
  <2>1. running.what # "quit"
    BY DEF ShimInv, QuitIsLast
  <2>2. ASSUME NEW i \in 1 .. Len(posted'), posted'[i].what = "quit"
        PROVE  i = Len(posted') /\ qt' = "quitting"
    <3>1. CASE i \in 1 .. Len(posted)
      <4>1. posted'[i] = posted[i]
        BY <1>2, <3>1
      <4>2. posted[i].what # "quit"
        BY <3>1 DEF ShimInv, QuitIsLast
      <4> QED
        BY <2>2, <4>1, <4>2
    <3>2. CASE i = Len(posted) + 1
      BY <1>2, <2>2, <3>2
    <3> QED
      BY <1>1, <1>2, <3>1, <3>2
  <2> QED
    BY <2>1, <2>2 DEF QuitIsLast
<1>5. OwnResults'
  BY DEF ShimInv, OwnResults
<1> QED
  BY <1>3, <1>4, <1>5 DEF ShimInv

\* The Qt thread takes the first closure.
LEMMA TakeStep == ASSUME ShimInv, Take PROVE ShimInv'
<1>1. /\ running = Idle /\ posted # <<>> /\ running' = Head(posted)
      /\ posted' = Tail(posted)
      /\ UNCHANGED <<qt, slot, nth, answer, results>>
  BY DEF Take
<1>2. posted \in Seq(Closures)
  BY DEF ShimInv, ShimTypes
<1>3. /\ running' \in Closures /\ posted' \in Seq(Closures) /\ running' = posted[1]
      /\ Len(posted) \in Nat /\ Len(posted) >= 1 /\ Len(posted') = Len(posted) - 1
      /\ \A i \in 1 .. Len(posted) - 1 : posted'[i] = posted[i + 1]
      /\ Len(posted) = 1 => posted' = <<>>
  BY <1>1, <1>2, TakenLemma
<1>4. ShimTypes'
  BY <1>1, <1>3 DEF ShimInv, ShimTypes
<1>5. QuitIsLast'
  <2>1. qt \notin {"starting", "gone"}
    BY <1>1 DEF ShimInv, QuitIsLast
  <2>2. running'.what = "quit" => qt = "quitting" /\ posted' = <<>>
    BY <1>3 DEF ShimInv, QuitIsLast
  <2>3. ASSUME NEW i \in 1 .. Len(posted'), posted'[i].what = "quit"
        PROVE  i = Len(posted') /\ qt = "quitting"
    <3>1. i + 1 \in 1 .. Len(posted) /\ posted'[i] = posted[i + 1]
      BY <1>3
    <3>2. i + 1 = Len(posted) /\ qt = "quitting"
      BY <2>3, <3>1 DEF ShimInv, QuitIsLast
    <3> QED
      BY <1>3, <3>1, <3>2
  <2> QED
    BY <1>1, <2>1, <2>2, <2>3 DEF QuitIsLast
<1>6. OwnResults'
  BY <1>1 DEF ShimInv, OwnResults
<1> QED
  BY <1>4, <1>5, <1>6 DEF ShimInv

\* The closure that runs ends.
LEMMA RunStep == ASSUME ShimInv, RunCall \/ RunListen \/ RunQuit PROVE ShimInv'
<1>1. running' = Idle /\ UNCHANGED <<posted, nth, answer>>
  BY DEF RunCall, RunListen, RunQuit
<1>2. Idle \in Closures /\ Idle.what = "nothing"
  BY ClosureLemma
<1>3. CASE RunCall
  <2> DEFINE c == <<running.who, running.call>>
  <2>1. PICK r \in Raws : /\ slot' = [slot EXCEPT ![c] = VariantToJson(r)]
                          /\ results' = results \cup {<<c, VariantToJson(r)>>}
    BY <1>3, Zenon DEF RunCall
  <2> DEFINE v == VariantToJson(r)
  <2>2. v \in Values /\ UNCHANGED qt /\ running.what = "call"
    BY <1>3, Zenon DEF RunCall, VariantToJson, Raws, Values
  <2> HIDE DEF c, v
  <2>3. \A d \in Calls : slot'[d] = IF d = c THEN v ELSE slot[d]
    BY <2>1 DEF ShimInv, ShimTypes, v
  <2>4. ShimTypes'
    BY <1>1, <1>2, <2>1, <2>2 DEF ShimInv, ShimTypes, v
  <2>5. QuitIsLast'
    BY <1>1, <1>2, <2>2 DEF ShimInv, QuitIsLast
  <2>6. OwnResults'
    <3>1. results \subseteq results' /\ <<c, v>> \in results'
      BY <2>1 DEF v
    <3> QED
      BY <1>1, <2>3, <3>1, Zenon DEF ShimInv, OwnResults
  <2> QED
    BY <2>4, <2>5, <2>6 DEF ShimInv
<1>4. CASE RunListen
  <2>1. UNCHANGED <<qt, slot, results>> /\ running.what = "listen"
    BY <1>4 DEF RunListen
  <2>2. ShimTypes'
    BY <1>1, <1>2, <2>1 DEF ShimInv, ShimTypes
  <2>3. QuitIsLast'
    BY <1>1, <1>2, <2>1 DEF ShimInv, QuitIsLast
  <2>4. OwnResults'
    BY <1>1, <2>1 DEF ShimInv, OwnResults
  <2> QED
    BY <2>2, <2>3, <2>4 DEF ShimInv
<1>5. CASE RunQuit
  <2>1. running.what = "quit" /\ qt' = "gone" /\ UNCHANGED <<slot, results>>
    BY <1>5 DEF RunQuit
  <2>2. posted = <<>>
    BY <2>1 DEF ShimInv, QuitIsLast
  <2>3. ShimTypes'
    BY <1>1, <1>2, <2>1 DEF ShimInv, ShimTypes
  <2>4. QuitIsLast'
    <3>1. Len(posted) = 0
      BY <2>2, EmptySeq
    <3> QED
      BY <1>1, <1>2, <2>2, <3>1 DEF QuitIsLast
  <2>5. OwnResults'
    BY <1>1, <2>1 DEF ShimInv, OwnResults
  <2> QED
    BY <2>3, <2>4, <2>5 DEF ShimInv
<1> QED
  BY <1>3, <1>4, <1>5

\* A wait ends: with what the slot holds, or with a timeout.
LEMMA ResumeStep ==
    ASSUME ShimInv, NEW t \in Threads, Answered(t) \/ GiveUp(t)
    PROVE  ShimInv'
<1> DEFINE l == Latest(t)
<1>1. PICK a : /\ answer' = [answer EXCEPT ![l] = a]
               /\ a = "timeout" \/ a = slot[l]
               /\ UNCHANGED <<qt, posted, running, slot, nth, results>>
  BY Zenon DEF Answered, GiveUp, Resume
<1> HIDE DEF l
<1>2. \A c \in Calls : answer'[c] = IF c = l THEN a ELSE answer[c]
  BY <1>1 DEF ShimInv, ShimTypes
<1>3. \A c \in Calls : answer'[c] \in Values
  <2>1. "timeout" \in Values
    BY DEF Values
  <2> QED
    BY <1>1, <1>2, <2>1, Zenon DEF ShimInv, ShimTypes
<1>4. answer' \in [Calls -> Values]
  <2>1. answer' = [c \in Calls |-> answer'[c]]
    BY <1>1 DEF ShimInv, ShimTypes
  <2> QED
    BY <1>3, <2>1
<1>5. ShimTypes'
  BY <1>1, <1>4 DEF ShimInv, ShimTypes
<1>6. QuitIsLast'
  BY <1>1, Zenon DEF ShimInv, QuitIsLast
<1>7. OwnResults'
  <2> SUFFICES ASSUME NEW c \in Calls
               PROVE  /\ slot[c] # "none" => <<c, slot[c]>> \in results
                      /\ answer'[c] \notin {"none", "timeout"} => <<c, answer'[c]>> \in results
    BY <1>1, Zenon DEF OwnResults
  <2>1. /\ slot[c] # "none" => <<c, slot[c]>> \in results
        /\ answer[c] \notin {"none", "timeout"} => <<c, answer[c]>> \in results
    BY DEF ShimInv, OwnResults
  <2>2. CASE c = l
    BY <1>1, <1>2, <2>1, <2>2
  <2>3. CASE c # l
    BY <1>2, <2>1, <2>3
  <2> QED
    BY <2>2, <2>3
<1> QED
  BY <1>5, <1>6, <1>7 DEF ShimInv

\* The shim is made, or not, and the events.
LEMMA LifeStep ==
    ASSUME ShimInv, Ready \/ NewFails \/ StubNew \/ EmitEvent \/ TakeEvent
    PROVE  ShimInv'
<1>1. /\ UNCHANGED <<posted, running, slot, nth, answer, results>>
      /\ qt' = qt \/ (qt = "starting" /\ qt' \in {"ready", "gone"})
  BY DEF Ready, NewFails, StubNew, NoThreadOfQt, EmitEvent, TakeEvent
<1>2. ShimTypes'
  BY <1>1 DEF ShimInv, ShimTypes
<1>3. QuitIsLast'
  BY <1>1 DEF ShimInv, QuitIsLast
<1>4. OwnResults'
  BY <1>1 DEF ShimInv, OwnResults
<1> QED
  BY <1>2, <1>3, <1>4 DEF ShimInv

\* What logos_shim_call returns is its timeout or the module's answer to that very call, however late
\* the closures of the calls before it run, for any number of threads and calls; and no closure is
\* left when logos_shim_destroy has joined the Qt thread.
THEOREM LateCallsAreHarmlessHolds == ShimSpec => []LateCallsAreHarmless
<1>1. ShimInit => ShimInv
  <2> SUFFICES ASSUME ShimInit PROVE ShimInv
    OBVIOUS
  <2>1. Idle \in Closures /\ Idle.what = "nothing"
    BY ClosureLemma
  <2>2. posted = <<>> /\ posted \in Seq(Closures) /\ Len(posted) = 0
    BY EmptySeq DEF ShimInit
  <2>3. ShimTypes
    BY <2>1, <2>2, ShimAssumption DEF ShimInit, ShimTypes, Values
  <2>4. QuitIsLast
    BY <2>1, <2>2 DEF ShimInit, QuitIsLast
  <2>5. OwnResults
    BY DEF ShimInit, OwnResults
  <2> QED
    BY <2>3, <2>4, <2>5 DEF ShimInv
<1>2. ShimInv /\ [ShimNext]_shimVars => ShimInv'
  <2> SUFFICES ASSUME ShimInv, [ShimNext]_shimVars PROVE ShimInv'
    OBVIOUS
  <2>1. CASE UNCHANGED shimVars
    BY <2>1 DEF shimVars, ShimInv, ShimTypes, QuitIsLast, OwnResults
  <2>2. ASSUME NEW t \in Threads, Call(t) \/ Listen(t) PROVE ShimInv'
    <3>1. PICK what \in {"call", "listen"}, state \in {"calling", "listening"} : Post(t, what, state)
      BY <2>2 DEF Call, Listen
    <3>2. nth' \in [Threads -> 0 .. MaxCalls] /\ nth'[t] \in 0 .. MaxCalls
      BY <3>1, ShimAssumption DEF Post, ShimInv, ShimTypes
    <3>3. Closure(t, nth'[t], what) \in Closures /\ Closure(t, nth'[t], what).what # "quit"
      BY <3>2, ClosureLemma DEF Kinds
    <3>4. /\ qt = "ready" /\ qt' = "ready" /\ posted' = Append(posted, Closure(t, nth'[t], what))
          /\ UNCHANGED <<running, slot, answer, results>>
      BY <3>1 DEF Post
    <3> QED
      BY <3>2, <3>3, <3>4, PostStep
  <2>3. CASE Destroy
    <3>1. Closure(NoThread, 0, "quit") \in Closures /\ Closure(NoThread, 0, "quit").what = "quit"
      BY ClosureLemma, ShimAssumption DEF Kinds
    <3>2. /\ qt = "ready" /\ qt' = "quitting" /\ posted' = Append(posted, Closure(NoThread, 0, "quit"))
          /\ nth' \in [Threads -> 0 .. MaxCalls] /\ UNCHANGED <<running, slot, answer, results>>
      BY <2>3 DEF Destroy, ShimInv, ShimTypes
    <3> QED
      BY <3>1, <3>2, PostStep
  <2> QED
    BY <2>1, <2>2, <2>3, TakeStep, RunStep, ResumeStep, LifeStep DEF ShimNext
<1>3. ShimInv => LateCallsAreHarmless
  BY DEF ShimInv, QuitIsLast, OwnResults, LateCallsAreHarmless
<1> QED
  BY <1>1, <1>2, <1>3, PTL DEF ShimSpec

-------------------------------------------------------------------------------
(* The chain *)

ChainSpec == ChainInit /\ [][ChainNext]_chainVars

\* The numbers of a set have a least one.
LEMMA LeastLemma ==
    ASSUME NEW T, T \subseteq Nat, T # {}
    PROVE  \E i \in T : \A j \in T : i <= j
<1>1. PICK i \in T : \A j \in T : ~(<<j, i>> \in OpToRel(<, Nat))
  BY NatLessThanWellFounded, WFMin, Zenon
<1>2. \A j \in T : ~(j < i)
  BY <1>1, Zenon DEF OpToRel
<1> QED
  BY <1>2

\* An amount cut to the width of the code is no larger.
LEMMA CutLemma == ASSUME NEW n \in Nat PROVE U64(n) \in Nat /\ U64(n) <= n
<1> DEFINE m == 2 ^ Width
<1>1. m \in Nat \ {0}
  BY ChainAssumption
<1> HIDE DEF m
<1>2. n % m \in Nat /\ n % m <= n
  BY <1>1
<1> QED
  BY <1>2 DEF U64, m

\* What parse_transfer_log gives is no more than some log of the receipt says.
Backed(d, logs) ==
    \E i \in 1 .. Len(logs) :
        /\ logs[i].event = "Transfer" /\ (contract = "any" \/ logs[i].token = "ours")
        /\ d.to = logs[i].to /\ d.amount <= logs[i].amount /\ logs[i].amount \in Nat

LEMMA ParseLemma ==
    ASSUME NEW logs \in Seq(Logs), ParseTransferLog(logs) # NoTransfer
    PROVE  Backed(ParseTransferLog(logs), logs) /\ ParseTransferLog(logs).amount \in Nat
<1> DEFINE is == {i \in 1 .. Len(logs) : IsTransfer(logs[i])}
           first == CHOOSE i \in is : \A j \in is : i <= j
           d == ParseTransferLog(logs)
<1>1. is # {}
  BY DEF ParseTransferLog
<1>2. is \subseteq Nat
  OBVIOUS
<1>3. first \in is
  <2>1. \E i \in is : \A j \in is : i <= j
    <3> HIDE DEF is
    <3> QED
      BY <1>1, <1>2, LeastLemma, Zenon
  <2> HIDE DEF is
  <2> QED
    BY <2>1
<1>4. d = [to |-> logs[first].to, amount |-> U64(logs[first].amount)]
  BY <1>1 DEF ParseTransferLog
<1>5. first \in 1 .. Len(logs) /\ IsTransfer(logs[first])
  BY <1>3
<1>6. logs[first].amount \in Nat
  <2>1. logs[first] \in Logs
    BY <1>5, ElementOfSeq
  <2> HIDE DEF first
  <2> QED
    BY <2>1, ChainAssumption, Zenon DEF Logs
<1> HIDE DEF first
<1>7. d.to = logs[first].to /\ d.amount = U64(logs[first].amount)
  BY <1>4
<1>8. d.amount \in Nat /\ d.amount <= logs[first].amount
  BY <1>6, <1>7, CutLemma
<1> HIDE DEF d
<1>9. Backed(d, logs)
  BY <1>5, <1>6, <1>7, <1>8 DEF Backed, IsTransfer
<1> QED
  BY <1>8, <1>9 DEF d

\* The chain has a transfer that pays the fee.
Settled ==
    /\ receipt.state = "mined"
    /\ \E k \in 1 .. Len(receipt.logs) :
        /\ receipt.logs[k].event = "Transfer" /\ receipt.logs[k].amount >= fee
        /\ contract = "any" \/ receipt.logs[k].token = "ours"
        /\ account = "any" \/ receipt.logs[k].to = Payee

Namings == [spelling : Spellings, accepted : BOOLEAN]

\* A task that was accepted had a transfer to show for it, and its spelling is in seen_tx_hashes; no
\* earlier one of that spelling had been accepted.
NamedInv(ns, us) ==
    \A i \in 1 .. Len(ns) : ns[i].accepted =>
        /\ Settled /\ Spelt(ns[i].spelling) \in us
        /\ \A j \in 1 .. i - 1 : ns[j].accepted => ns[j].spelling # ns[i].spelling

ReadInv ==
    /\ receipt.logs \in Seq(Logs) /\ fee \in Nat /\ named \in Seq(Namings)
    /\ NamedInv(named, used)

LEMMA SettledLemma ==
    ASSUME fee \in Nat, NEW d, Backed(d, receipt.logs), receipt.state = "mined",
           d.amount \in Nat, d.amount >= fee, account = "any" \/ d.to = Payee
    PROVE  Settled
<1>1. PICK k \in 1 .. Len(receipt.logs) :
          /\ receipt.logs[k].event = "Transfer" /\ (contract = "any" \/ receipt.logs[k].token = "ours")
          /\ d.to = receipt.logs[k].to
          /\ d.amount <= receipt.logs[k].amount /\ receipt.logs[k].amount \in Nat
  BY Zenon DEF Backed
<1>2. \A a, b \in Nat : a <= b /\ a >= fee => b >= fee
  OBVIOUS
<1>3. receipt.logs[k].amount >= fee
  BY <1>1, <1>2, Zenon
<1> QED
  BY <1>1, <1>3, Zenon DEF Settled

\* One more task named the transaction.
LEMMA NamedLemma ==
    ASSUME NEW ns \in Seq(Namings), NEW us, NEW vs, NEW s \in Spellings, NEW ok \in BOOLEAN,
           NamedInv(ns, us), us \subseteq vs,
           ok => Settled /\ Spelt(s) \notin us /\ Spelt(s) \in vs
    PROVE  NamedInv(Append(ns, [spelling |-> s, accepted |-> ok]), vs)
<1> DEFINE n == [spelling |-> s, accepted |-> ok]
           ms == Append(ns, n)
<1>1. n \in Namings /\ n.spelling = s /\ n.accepted = ok
  BY DEF Namings
<1> HIDE DEF n
<1>2. /\ Len(ms) = Len(ns) + 1 /\ Len(ns) \in Nat
      /\ ms[Len(ns) + 1] = n /\ \A i \in 1 .. Len(ns) : ms[i] = ns[i]
  BY <1>1, AppendProperties, LenProperties
<1> HIDE DEF ms
<1>3. ASSUME NEW i \in 1 .. Len(ms), ms[i].accepted
      PROVE  /\ Settled /\ Spelt(ms[i].spelling) \in vs
             /\ \A j \in 1 .. i - 1 : ms[j].accepted => ms[j].spelling # ms[i].spelling
  <2>1. CASE i \in 1 .. Len(ns)
    <3>1. ms[i] = ns[i] /\ \A j \in 1 .. i - 1 : ms[j] = ns[j]
      BY <1>2, <2>1
    <3> QED
      BY <1>3, <2>1, <3>1 DEF NamedInv
  <2>2. CASE i = Len(ns) + 1
    <3>1. ms[i] = n /\ \A j \in 1 .. i - 1 : j \in 1 .. Len(ns) /\ ms[j] = ns[j]
      BY <1>2, <2>2
    <3>2. ok
      BY <1>1, <1>3, <3>1
    <3>3. \A j \in 1 .. i - 1 : ms[j].accepted => Spelt(ms[j].spelling) \in us
      BY <3>1, Zenon DEF NamedInv
    <3>4. \A j \in 1 .. i - 1 : ms[j].accepted => ms[j].spelling # s
      BY <3>2, <3>3, Zenon
    <3> QED
      BY <1>1, <3>1, <3>2, <3>4, Zenon
  <2>3. i \in 1 .. Len(ns) \/ i = Len(ns) + 1
    BY <1>2
  <2> QED
    BY <2>1, <2>2, <2>3, Zenon
<1>4. NamedInv(ms, vs)
  BY <1>3 DEF NamedInv
<1> QED
  BY <1>4 DEF ms, n

LEMMA ReadStep == ReadInv /\ [ChainNext]_chainVars => ReadInv'
<1> SUFFICES ASSUME ReadInv, [ChainNext]_chainVars PROVE ReadInv'
  OBVIOUS
<1>1. ASSUME UNCHANGED <<receipt, fee, account, contract>>, named' \in Seq(Namings), NamedInv(named', used')
      PROVE  ReadInv'
  BY <1>1 DEF ReadInv, NamedInv, Settled
<1>2. ASSUME NEW s \in Spellings, VerifyPayment(s) PROVE ReadInv'
  <2>1. UNCHANGED <<receipt, fee, account, contract>>
    BY <1>2 DEF VerifyPayment
  <2>2. PICK found \in RpcCall(receipt, [state |-> "absent", logs |-> <<>>]) :
          LET details == VerifyTransfer(found)
              accepted == /\ Spelt(s) \notin used
                          /\ details # NoTransfer /\ details.amount >= fee
                          /\ account = "any" \/ details.to = Payee
          IN /\ named' = Append(named, [spelling |-> s, accepted |-> accepted])
             /\ used' = IF accepted THEN used \cup {Spelt(s)} ELSE used
    BY <1>2, Zenon DEF VerifyPayment
  <2> DEFINE d == VerifyTransfer(found)
             ok == /\ Spelt(s) \notin used
                   /\ d # NoTransfer /\ d.amount >= fee
                   /\ account = "any" \/ d.to = Payee
  <2>3. named' = Append(named, [spelling |-> s, accepted |-> ok])
    BY <2>2
  <2>4. used' = IF ok THEN used \cup {Spelt(s)} ELSE used
    BY <2>2
  <2>5. d # NoTransfer => found = receipt /\ receipt.state = "mined" /\ d = ParseTransferLog(receipt.logs)
    BY <2>2 DEF RpcCall, VerifyTransfer
  <2>6. ok => Settled
    <3> SUFFICES ASSUME ok PROVE Settled
      OBVIOUS
    <3>1. /\ d = ParseTransferLog(receipt.logs) /\ d # NoTransfer /\ receipt.state = "mined"
          /\ d.amount >= fee /\ (account = "any" \/ d.to = Payee)
      BY <2>5
    <3>2. Backed(d, receipt.logs) /\ d.amount \in Nat
      BY <3>1, ParseLemma DEF ReadInv
    <3> HIDE DEF d
    <3> QED
      BY <3>1, <3>2, SettledLemma DEF ReadInv
  <2>7. ok \in BOOLEAN /\ (ok => Spelt(s) \notin used)
    OBVIOUS
  <2> HIDE DEF ok, d
  <2>8. used \subseteq used' /\ (ok => Spelt(s) \in used')
    BY <2>4
  <2>9. NamedInv(named', used')
    <3>1. named \in Seq(Namings) /\ NamedInv(named, used)
      BY DEF ReadInv
    <3> QED
      BY <2>3, <2>6, <2>7, <2>8, <3>1, NamedLemma
  <2>10. named' \in Seq(Namings)
    <3>1. [spelling |-> s, accepted |-> ok] \in Namings
      BY <2>7 DEF Namings
    <3> QED
      BY <2>3, <3>1, AppendProperties DEF ReadInv
  <2> QED
    BY <1>1, <2>1, <2>9, <2>10
<1>3. ASSUME UNCHANGED <<receipt, fee, account, contract, named>>, used \subseteq used' PROVE ReadInv'
  <2>1. NamedInv(named', used') /\ named' \in Seq(Namings)
    BY <1>3 DEF ReadInv, NamedInv
  <2> QED
    BY <1>1, <1>3, <2>1
<1>4. CASE Balance
  BY <1>3, <1>4 DEF Balance
<1>5. ASSUME NEW n, SendPaid(n) PROVE ReadInv'
  BY <1>3, <1>5 DEF SendPaid
<1>6. CASE UNCHANGED chainVars
  BY <1>3, <1>6 DEF chainVars
<1> QED
  BY <1>2, <1>4, <1>5, <1>6 DEF ChainNext

\* The hash of pay tells payments to one payee apart by their amount.
LEMMA PayLemma == ASSUME NEW n, NEW k PROVE Pay(n) = Pay(k) => n = k
<1> SUFFICES ASSUME Pay(n) = Pay(k) PROVE n = k
  OBVIOUS
<1>1. Pay(n)[2][1] = <<Payee, n>> /\ Pay(k)[2][1] = <<Payee, k>>
  BY DEF Pay, Digest
<1>2. <<Payee, n>> = <<Payee, k>>
  BY <1>1
<1> QED
  BY <1>2

PaidInv ==
    /\ paid \in Seq(Nat) /\ fee \in Nat
    /\ \A n : Pay(n) \in used => \E j \in 1 .. Len(paid) : Pay(n) = Pay(paid[j])
    /\ refused \subseteq 1 .. Len(paid)
    /\ \A i \in refused : paid[i] >= fee => \E j \in 1 .. i - 1 : paid[j] = paid[i]

LEMMA SendPaidStep == ASSUME PaidInv, NEW n \in Nat, SendPaid(n) PROVE PaidInv'
<1> DEFINE len == Len(paid)
<1>1. /\ paid' = Append(paid, n) /\ fee' = fee
      /\ \/ Pay(n) \notin used /\ n >= fee /\ used' = used \cup {Pay(n)} /\ refused' = refused
         \/ ~(Pay(n) \notin used /\ n >= fee) /\ refused' = refused \cup {Len(paid')} /\ used' = used
  BY DEF SendPaid, RpcCall
<1>2. /\ paid' \in Seq(Nat) /\ len \in Nat /\ Len(paid') = len + 1
      /\ paid'[len + 1] = n /\ \A i \in 1 .. len : paid'[i] = paid[i]
  <2>1. paid \in Seq(Nat)
    BY Zenon DEF PaidInv
  <2> QED
    BY <1>1, <2>1
<1>3. /\ \A k : Pay(k) \in used => \E j \in 1 .. len : Pay(k) = Pay(paid[j])
      /\ refused \subseteq 1 .. len
      /\ \A i \in refused : paid[i] >= fee => \E j \in 1 .. i - 1 : paid[j] = paid[i]
  BY DEF PaidInv
<1> HIDE DEF len
<1>4. ASSUME NEW k, Pay(k) \in used' PROVE \E j \in 1 .. len + 1 : Pay(k) = Pay(paid'[j])
  <2>1. CASE Pay(k) \in used
    <3>1. PICK j \in 1 .. len : Pay(k) = Pay(paid[j])
      BY <1>3, <2>1
    <3>2. j \in 1 .. len + 1 /\ paid'[j] = paid[j]
      BY <1>2
    <3> QED
      BY <3>1, <3>2
  <2>2. CASE Pay(k) = Pay(n)
    <3>1. len + 1 \in 1 .. len + 1 /\ paid'[len + 1] = n
      BY <1>2
    <3> QED
      BY <2>2, <3>1
  <2> QED
    BY <1>1, <1>4, <2>1, <2>2, Zenon
<1>5. ASSUME NEW i \in refused', paid'[i] >= fee PROVE \E j \in 1 .. i - 1 : paid'[j] = paid'[i]
  <2>1. CASE i \in refused
    <3>1. i \in 1 .. len /\ paid'[i] = paid[i]
      BY <1>2, <1>3, <2>1
    <3>2. PICK j \in 1 .. i - 1 : paid[j] = paid[i]
      BY <1>3, <1>5, <2>1, <3>1
    <3>3. j \in 1 .. len
      BY <1>2, <3>1
    <3> QED
      BY <1>2, <3>1, <3>2, <3>3
  <2>2. CASE i \notin refused
    <3>1. i = len + 1 /\ Pay(n) \in used
      BY <1>1, <1>2, <1>5, <2>2
    <3>2. PICK j \in 1 .. len : Pay(n) = Pay(paid[j])
      BY <1>3, <3>1
    <3>3. n = paid[j]
      BY <3>2, PayLemma
    <3>4. j \in 1 .. i - 1 /\ paid'[j] = n /\ paid'[i] = n
      BY <1>2, <3>1, <3>3
    <3> QED
      BY <3>4
  <2> QED
    BY <2>1, <2>2
<1>6. ASSUME NEW i \in refused' PROVE i \in 1 .. len + 1
  <2>1. i \in refused \/ i = len + 1
    BY <1>1, <1>2
  <2>2. i \in 1 .. len \/ i = len + 1
    BY <1>3, <2>1, Zenon
  <2> QED
    BY <1>2, <2>2
<1>7. fee' \in Nat /\ refused' \subseteq 1 .. len + 1
  BY <1>1, <1>6 DEF PaidInv
<1>8. \A k : Pay(k) \in used' => \E j \in 1 .. Len(paid') : Pay(k) = Pay(paid'[j])
  BY <1>2, <1>4, Zenon
<1>9. \A i \in refused' : paid'[i] >= fee' => \E j \in 1 .. i - 1 : paid'[j] = paid'[i]
  BY <1>1, <1>5, Zenon
<1>10. (\A k : Pay(k) \in used => \E j \in 1 .. Len(paid) : Pay(k) = Pay(paid[j]))'
  BY <1>8 DEF Pay
<1> QED
  BY <1>2, <1>7, <1>9, <1>10, Zenon DEF PaidInv

LEMMA PaidStep == PaidInv /\ [ChainNext]_chainVars => PaidInv'
<1> SUFFICES ASSUME PaidInv, [ChainNext]_chainVars PROVE PaidInv'
  OBVIOUS
<1>1. ASSUME UNCHANGED <<fee, paid, used, refused>> PROVE PaidInv'
  BY <1>1 DEF PaidInv
<1>2. CASE Balance \/ UNCHANGED chainVars
  BY <1>1, <1>2, Zenon DEF Balance, chainVars
<1>3. ASSUME NEW n \in Fees, SendPaid(n) PROVE PaidInv'
  BY <1>3, SendPaidStep, ChainAssumption
<1>4. ASSUME NEW s \in Spellings, VerifyPayment(s) PROVE PaidInv'
  <2>1. UNCHANGED <<fee, paid, refused>> /\ (used' = used \/ used' = used \cup {Spelt(s)})
    BY <1>4 DEF VerifyPayment
  <2>2. \A n : Pay(n) # Spelt(s)
    BY DEF Pay, Spelt
  <2>3. \A n : Pay(n) \in used' => Pay(n) \in used
    BY <2>1, <2>2
  <2> QED
    BY <2>1, <2>3, Zenon DEF PaidInv, Pay
<1> QED
  BY <1>2, <1>3, <1>4 DEF ChainNext

BalanceInv == holds \in Nat /\ reported \in Int /\ reported <= holds

LEMMA BalanceStep == BalanceInv /\ [ChainNext]_chainVars => BalanceInv'
<1> SUFFICES ASSUME BalanceInv, [ChainNext]_chainVars PROVE BalanceInv'
  OBVIOUS
<1>1. CASE Balance
  <2>1. holds' \in Nat /\ reported' = IF holds' < 2 ^ Width THEN holds' ELSE 0
    BY <1>1, ChainAssumption DEF Balance, RpcCall, BalanceOf
  <2> QED
    BY <2>1 DEF BalanceInv
<1>2. ASSUME UNCHANGED <<holds, reported>> PROVE BalanceInv'
  BY <1>2 DEF BalanceInv
<1>3. CASE UNCHANGED chainVars
  BY <1>2, <1>3 DEF chainVars
<1>4. ASSUME NEW n, SendPaid(n) PROVE BalanceInv'
  BY <1>2, <1>4 DEF SendPaid
<1>5. ASSUME NEW s, VerifyPayment(s) PROVE BalanceInv'
  BY <1>2, <1>5 DEF VerifyPayment
<1> QED
  BY <1>1, <1>3, <1>4, <1>5 DEF ChainNext

\* For every width of an amount, every receipt and every sequence of payments: verify_payment accepts
\* only what the chain has, and no two tasks that spell a hash alike, a task that paid the fee is turned away only for an amount the payer had
\* paid before, and balance never reports more than there is.
THEOREM ChainIsReadRightHolds == ChainSpec => []ChainIsReadRight
<1> DEFINE Inv == ReadInv /\ PaidInv /\ BalanceInv
<1>1. ChainInit => Inv
  <2> SUFFICES ASSUME ChainInit PROVE Inv
    OBVIOUS
  <2>1. receipt.logs \in Seq(Logs)
    <3>1. PICK n \in 0 .. MaxLogs : receipt.logs \in [1 .. n -> Logs]
      BY Zenon DEF ChainInit
    <3>2. n \in Nat
      BY ChainAssumption
    <3> QED
      BY <3>1, <3>2, SeqDef
  <2>2. fee \in Nat
    BY ChainAssumption, Zenon DEF ChainInit
  <2>3. ReadInv
    BY <2>1, <2>2, EmptySeq DEF ChainInit, ReadInv, NamedInv
  <2>4. PaidInv
    BY <2>2, EmptySeq DEF ChainInit, PaidInv
  <2>5. BalanceInv
    <3>1. holds = 0 /\ reported = Unread
      BY Zenon DEF ChainInit
    <3> QED
      BY <3>1 DEF BalanceInv, Unread
  <2> QED
    BY <2>3, <2>4, <2>5
<1>2. Inv /\ [ChainNext]_chainVars => Inv'
  BY ReadStep, PaidStep, BalanceStep
<1>3. Inv => ChainIsReadRight
  <2> SUFFICES ASSUME Inv PROVE ChainIsReadRight
    OBVIOUS
  <2>1. NamedInv(named, used)
    BY DEF ReadInv
  <2> QED
    BY <2>1 DEF NamedInv, Settled, PaidInv, BalanceInv, ChainIsReadRight
<1> QED
  BY <1>1, <1>2, <1>3, PTL DEF ChainSpec

===============================================================================
