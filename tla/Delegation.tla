------------------------------ MODULE Delegation ------------------------------
(***************************************************************************)
(* Delegation of subtasks and the agents that work on them:                *)
(* delegate_task, delegate_direct, delegate_broadcast and delegate_to_peer *)
(* (node/src/delegation.rs), respond and respond_failed                    *)
(* (tasks/respond.rs) and the inbox loop of `lmao agent run`               *)
(* (cli/src/agent.rs).                                                     *)
(*                                                                         *)
(* One node, Me, runs calls of delegate_* against peers that run the inbox *)
(* loop; with myInbox the node runs the loop too, as the daemon of an      *)
(* agent does.  All of them drain the one task queue of their node.        *)
(* Subtasks and answers are raw envelopes: no SDS.                         *)
(***************************************************************************)
EXTENDS Integers, Sequences, FiniteSets, Functions

CONSTANTS
    Me, Peers,
    Calls,
    Broadcasts,     \* bound: the calls that may be calls of delegate_broadcast, and the only
                    \* ones made when Me runs the inbox loop
    Capable,        \* peers that advertise the capability asked for
    MaxConcurrent,  \* max_concurrent of the agents
    MaxHops         \* bound: how often an answer is answered again

ASSUME DelegationAssumption ==
    /\ Me \notin Peers
    /\ Capable \subseteq Peers /\ Broadcasts \subseteq Calls
    /\ MaxConcurrent \in Nat \ {0}
    /\ MaxHops \in Nat

Nodes == Peers \cup {Me}
States == {"submitted", "completed", "failed"}
Subtask == Calls \X Peers
Task == [id : Subtask, from : Nodes, to : Nodes, state : States, hop : Nat]
Outcomes == {"success", "failure", "timeout"}

VARIABLES
    myInbox,     \* Me runs the inbox loop as well
    pc,          \* where a call is
    collects,    \* the call is one of delegate_broadcast
    todo,        \* peers a call has still to ask
    target,      \* the peer a call is asking
    results,     \* DelegationResults of a call
    queue,       \* task queue of a node
    batch,       \* tasks an inbox loop has still to process
    accepted,    \* accepted_this_batch of an inbox loop
    working,     \* the task an inbox loop runs, if any
    reached,     \* history: answers that have reached the queue of Me
    taken,       \* history: answers that were drained from it by someone else than their call
    rejected,    \* history: subtasks that were answered for want of capacity
    completed,   \* history: subtasks their peer has run to completion
    misjudged    \* history: a call chose or refused against what its view of the peers says

calls == <<myInbox, pc, collects, todo, target, results>>
agents == <<batch, accepted, working>>
histories == <<reached, taken, rejected, completed, misjudged>>
vars == <<calls, queue, agents, histories>>

Agents == IF myInbox THEN Nodes ELSE Peers

Init ==
    /\ myInbox \in BOOLEAN
    /\ pc = [d \in Calls |-> "start"]
    /\ collects = [d \in Calls |-> FALSE]
    /\ todo = [d \in Calls |-> {}]
    /\ target = [d \in Calls |-> Me]
    /\ results = [d \in Calls |-> {}]
    /\ queue = [n \in Nodes |-> <<>>]
    /\ batch = [n \in Nodes |-> <<>>]
    /\ accepted = [n \in Nodes |-> 0]
    /\ working = [n \in Nodes |-> <<>>]
    /\ reached = {} /\ taken = {} /\ rejected = {} /\ completed = {}
    /\ misjudged = FALSE

-------------------------------------------------------------------------------
(* Selection *)

\* A request to the daemon: --to, --capability, --broadcast and --strategy.
DelegateRequests ==
    [to : BOOLEAN, capability : BOOLEAN, broadcast : BOOLEAN,
     strategy : {"none", "first-available", "round-robin", "broadcast"}]

Strategies == {"first", "capability", "round_robin", "broadcast"}

\* build_strategy: a named strategy comes before the capability.
BuildStrategy(r) ==
    CASE r.to \/ r.strategy = "first-available" -> "first"
      [] ~r.to /\ r.strategy = "round-robin" -> "round_robin"
      [] ~r.to /\ r.strategy = "broadcast" -> "broadcast"
      [] OTHER -> IF r.capability THEN "capability" ELSE "first"

\* The strategies of the requests that become calls of delegate_broadcast, or of delegate_task.
StrategiesOf(all) == {BuildStrategy(r) : r \in {q \in DelegateRequests : ~q.to /\ q.broadcast = all}}

Loads == {"free", "busy", "unknown", "full"}

\* What a call sees of the peer map and of the trust list; in TrustMode::Off all are trusted.
Views == [live : SUBSET Peers, trusted : SUBSET Peers, load : [Peers -> Loads]]

LoadRank(load) ==
    CASE load = "free" -> 0
      [] load = "busy" -> 1
      [] load = "unknown" -> 2
      [] load = "full" -> 3

\* The least loaded of some peers.
Best(v, ps) == {p \in ps : \A q \in ps : LoadRank(v.load[p]) <= LoadRank(v.load[q])}

\* The live peers a strategy looks at, and those of them that may be asked.
LivePeers(v, strategy) == v.live \cap (IF strategy = "capability" THEN Capable ELSE Peers)
Pool(v, strategy) == LivePeers(v, strategy) \cap v.trusted

\* The error of a call that found nobody: no peer, or only peers the trust list filters.
NoTrustedPeersErr(v, strategy) ==
    IF strategy \in {"first", "capability"} /\ LivePeers(v, strategy) # {}
    THEN "filtered" ELSE "nobody"

\* Mutant: load is not looked at.
CandidatesUnsorted(v, strategy) == Pool(v, strategy)

\* The peers delegate_task may choose: the least loaded that may be asked; for RoundRobin those
\* that are among the least loaded of all live peers.
Candidates(v, strategy) ==
    IF strategy = "round_robin" THEN Best(v, v.live) \cap Pool(v, strategy)
    ELSE Best(v, Pool(v, strategy))

\* What is expected of the choice: nobody else who may be asked has less load, and a call is
\* refused only when nobody may be asked (RoundRobin: nobody of the best tier).
GoodChoice(v, strategy, p) ==
    /\ p \in v.live /\ p \in v.trusted
    /\ \A q \in Pool(v, strategy) : LoadRank(v.load[p]) <= LoadRank(v.load[q])
GoodRefusal(v, strategy) ==
    /\ strategy # "round_robin" => Pool(v, strategy) = {}
    /\ NoTrustedPeersErr(v, strategy) = "filtered" => LivePeers(v, strategy) \ v.trusted # {}

\* Whom delegate_task may choose, if anyone, and whether that is what is expected.
ChoicesOf(v, strategy) ==
    IF Candidates(v, strategy) = {} THEN {[ps |-> {}, good |-> GoodRefusal(v, strategy)]}
    ELSE {[ps |-> {p}, good |-> GoodChoice(v, strategy, p)] : p \in Candidates(v, strategy)}

Choices == UNION {UNION {ChoicesOf(v, strategy) : strategy \in StrategiesOf(FALSE)} : v \in Views}

Starts(d) == pc[d] = "start" /\ (myInbox => d \in Broadcasts)

Chosen(d, ps, all) ==
    /\ pc' = [pc EXCEPT ![d] = IF ps = {} THEN "error" ELSE "next"]
    /\ todo' = [todo EXCEPT ![d] = ps]
    /\ collects' = [collects EXCEPT ![d] = all]

\* delegate_task picks a peer or returns an error.
DelegateTask(d) ==
    /\ Starts(d)
    /\ \E choice \in Choices :
           /\ Chosen(d, choice.ps, FALSE)
           /\ misjudged' = (misjudged \/ ~choice.good)
    /\ UNCHANGED <<myInbox, target, results, queue, agents, reached, taken, rejected, completed>>

\* delegate_direct asks the peer given, if it is trusted.
DelegateDirect(d) ==
    /\ Starts(d)
    /\ \/ \E p \in Peers : Chosen(d, {p}, FALSE)
       \/ Chosen(d, {}, FALSE)
    /\ UNCHANGED <<myInbox, target, results, queue, agents, histories>>

\* delegate_broadcast asks all that may be asked.
DelegateBroadcast(d) ==
    /\ Starts(d) /\ d \in Broadcasts
    /\ \E ps \in UNION {{Pool(v, strategy) : strategy \in StrategiesOf(TRUE)} : v \in Views} :
           Chosen(d, ps, TRUE)
    /\ UNCHANGED <<myInbox, target, results, queue, agents, histories>>

-------------------------------------------------------------------------------
(* delegate_to_peer *)

Send(t) == queue' = [queue EXCEPT ![t.to] = Append(@, t)]

\* Publish the subtask to the next peer and start polling.
SendSubtask(d) ==
    /\ pc[d] = "next"
    /\ \E p \in todo[d] :
           /\ todo' = [todo EXCEPT ![d] = @ \ {p}]
           /\ target' = [target EXCEPT ![d] = p]
           /\ Send([id |-> <<d, p>>, from |-> Me, to |-> p, state |-> "submitted", hop |-> 0])
    /\ pc' = [pc EXCEPT ![d] = "poll"]
    /\ UNCHANGED <<myInbox, collects, results, agents, histories>>

\* An error: delegate_broadcast notes it and goes on, the others return it.
Fail(d, p) ==
    /\ results' = IF collects[d] THEN [results EXCEPT ![d] = @ \cup {<<p, "failure">>}] ELSE results
    /\ pc' = [pc EXCEPT ![d] = IF collects[d] THEN "next" ELSE "error"]

\* The publish of the subtask fails.
SendError(d) ==
    /\ pc[d] = "next"
    /\ \E p \in todo[d] : todo' = [todo EXCEPT ![d] = @ \ {p}] /\ Fail(d, p)
    /\ UNCHANGED <<myInbox, collects, target, queue, agents, histories>>

\* poll_tasks fails.
PollError(d) ==
    /\ pc[d] = "poll"
    /\ Fail(d, target[d])
    /\ UNCHANGED <<myInbox, collects, todo, target, queue, agents, histories>>

Own(d, t) == t.id = <<d, target[d]>>

Finish(d, outcome) ==
    /\ results' = [results EXCEPT ![d] = @ \cup {<<target[d], outcome>>}]
    /\ pc' = [pc EXCEPT ![d] = "next"]

Outcome(t) == IF t.state = "failed" THEN "failure" ELSE "success"

\* Mutant: only the first task of a poll is looked at.
PollFirst(d) ==
    /\ pc[d] = "poll"
    /\ queue[Me] # <<>>
    /\ queue' = [queue EXCEPT ![Me] = <<>>]
    /\ IF Own(d, Head(queue[Me])) THEN Finish(d, Outcome(Head(queue[Me])))
       ELSE UNCHANGED <<results, pc>>
    /\ taken' = taken \cup {t.id : t \in {u \in Range(queue[Me]) : ~Own(d, u)}}
    /\ UNCHANGED <<myInbox, collects, todo, target, agents, reached, rejected, completed,
                   misjudged>>

\* One round of the loop: poll_tasks drains the queue of the node; the first task with the id
\* of the subtask is the answer, all others are dropped.
PollAnswer(d) ==
    /\ pc[d] = "poll"
    /\ queue[Me] # <<>>
    /\ queue' = [queue EXCEPT ![Me] = <<>>]
    /\ \/ (\A i \in DOMAIN queue[Me] : ~Own(d, queue[Me][i])) /\ UNCHANGED <<results, pc>>
       \/ \E i \in DOMAIN queue[Me] :
              /\ Own(d, queue[Me][i]) /\ \A j \in 1 .. i - 1 : ~Own(d, queue[Me][j])
              /\ Finish(d, Outcome(queue[Me][i]))
    /\ taken' = taken \cup {t.id : t \in {u \in Range(queue[Me]) : ~Own(d, u)}}
    /\ UNCHANGED <<myInbox, collects, todo, target, agents, reached, rejected, completed,
                   misjudged>>

\* Mutant: the deadline is looked at only after a poll that brought something.
ExpireAfterPoll(d) ==
    /\ pc[d] = "poll"
    /\ queue[Me] # <<>>
    /\ Finish(d, "timeout")
    /\ UNCHANGED <<myInbox, collects, todo, target, queue, agents, histories>>

\* The deadline passes between two polls, possibly just after the answer has arrived.
Expire(d) ==
    /\ pc[d] = "poll"
    /\ Finish(d, "timeout")
    /\ UNCHANGED <<myInbox, collects, todo, target, queue, agents, histories>>

\* Every peer has been asked.
Return(d) ==
    /\ pc[d] = "next"
    /\ todo[d] = {}
    /\ pc' = [pc EXCEPT ![d] = "done"]
    /\ UNCHANGED <<myInbox, collects, todo, target, results, queue, agents, histories>>

-------------------------------------------------------------------------------
(* The inbox loop *)

\* poll_tasks of the loop: everything in the queue is the next batch.
DrainInbox(n) ==
    /\ working[n] = <<>> /\ batch[n] = <<>> /\ queue[n] # <<>>
    /\ batch' = [batch EXCEPT ![n] = queue[n]]
    /\ queue' = [queue EXCEPT ![n] = <<>>]
    /\ accepted' = [accepted EXCEPT ![n] = 0]
    /\ taken' = IF n = Me THEN taken \cup {t.id : t \in Range(queue[n])} ELSE taken
    /\ UNCHANGED <<calls, working, reached, rejected, completed, misjudged>>

\* Task::respond_with_state: same id, from and to swapped.
Respond(t, state) ==
    [id |-> t.id, from |-> t.to, to |-> t.from, state |-> state, hop |-> t.hop + 1]

\* publish_response: the answer reaches the queue of the sender, or the publish fails.
Publish(t) ==
    \/ /\ Send(t)
       /\ reached' = IF t.to = Me THEN reached \cup {t.id} ELSE reached
    \/ UNCHANGED <<queue, reached>>

\* More tasks in the batch than max_concurrent: an answer says so at once.
RejectTask(n) ==
    /\ working[n] = <<>> /\ batch[n] # <<>>
    /\ accepted[n] >= MaxConcurrent
    /\ Head(batch[n]).hop <= MaxHops
    /\ batch' = [batch EXCEPT ![n] = Tail(@)]
    /\ rejected' = rejected \cup {Head(batch[n]).id}
    /\ Publish(Respond(Head(batch[n]), "completed"))
    /\ UNCHANGED <<calls, accepted, working, taken, completed, misjudged>>

\* load_inc, then the command runs; the loop does nothing else meanwhile.
StartTask(n) ==
    /\ working[n] = <<>> /\ batch[n] # <<>>
    /\ accepted[n] < MaxConcurrent
    /\ Head(batch[n]).hop <= MaxHops
    /\ accepted' = [accepted EXCEPT ![n] = @ + 1]
    /\ working' = [working EXCEPT ![n] = <<Head(batch[n])>>]
    /\ batch' = [batch EXCEPT ![n] = Tail(@)]
    /\ UNCHANGED <<calls, queue, histories>>

\* load_dec and respond or respond_failed.
FinishTask(n, state) ==
    /\ working[n] # <<>>
    /\ working' = [working EXCEPT ![n] = <<>>]
    /\ completed' = IF state = "completed" /\ n # Me
                    THEN completed \cup {Head(working[n]).id} ELSE completed
    /\ Publish(Respond(Head(working[n]), state))
    /\ UNCHANGED <<calls, batch, accepted, taken, rejected, misjudged>>

-------------------------------------------------------------------------------

CallStep(d) == SendSubtask(d) \/ PollAnswer(d) \/ Expire(d) \/ Return(d)

Next ==
    \/ \E d \in Calls :
           \/ DelegateTask(d) \/ DelegateDirect(d) \/ DelegateBroadcast(d)
           \/ SendError(d) \/ PollError(d) \/ CallStep(d)
    \/ \E n \in Agents :
           \/ DrainInbox(n) \/ RejectTask(n) \/ StartTask(n)
           \/ \E state \in {"completed", "failed"} : FinishTask(n, state)

Spec == Init /\ [][Next]_vars

\* The runtime polls every call again, and its deadline passes.
FairSpec == Spec /\ \A d \in Calls : WF_vars(CallStep(d))

-------------------------------------------------------------------------------
(* Properties *)

\* Types of the calls, queues and agents.
TypeOK ==
    /\ myInbox \in BOOLEAN
    /\ pc \in [Calls -> {"start", "next", "poll", "done", "error"}]
    /\ collects \in [Calls -> BOOLEAN]
    /\ todo \in [Calls -> SUBSET Peers]
    /\ target \in [Calls -> Nodes]
    /\ results \in [Calls -> SUBSET (Peers \X Outcomes)]
    /\ \A n \in Nodes : Range(queue[n]) \cup Range(batch[n]) \cup Range(working[n]) \subseteq Task
    /\ accepted \in [Nodes -> 0..MaxConcurrent]
    /\ reached \cup taken \cup rejected \cup completed \subseteq Subtask
    /\ misjudged \in BOOLEAN

\* What delegate_task picks and reports is right.  The peer is live and trusted, nobody else who may be
\* asked has less load, and the call gives up only when nobody may be asked (RoundRobin also when its
\* best tier has nobody it trusts).  And a DelegationResult that reports success stands for a subtask
\* its peer has run to completion, or turned away for want of capacity: the agent answers that in
\* state Completed.
DelegationIsRight ==
    /\ ~misjudged
    /\ \A d \in Calls : \A r \in results[d] :
        r[2] = "success" => <<d, r[1]>> \in completed \cup rejected

\* The answers that have reached the node and are not in its queue any more.
Drained == reached \ {t.id : t \in Range(queue[Me])}

\* A call that reports a timeout has not overlooked the answer: it has not arrived, arrived
\* after the last poll, or was taken from the queue by another call or the inbox loop.
TimeoutIsJustified ==
    [][\A d \in Calls : \A r \in results'[d] \ results[d] :
           r[2] = "timeout" => <<d, r[1]>> \notin Drained \ taken]_vars

\* A call of a node that runs no inbox loop reports a timeout only when the answer has not arrived or
\* arrived after its last poll: it waits for the response of its peer, whichever other calls poll.
TimeoutMeansNoAnswer ==
    [][~myInbox => \A d \in Calls : \A r \in results'[d] \ results[d] :
           r[2] = "timeout" => <<d, r[1]>> \notin Drained]_vars

\* Every call returns once it has chosen its peers: in the end none is under way.
EveryCallReturns == <>[](\A d \in Calls : pc[d] \in {"start", "done", "error"})
===============================================================================
