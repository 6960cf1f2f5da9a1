----------------------------- MODULE ReliableSend -----------------------------
(***************************************************************************)
(* Reliable sending of tasks: send_task_to (tasks/send.rs), the RetryLayer *)
(* (node/src/retry.rs), MessageChannel::send_reliable and send_ack         *)
(* (sds/channel.rs) and the receiving half of poll_tasks (tasks/poll.rs)   *)
(* that answers with acknowledgements.                                     *)
(*                                                                         *)
(* One node runs a call of send_task for every task, concurrently or one   *)
(* after the other.  Every task has its own payload, hence its own message *)
(* id and its own acknowledgement topic; it is published on the topic of   *)
(* the receiver it is addressed to.  All calls share the channel of the    *)
(* node, and with it the local history from which the causal history of    *)
(* each message is taken.  Filters are exact, histories and buffers do not *)
(* overflow: SdsChannel models those limits.                               *)
(***************************************************************************)
EXTENDS Integers, FiniteSets

CONSTANTS
    Tasks,        \* tasks to send, each sent by one call of send_task
    Receivers,
    DestOf,       \* the receiver each task is addressed to
    MaxRetries,   \* ChannelConfig.max_retries
    MaxAttempts,  \* RetryConfig.max_attempts; 1 without a RetryConfig
    BaseDelay,    \* RetryConfig.base_delay_ms
    MaxDelay,     \* RetryConfig.max_delay_ms
    Jitter,       \* RetryConfig.jitter
    MaxErrors,    \* bound: publishes and subscriptions that report an error
    MaxLostData,  \* bound: copies of messages lost by the transport
    MaxLostAcks   \* bound: acknowledgements lost by the transport

ASSUME ReliableAssumption ==
    /\ DestOf \in [Tasks -> Receivers]
    /\ MaxRetries \in Nat
    /\ MaxAttempts \in Nat \ {0}
    /\ BaseDelay \in Nat /\ MaxDelay \in Nat /\ Jitter \in BOOLEAN
    /\ MaxErrors \in Nat
    /\ MaxLostData \in Nat
    /\ MaxLostAcks \in Nat

VARIABLES
    \* --- the sending node
    stage,        \* where the call of send_task for a task is
    tries,     \* attempts of the RetryLayer that have failed
    slept,     \* how long the RetryLayer has slept between its attempts
    attempt,   \* the loop counter of send_reliable
    ackQueue,  \* acknowledgements waiting in ack_rx
    deps,      \* the causal history of the message
    history,   \* ids in the local history of the channel
    copies,    \* how often the message has been published
    \* --- the transport
    net,       \* copies in flight
    ackNet,    \* acknowledgements in flight, per task
    errors, lostData, lostAcks,
    prompt,    \* no timeout fires while a copy or an ACK is on its way
    \* --- the receiving nodes
    seen,      \* ids in the filter of a receiver
    buffer,    \* copies in the incoming buffer of a receiver
    handed     \* how often the channel handed a task to poll_tasks

sender == <<stage, tries, slept, attempt, ackQueue, deps, history, copies>>
faults == <<errors, lostData, lostAcks, prompt>>
receiver == <<seen, buffer, handed>>
reliableVars == <<sender, net, ackNet, faults, receiver>>

Copy == [id : Tasks, deps : SUBSET Tasks, copy : Nat]
Returned == {"acked", "unacked", "failed"}

ReliableInit ==
    /\ stage = [t \in Tasks |-> "start"]
    /\ tries = [t \in Tasks |-> 0]
    /\ slept = [t \in Tasks |-> 0]
    /\ attempt = [t \in Tasks |-> 0]
    /\ ackQueue = [t \in Tasks |-> 0]
    /\ deps = [t \in Tasks |-> {}]
    /\ history = {}
    /\ copies = [t \in Tasks |-> 0]
    /\ net = {}
    /\ ackNet = [t \in Tasks |-> 0]
    /\ errors = 0 /\ lostData = 0 /\ lostAcks = 0
    /\ prompt \in BOOLEAN
    /\ seen = [r \in Receivers |-> {}]
    /\ buffer = [r \in Receivers |-> {}]
    /\ handed = [t \in Tasks |-> 0]

-------------------------------------------------------------------------------
(* The sender *)

\* Acknowledgements of a task a transport that replays may have kept: those not on their way.
Kept(t) == handed[t] - ackNet[t]

\* send_reliable starts, or the RetryLayer calls it again: causal history and subscription.  Some
\* transports hand a new subscriber what the topic has seen before, others do not.
Begin(t) ==
    /\ stage[t] = "start"
    /\ stage' = [stage EXCEPT ![t] = "publish"]
    /\ attempt' = [attempt EXCEPT ![t] = 0]
    /\ deps' = [deps EXCEPT ![t] = history]
    /\ \E n \in 0..Kept(t) : ackQueue' = [ackQueue EXCEPT ![t] = n]
    /\ UNCHANGED <<tries, slept, history, copies, net, ackNet, faults, receiver>>

\* RetryConfig::delay_ms.  The product saturates above every max_delay_ms, and so does the
\* exponent with any delay above 0.
DelayMs(n) ==
    LET exp == BaseDelay * 2^(IF n < 31 THEN n ELSE 31)
    IN  IF exp < MaxDelay THEN exp ELSE MaxDelay

\* compute_delay: with jitter, anything from half of the delay to all of it.
ComputeDelay(n) ==
    IF Jitter THEN {(DelayMs(n) + j) \div 2 : j \in 0..DelayMs(n)} ELSE {DelayMs(n)}

\* An Err of send_reliable reaches the RetryLayer: it sleeps and starts over, or gives up.
\* Nothing is unsubscribed or recorded on this path.
ReturnErr(t) ==
    /\ errors < MaxErrors
    /\ errors' = errors + 1
    /\ tries' = [tries EXCEPT ![t] = @ + 1]
    /\ IF tries[t] + 1 < MaxAttempts
       THEN /\ stage' = [stage EXCEPT ![t] = "start"]
            /\ \E delay \in ComputeDelay(tries[t]) : slept' = [slept EXCEPT ![t] = @ + delay]
       ELSE /\ stage' = [stage EXCEPT ![t] = "failed"]
            /\ UNCHANGED slept
    /\ UNCHANGED <<attempt, ackQueue, history, lostData, lostAcks, prompt, receiver>>

SubscribeError(t) ==
    /\ stage[t] = "start"
    /\ ReturnErr(t)
    /\ UNCHANGED <<deps, copies, net, ackNet>>

SendCopy(t) ==
    /\ copies' = [copies EXCEPT ![t] = @ + 1]
    /\ net' = net \cup {[id |-> t, deps |-> deps[t], copy |-> copies[t]]}

\* One round of the loop: publish, then wait for ack_rx.
PublishCopy(t) ==
    /\ stage[t] = "publish"
    /\ stage' = [stage EXCEPT ![t] = "wait"]
    /\ SendCopy(t)
    /\ UNCHANGED <<tries, slept, attempt, ackQueue, deps, history, ackNet, faults, receiver>>

\* The publish reports an error; the message may have gone out all the same.
PublishError(t) ==
    /\ stage[t] = "publish"
    /\ ReturnErr(t)
    /\ SendCopy(t) \/ UNCHANGED <<copies, net>>
    /\ UNCHANGED <<deps, ackNet>>

\* Both ways out of the loop record the message as sent.  They unsubscribe as well, and ignore
\* that this failed: nobody reads ack_rx any more.
ReturnSend(t, result) ==
    /\ stage' = [stage EXCEPT ![t] = result]
    /\ history' = history \cup {t}

RecvAck(t) ==
    /\ stage[t] = "wait"
    /\ ackQueue[t] > 0
    /\ ackQueue' = [ackQueue EXCEPT ![t] = @ - 1]
    /\ ReturnSend(t, "acked")
    /\ UNCHANGED <<tries, slept, attempt, deps, copies, net, ackNet, faults, receiver>>

Quiet(t) == ackNet[t] = 0 /\ \A c \in net : c.id # t

\* Mutant: the first timeout ends the call.
TimeoutGivesUp(t) ==
    /\ stage[t] = "wait"
    /\ ackQueue[t] = 0
    /\ prompt => Quiet(t)
    /\ ReturnSend(t, "unacked")
    /\ UNCHANGED <<tries, slept, attempt, ackQueue, deps, copies, net, ackNet, faults, receiver>>

\* Mutant: after the last retry the call waits without a timeout.
TimeoutWaits(t) ==
    /\ stage[t] = "wait"
    /\ ackQueue[t] = 0
    /\ prompt => Quiet(t)
    /\ attempt[t] < MaxRetries
    /\ attempt' = [attempt EXCEPT ![t] = @ + 1]
    /\ stage' = [stage EXCEPT ![t] = "publish"]
    /\ UNCHANGED <<tries, slept, ackQueue, deps, history, copies, net, ackNet, faults, receiver>>

\* The wait times out: publish again, or return unacknowledged after the last retry.
Timeout(t) ==
    /\ stage[t] = "wait"
    /\ ackQueue[t] = 0
    /\ prompt => Quiet(t)
    /\ IF attempt[t] < MaxRetries
       THEN /\ attempt' = [attempt EXCEPT ![t] = @ + 1]
            /\ stage' = [stage EXCEPT ![t] = "publish"]
            /\ UNCHANGED history
       ELSE /\ ReturnSend(t, "unacked")
            /\ UNCHANGED attempt
    /\ UNCHANGED <<tries, slept, ackQueue, deps, copies, net, ackNet, faults, receiver>>

-------------------------------------------------------------------------------
(* The receivers *)

Ready(known, c) == c.deps \subseteq known

\* What the filter knows once resolve_buffered has delivered all it can of a buffer.
Resolved(known, buf) ==
    LET pass[n \in 0..Cardinality(buf)] ==
            IF n = 0 THEN known
            ELSE pass[n - 1] \cup {c.id : c \in {d \in buf : Ready(pass[n - 1], d)}}
    IN  pass[Cardinality(buf)]

\* The copies of a buffer that it delivers.
Delivers(known, buf) == LET done == Resolved(known, buf) IN {d \in buf : Ready(done, d)}

\* poll_tasks hands a copy to receive and acknowledges what receive delivers.  A copy that
\* receive drops as a duplicate is not acknowledged again.
PollTasks(c) ==
    LET r == DestOf[c.id] IN
    /\ c \in net
    /\ net' = net \ {c}
    /\ \/ c.id \in seen[r] /\ UNCHANGED <<receiver, ackNet>>
       \/ /\ c.id \notin seen[r]
          /\ \E out \in {Delivers(seen[r], buffer[r] \cup {c})} :
                LET count == [t \in Tasks |-> Cardinality({d \in out : d.id = t})] IN
                /\ seen' = [seen EXCEPT ![r] = @ \cup {d.id : d \in out}]
                /\ buffer' = [buffer EXCEPT ![r] = (@ \cup {c}) \ out]
                /\ handed' = [t \in Tasks |-> handed[t] + count[t]]
                /\ ackNet' = [t \in Tasks |-> ackNet[t] + count[t]]
    /\ UNCHANGED <<sender, faults>>

-------------------------------------------------------------------------------
(* The transport *)

LoseData(c) ==
    /\ c \in net
    /\ lostData < MaxLostData
    /\ net' = net \ {c}
    /\ lostData' = lostData + 1
    /\ UNCHANGED <<sender, ackNet, errors, lostAcks, prompt, receiver>>

\* The publish of an acknowledgement fails, which poll_tasks ignores, or it is lost.
LoseAck(t) ==
    /\ ackNet[t] > 0
    /\ lostAcks < MaxLostAcks
    /\ ackNet' = [ackNet EXCEPT ![t] = @ - 1]
    /\ lostAcks' = lostAcks + 1
    /\ UNCHANGED <<sender, net, errors, lostData, prompt, receiver>>

\* An acknowledgement reaches the node: into ack_rx while send_reliable holds one.
AckArrives(t) ==
    /\ ackNet[t] > 0
    /\ ackNet' = [ackNet EXCEPT ![t] = @ - 1]
    /\ ackQueue' = IF stage[t] \in {"publish", "wait"}
                   THEN [ackQueue EXCEPT ![t] = @ + 1]
                   ELSE ackQueue
    /\ UNCHANGED <<stage, tries, slept, attempt, deps, history, copies, net, faults, receiver>>

-------------------------------------------------------------------------------

SendStep(t) == Begin(t) \/ PublishCopy(t) \/ RecvAck(t) \/ Timeout(t)

ReliableNext ==
    \/ \E t \in Tasks : \/ SendStep(t)
                       \/ SubscribeError(t) \/ PublishError(t)
                       \/ LoseAck(t) \/ AckArrives(t)
    \/ \E c \in net : PollTasks(c) \/ LoseData(c)

ReliableSpec == ReliableInit /\ [][ReliableNext]_reliableVars

\* A receiver polls, or an acknowledgement arrives.
NetStep == (\E t \in Tasks : AckArrives(t)) \/ \E c \in net : PollTasks(c)

\* The runtime polls the future of every call again, and its timer fires; the receivers and the
\* transport do not all stop.
ReliableFairness == WF_reliableVars(NetStep) /\ \A t \in Tasks : WF_reliableVars(SendStep(t))

-------------------------------------------------------------------------------
(* Properties *)

\* Types of the state of the sending calls, the transport and the receivers.
ReliableTypeOK ==
    /\ stage \in [Tasks -> {"start", "publish", "wait"} \cup Returned]
    /\ tries \in [Tasks -> 0..MaxAttempts]
    /\ slept \in [Tasks -> Nat]
    /\ attempt \in [Tasks -> 0..MaxRetries]
    /\ ackQueue \in [Tasks -> Nat]
    /\ deps \in [Tasks -> SUBSET Tasks]
    /\ history \in SUBSET Tasks
    /\ copies \in [Tasks -> Nat]
    /\ net \in SUBSET Copy
    /\ ackNet \in [Tasks -> Nat]
    /\ errors \in 0..MaxErrors /\ lostData \in 0..MaxLostData /\ lostAcks \in 0..MaxLostAcks
    /\ prompt \in BOOLEAN
    /\ seen \in [Receivers -> SUBSET Tasks]
    /\ buffer \in [Receivers -> SUBSET Copy]
    /\ handed \in [Tasks -> Nat]

\* Retransmission masks losses: while nobody is late, send_reliable reports a task
\* unacknowledged only when the transport lost more than max_retries copies or acknowledgements.
LossIsMasked ==
    prompt => \A t \in Tasks : stage[t] = "unacked" => lostData + lostAcks > MaxRetries

\* What send_reliable returns is what happened, whatever was retransmitted, retried after an error,
\* late or lost, and whichever acknowledgements of an earlier attempt a subscription replays.  Ok
\* with TRUE: the receiver's channel has handed the task to poll_tasks.  Ok with FALSE, with no
\* acknowledgement lost and no publish that reports an error although the message went out: more
\* than max_retries copies are gone.  The filter of the receiving channel hides the retransmissions
\* from poll_tasks while nobody is late.  And the RetryLayer has slept before each further attempt,
\* never after the last one: for no longer than max_delay_ms, and for at least half of the first
\* delay.
SendResultIsTrue ==
    /\ \A t \in Tasks :
        /\ stage[t] = "acked" => handed[t] > 0
        /\ prompt => handed[t] <= 1
        /\ LET sleeps == IF stage[t] = "failed" THEN tries[t] - 1 ELSE tries[t]
           IN  slept[t] \in sleeps * (DelayMs(0) \div 2)..sleeps * MaxDelay
    /\ lostAcks = 0 /\ errors = 0 => LossIsMasked

\* Every call of send_task returns: in the end none is under way, each was acknowledged,
\* unacknowledged or ended with an error.
EverySendReturns == <>[](\A t \in Tasks : stage[t] \in {"start"} \cup Returned)
===============================================================================
