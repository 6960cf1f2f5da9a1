------------------------------- MODULE Transports ------------------------------
(***************************************************************************)
(* The backends of the Transport trait (transport/src): the one in memory, *)
(* the REST API of nwaku, the library liblogosdelivery, and the delivery   *)
(* module of Logos Core, reached through the C++ shim or through the C API *)
(* of the host.  `kind` picks one for a behaviour.                         *)
(*                                                                         *)
(* Callers subscribe and unsubscribe concurrently: a call makes its remote *)
(* part and its local part in separate steps, in the order the backend has *)
(* them.  Each subscribe has a receiver of its own, named after the caller.*)
(* A message is its position on the wire.  That the wire neither reorders  *)
(* nor repeats, and that a backend hears every message of the topics it is *)
(* subscribed to, is assumed of the network.                               *)
(***************************************************************************)
EXTENDS Integers, Sequences, FiniteSets, Functions

CONSTANTS
    Callers, Topics, NoTopic,
    Payloads,       \* what tells messages apart for the REST backend
    Capacity,       \* of the bounded channel of a receiver: 1024 in memory, else 256
    MaxPublish      \* bound: messages published

ASSUME TransportAssumption ==
    /\ NoTopic \notin Topics /\ Payloads # {}
    /\ Capacity \in Nat \ {0} /\ MaxPublish \in Nat

Kinds == {"memory", "rest", "library", "shim", "core"}
Remote == {"library", "shim", "core"}     \* backends with a subscription on the network

VARIABLES
    kind,
    node,       \* set-up of the backend: steps done of SetupSteps, or failed, or gone
    wire,       \* messages published: topic and payload
    heard,      \* how many of them the backend was handed by the network
    netSub,     \* topics subscribed on the network
    events,     \* events between the network and the dispatch: a queue
    hand,       \* the event being dispatched by the poll task, with its receiver: at most one
    sender,     \* the map of a backend: topic -> receivers registered for it
    pollers,    \* poll tasks of the REST backend, one per receiver
    op, topicOf, call,      \* a caller: what it does, with which topic, where it is
    buf,        \* the bounded channel of a receiver
    back,       \* what is on the way into it: the unbounded channel, the answer of a poll
    seen,       \* payloads the poll task of a receiver has seen
    got,        \* what the subscriber received
    dropped,    \* receivers that were dropped by their subscriber
    since,      \* history: messages published when subscribe returned
    lost,       \* history: receivers that missed a message because their channel was full
    raced       \* history: topics with calls that overlapped

receivers == <<buf, back, seen, got, dropped, since, lost>>
calls == <<op, topicOf, call, raced>>
transportVars ==
    <<kind, node, wire, heard, netSub, events, hand, sender, pollers, calls, receivers>>

SetupSteps == 3
Failed == -1
Gone == 4
Running == node = SetupSteps

\* The library, and the delivery module, are created, started and listened to first.
TransportInit ==
    /\ kind \in Kinds
    /\ node = IF kind \in Remote THEN 0 ELSE SetupSteps
    /\ wire = <<>> /\ heard = 0 /\ netSub = {} /\ events = <<>> /\ hand = {}
    /\ sender = [t \in Topics |-> {}] /\ pollers = {}
    /\ op = [c \in Callers |-> "none"] /\ topicOf = [c \in Callers |-> NoTopic]
    /\ call = [c \in Callers |-> "idle"]
    /\ buf = [c \in Callers |-> <<>>] /\ back = [c \in Callers |-> <<>>]
    /\ seen = [c \in Callers |-> {}] /\ got = [c \in Callers |-> <<>>]
    /\ dropped = {} /\ since = [c \in Callers |-> 0] /\ lost = {} /\ raced = {}

\* A step of the set-up: it fails and ends it, if it is one that may.
SetUp(failing) ==
    /\ node \in 0 .. SetupSteps - 1
    /\ node' \in {node + 1} \cup IF node \in failing THEN {Failed} ELSE {}
    /\ UNCHANGED <<kind, wire, heard, netSub, events, hand, sender, pollers, calls, receivers>>

\* The library: create_node, the event callback, which cannot fail, start_node.
NewLibrary == kind = "library" /\ SetUp({0, 2})

\* The delivery module through the shim: createNode, start, listen.
NewModule == kind = "shim" /\ SetUp({0, 1, 2})

\* The delivery module through the host: createNode, start, the listener, which cannot fail.
NewCore == kind = "core" /\ SetUp({0, 1})

\* Nobody is inside a call; the senders go, and with them the receivers end.
TearDown ==
    /\ Running
    /\ \A c \in Callers : call[c] \in {"idle", "done", "error"}
    /\ node' = Gone
    /\ sender' = [t \in Topics |-> {}]
    /\ events' = <<>> /\ hand' = {}
    /\ UNCHANGED <<kind, wire, heard, netSub, pollers, calls, receivers>>

\* shutdown stops and destroys the node of the library, and goes on whatever they answer.
Shutdown == kind = "library" /\ TearDown

\* The transport is dropped, and the poll task ends.
DropModule == kind = "shim" /\ TearDown

-------------------------------------------------------------------------------
(* Into the channel of a receiver *)

Room(c) == Len(buf[c]) < Capacity

\* try_send to each of the receivers: one that is full misses the message.
TrySend(cs, i) ==
    /\ buf' = [c \in Callers |-> IF c \in cs \ dropped /\ Room(c) THEN Append(buf[c], i) ELSE buf[c]]
    /\ lost' = lost \cup {c \in cs \ dropped : ~Room(c)}

\* The positions of the messages of a topic, as a poll, or the history, gives them: in their order.
\* (The set has one element.)
OfTopic(t) ==
    LET is == {i \in 1 .. Len(wire) : wire[i].topic = t}
    IN  {f \in UNION {[1 .. n -> is] : n \in 0 .. Len(wire)} :
            Range(f) = is /\ \A j, k \in DOMAIN f : j < k => f[j] < f[k]}

\* A message is on the network.  A publish that ends in an error may have got there or not.
OnWire(t, p) ==
    /\ Running /\ Len(wire) < MaxPublish
    /\ wire' = Append(wire, [topic |-> t, payload |-> p])
    /\ UNCHANGED <<kind, node, heard, netSub, events, hand, pollers, calls, back, seen, got,
                   dropped, since>>

AnyPayload == CHOOSE p \in Payloads : TRUE

\* publish in memory: the senders that do not take the message, dropped or full, go.
PublishMemory(t) ==
    /\ kind = "memory" /\ OnWire(t, AnyPayload)
    /\ TrySend(sender[t], Len(wire) + 1)
    /\ sender' = [sender EXCEPT ![t] = {c \in @ : c \notin dropped /\ Room(c)}]

\* publish over the network, which hands the message to the subscribers later.
PublishRest(t, p) == kind = "rest" /\ OnWire(t, p) /\ UNCHANGED <<buf, lost, sender>>
PublishLibrary(t) == kind = "library" /\ OnWire(t, AnyPayload) /\ UNCHANGED <<buf, lost, sender>>
PublishModule(t) == kind = "shim" /\ OnWire(t, AnyPayload) /\ UNCHANGED <<buf, lost, sender>>
PublishCore(t) == kind = "core" /\ OnWire(t, AnyPayload) /\ UNCHANGED <<buf, lost, sender>>

\* The subscriber takes a message.
Receive(c) ==
    /\ buf[c] # <<>>
    /\ got' = [got EXCEPT ![c] = Append(@, Head(buf[c]))]
    /\ buf' = [buf EXCEPT ![c] = Tail(@)]
    /\ UNCHANGED <<kind, node, wire, heard, netSub, events, hand, sender, pollers, calls, back,
                   seen, dropped, since, lost>>

\* The subscriber drops its receiver.
DropReceiver(c) ==
    /\ call[c] = "done" /\ op[c] = "subscribe" /\ c \notin dropped
    /\ dropped' = dropped \cup {c}
    /\ buf' = [buf EXCEPT ![c] = <<>>]
    /\ UNCHANGED <<kind, node, wire, heard, netSub, events, hand, sender, pollers, calls, back,
                   seen, got, since, lost>>

-------------------------------------------------------------------------------
(* Events *)

\* The library calls event_trampoline, which hands the message to the sender of its topic.
EventTrampoline ==
    /\ kind = "library" /\ Running /\ heard < Len(wire)
    /\ heard' = heard + 1
    /\ LET t == wire[heard + 1].topic IN
       TrySend(IF t \in netSub THEN sender[t] ELSE {}, heard + 1)
    /\ UNCHANGED <<kind, node, wire, netSub, events, hand, sender, pollers, calls, back, seen, got,
                   dropped, since>>

\* The delivery module emits messageReceived, and the event is queued.
Emit ==
    /\ Running /\ heard < Len(wire)
    /\ heard' = heard + 1
    /\ events' = IF wire[heard + 1].topic \in netSub THEN Append(events, heard + 1) ELSE events
    /\ UNCHANGED <<kind, node, wire, netSub, hand, sender, pollers, calls, receivers>>

\* The queue of the shim, and the channel of the listener.
ShimQueues == kind = "shim" /\ Emit
ListenerQueues == kind = "core" /\ Emit

\* The poll task takes an event from the shim and looks its sender up, and ...
PollEvent ==
    /\ kind = "shim" /\ Running /\ events # <<>> /\ hand = {}
    /\ events' = Tail(events)
    /\ hand' = {<<Head(events), c>> : c \in sender[wire[Head(events)].topic]}
    /\ UNCHANGED <<kind, node, wire, heard, netSub, sender, pollers, calls, receivers>>

\* ... sends outside the lock, to a sender that may be out of the map by now.
DispatchEvent ==
    /\ \E h \in hand : TrySend({h[2]}, h[1])
    /\ hand' = {}
    /\ UNCHANGED <<kind, node, wire, heard, netSub, events, sender, pollers, calls, back, seen, got,
                   dropped, since>>

\* The listener task hands an event to the unbounded channel of its topic.
FanOut ==
    /\ kind = "core" /\ events # <<>>
    /\ events' = Tail(events)
    /\ back' = [c \in Callers |-> IF c \in sender[wire[Head(events)].topic]
                                  THEN Append(back[c], Head(events)) ELSE back[c]]
    /\ UNCHANGED <<kind, node, wire, heard, netSub, hand, sender, pollers, calls, buf, seen, got,
                   dropped, since, lost>>

\* The forwarding task of a receiver waits for room.
Forward(c) ==
    /\ kind = "core" /\ back[c] # <<>> /\ (Room(c) \/ c \in dropped)
    /\ back' = [back EXCEPT ![c] = Tail(@)]
    /\ buf' = IF c \in dropped THEN buf ELSE [buf EXCEPT ![c] = Append(@, Head(back[c]))]
    /\ UNCHANGED <<kind, node, wire, heard, netSub, events, hand, sender, pollers, calls, seen, got,
                   dropped, since, lost>>

\* The poll task of a REST receiver asks for all messages; a request that fails gives none.
PollRest(c) ==
    /\ c \in pollers /\ back[c] = <<>>
    /\ \E polled \in OfTopic(topicOf[c]) : back' = [back EXCEPT ![c] = polled]
    /\ UNCHANGED <<kind, node, wire, heard, netSub, events, hand, sender, pollers, calls, buf, seen,
                   got, dropped, since, lost>>

\* Mutant: nothing is remembered of what was sent.
SeenNever(c) == FALSE
SeenBefore(c) == wire[Head(back[c])].payload \in seen[c]

\* It sends the ones whose payload it has not seen, waiting for room.
SendPolled(c) ==
    /\ c \in pollers /\ back[c] # <<>>
    /\ \/ /\ SeenBefore(c)
          /\ UNCHANGED <<buf, seen, pollers>>
       \/ /\ ~SeenBefore(c) /\ c \in dropped
          /\ pollers' = pollers \ {c}
          /\ UNCHANGED <<buf, seen>>
       \/ /\ ~SeenBefore(c) /\ c \notin dropped /\ Room(c)
          /\ buf' = [buf EXCEPT ![c] = Append(@, Head(back[c]))]
          /\ seen' = [seen EXCEPT ![c] = @ \cup {wire[Head(back[c])].payload}]
          /\ UNCHANGED pollers
    /\ back' = [back EXCEPT ![c] = Tail(@)]
    /\ UNCHANGED <<kind, node, wire, heard, netSub, events, hand, sender, calls, got, dropped,
                   since, lost>>

-------------------------------------------------------------------------------
(* subscribe and unsubscribe *)

InCall(c) == call[c] \notin {"idle", "done", "error"}

\* unsubscribe of the delivery module drops the sender first, the library's last.
FirstStep(o) ==
    IF kind \in Remote /\ ~(o = "unsubscribe" /\ kind # "library") THEN "remote" ELSE "local"

Begin(c, o, t) ==
    /\ Running /\ call[c] = "idle"
    /\ op' = [op EXCEPT ![c] = o]
    /\ topicOf' = [topicOf EXCEPT ![c] = t]
    /\ call' = [call EXCEPT ![c] = FirstStep(o)]
    /\ raced' = IF \E d \in Callers : InCall(d) /\ topicOf[d] = t THEN raced \cup {t} ELSE raced
    /\ UNCHANGED <<kind, node, wire, heard, netSub, events, hand, sender, pollers, receivers>>

\* Where a call is.
At(c, o, place, k) == op[c] = o /\ call[c] = place /\ kind = k

\* What a call to the library comes to: it is not taken, and no callback follows, or it is
\* answered with an error or a success.
LibraryCall == {"refused", "failed", "ok"}

\* A call through the shim: a timeout, no JSON, an error in one of two shapes, anything but
\* true; or true.
ModuleCall == {"failed", "ok"}

\* A call through the C API of the host, answered by a callback: an error, or a text.
CoreCall == {"failed", "ok"}

\* A call that failed may have done its work before.
Effect(r, before, after) ==
    CASE r = "refused" -> {before} [] r = "failed" -> {before, after} [] r = "ok" -> {after}

\* The remote part of subscribe: an answer other than a success ends it.
AskSubscribe(c, outcomes) ==
    /\ \E r \in outcomes :
           /\ netSub' \in Effect(r, netSub, netSub \cup {topicOf[c]})
           /\ call' = [call EXCEPT ![c] = IF r = "ok" THEN "local" ELSE "error"]
    /\ UNCHANGED <<kind, node, wire, heard, events, hand, sender, pollers, op, topicOf, raced,
                   receivers>>

\* The remote part of unsubscribe; `proceed` gives what comes after each outcome.
AskUnsubscribe(c, outcomes, proceed) ==
    /\ \E r \in outcomes :
           /\ netSub' \in Effect(r, netSub, netSub \ {topicOf[c]})
           /\ call' = [call EXCEPT ![c] = proceed[r]]
    /\ UNCHANGED <<kind, node, wire, heard, events, hand, sender, pollers, op, topicOf, raced,
                   receivers>>

\* The sender of a call is put in the map; subscribe returns.
Insert(c, senders) ==
    /\ sender' = [sender EXCEPT ![topicOf[c]] = senders]
    /\ call' = [call EXCEPT ![c] = "done"]
    /\ since' = [since EXCEPT ![c] = Len(wire)]
    /\ UNCHANGED <<kind, node, wire, heard, netSub, events, hand, op, topicOf, raced, back, seen, got,
                   dropped>>

\* The senders of the topic leave the map.
Remove(c, then) ==
    /\ sender' = [sender EXCEPT ![topicOf[c]] = {}]
    /\ call' = [call EXCEPT ![c] = then]
    /\ UNCHANGED <<kind, node, wire, heard, netSub, events, hand, op, topicOf, raced, receivers>>

\* In memory the sender joins the others, after a replay of the history.
SubscribeMemory(c) ==
    /\ At(c, "subscribe", "local", "memory")
    /\ Insert(c, sender[topicOf[c]] \cup {c})
    /\ \E old \in OfTopic(topicOf[c]) :
           /\ buf' = [buf EXCEPT ![c] = SubSeq(old, 1, IF Len(old) < Capacity THEN Len(old) ELSE Capacity)]
           /\ lost' = IF Len(old) > Capacity THEN lost \cup {c} ELSE lost
    /\ UNCHANGED pollers

UnsubscribeMemory(c) ==
    At(c, "unsubscribe", "local", "memory") /\ Remove(c, "done") /\ UNCHANGED pollers

\* subscribe of REST stops the poll task of an earlier subscription ...
AbortRest(c) ==
    /\ At(c, "subscribe", "local", "rest")
    /\ Remove(c, "spawn") /\ pollers' = pollers \ sender[topicOf[c]]

\* ... and starts its own, which takes the place of one that came in between.
SubscribeRest(c) ==
    /\ At(c, "subscribe", "spawn", "rest")
    /\ Insert(c, {c}) /\ pollers' = pollers \cup {c}
    /\ UNCHANGED <<buf, lost>>

UnsubscribeRest(c) ==
    /\ At(c, "unsubscribe", "local", "rest")
    /\ Remove(c, "done") /\ pollers' = pollers \ sender[topicOf[c]]

\* The library: the network first and the map last, both ways; an error of unsubscribe is
\* ignored once the call was taken.
AskLibrary(c) == At(c, "subscribe", "remote", "library") /\ AskSubscribe(c, LibraryCall)
SubscribeLibrary(c) ==
    At(c, "subscribe", "local", "library") /\ Insert(c, {c}) /\ UNCHANGED <<buf, lost, pollers>>
LeaveLibrary(c) ==
    /\ At(c, "unsubscribe", "remote", "library")
    /\ AskUnsubscribe(c, LibraryCall, [refused |-> "error", failed |-> "local", ok |-> "local"])
UnsubscribeLibrary(c) ==
    At(c, "unsubscribe", "local", "library") /\ Remove(c, "done") /\ UNCHANGED pollers

\* The delivery module through the shim: unsubscribe takes the sender out first.
AskModule(c) == At(c, "subscribe", "remote", "shim") /\ AskSubscribe(c, ModuleCall)
SubscribeModule(c) ==
    At(c, "subscribe", "local", "shim") /\ Insert(c, {c}) /\ UNCHANGED <<buf, lost, pollers>>
LeaveModule(c) ==
    At(c, "unsubscribe", "local", "shim") /\ Remove(c, "remote") /\ UNCHANGED pollers
UnsubscribeModule(c) ==
    /\ At(c, "unsubscribe", "remote", "shim")
    /\ AskUnsubscribe(c, ModuleCall, [failed |-> "error", ok |-> "done"])

\* The delivery module through the host, in the same order.
AskCore(c) == At(c, "subscribe", "remote", "core") /\ AskSubscribe(c, CoreCall)
SubscribeCore(c) ==
    At(c, "subscribe", "local", "core") /\ Insert(c, {c}) /\ UNCHANGED <<buf, lost, pollers>>
LeaveCore(c) ==
    At(c, "unsubscribe", "local", "core") /\ Remove(c, "remote") /\ UNCHANGED pollers
UnsubscribeCore(c) ==
    /\ At(c, "unsubscribe", "remote", "core")
    /\ AskUnsubscribe(c, CoreCall, [failed |-> "error", ok |-> "done"])

-------------------------------------------------------------------------------
TransportNext ==
    \/ NewLibrary \/ NewModule \/ NewCore \/ Shutdown \/ DropModule
    \/ EventTrampoline \/ ShimQueues \/ ListenerQueues \/ PollEvent \/ DispatchEvent \/ FanOut
    \/ \E t \in Topics :
        \/ PublishMemory(t) \/ PublishLibrary(t) \/ PublishModule(t) \/ PublishCore(t)
        \/ \E p \in Payloads : PublishRest(t, p)
    \/ \E c \in Callers :
        \/ Receive(c) \/ DropReceiver(c) \/ Forward(c) \/ PollRest(c) \/ SendPolled(c)
        \/ \E o \in {"subscribe", "unsubscribe"}, t \in Topics : Begin(c, o, t)
        \/ SubscribeMemory(c) \/ UnsubscribeMemory(c)
        \/ AbortRest(c) \/ SubscribeRest(c) \/ UnsubscribeRest(c)
        \/ AskLibrary(c) \/ SubscribeLibrary(c) \/ LeaveLibrary(c) \/ UnsubscribeLibrary(c)
        \/ AskModule(c) \/ SubscribeModule(c) \/ LeaveModule(c) \/ UnsubscribeModule(c)
        \/ AskCore(c) \/ SubscribeCore(c) \/ LeaveCore(c) \/ UnsubscribeCore(c)

-------------------------------------------------------------------------------
(* Properties *)

Positions == 1 .. MaxPublish

TransportTypeOK ==
    /\ kind \in Kinds /\ node \in Failed .. Gone
    /\ wire \in Seq([topic : Topics, payload : Payloads]) /\ heard \in 0 .. Len(wire)
    /\ netSub \subseteq Topics /\ events \in Seq(Positions) /\ hand \subseteq Positions \X Callers
    /\ sender \in [Topics -> SUBSET Callers] /\ pollers \subseteq Callers
    /\ op \in [Callers -> {"none", "subscribe", "unsubscribe"}]
    /\ call \in [Callers -> {"idle", "remote", "local", "spawn", "done", "error"}]
    /\ topicOf \in [Callers -> Topics \cup {NoTopic}] /\ raced \subseteq Topics
    /\ buf \in [Callers -> Seq(Positions)] /\ \A c \in Callers : Len(buf[c]) <= Capacity
    /\ back \in [Callers -> Seq(Positions)] /\ got \in [Callers -> Seq(Positions)]
    /\ dropped \subseteq Callers /\ lost \subseteq Callers /\ since \in [Callers -> 0 .. MaxPublish]

\* Whether the subscription of a caller stands: it returned and nobody replaced or ended it.
Stands(c) ==
    /\ Running /\ op[c] = "subscribe" /\ call[c] = "done" /\ c \notin dropped
    /\ c \in sender[topicOf[c]]
    /\ \A d \in Callers : InCall(d) => topicOf[d] # topicOf[c]

OnTheWay(c) ==
    Range(got[c]) \cup Range(buf[c]) \cup Range(back[c]) \cup Range(events) \cup {h[1] : h \in hand}

\* A message published while a subscription stands reaches its receiver or is on the way: unless the
\* channel of the receiver was full, or two calls for the topic (subscribe, unsubscribe) overlapped.  For
\* REST a message counts as received when one with the same payload was.
NothingLost ==
    \A c \in Callers : Stands(c) /\ c \notin lost /\ topicOf[c] \notin raced =>
        \A i \in since[c] + 1 .. Len(wire) : wire[i].topic = topicOf[c] =>
            \/ i \in OnTheWay(c)
            \/ kind \in Remote /\ i > heard
            \/ kind = "rest" /\ wire[i].payload \notin seen[c]
            \/ kind = "rest" /\ \E j \in OnTheWay(c) : wire[j].payload = wire[i].payload

Promise == INSTANCE TransportPromise

\* Every backend keeps the promise of the trait: a subscriber gets only messages of its topic, each
\* at most once and in order, through replays, polls that return the same messages again, dispatch
\* outside the lock and subscriptions that replace each other; and of those published while its
\* subscription stands, none is lost (NothingLost).
KeepsTransportPromise == Promise!Spec /\ []NothingLost
===============================================================================
