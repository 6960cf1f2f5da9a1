---------------------------- MODULE TransportProofs ----------------------------
(***************************************************************************)
(* Every backend of the Transport trait implements what the trait promises *)
(* (TransportPromise), and no message published while a subscription       *)
(* stands is lost but in the ways NothingLost names: for any number of     *)
(* callers, topics, payloads and messages and any capacity of the          *)
(* channels.                                                               *)
(*                                                                         *)
(* A message goes through stages on its way to a subscriber: the events of *)
(* the backend, the one in hand, what is on the way into the channel of    *)
(* the receiver, the channel, what was received.  The invariant says that  *)
(* each stage is in order and ahead of the next one; beside it, what holds *)
(* of a subscription between the steps of the calls for its topic, and     *)
(* that a message for it is somewhere on the way.                          *)
(***************************************************************************)
EXTENDS Transports, TLAPS

TransportSpec == TransportInit /\ [][TransportNext]_transportVars

Message == [topic : Topics, payload : Payloads]

Types ==
    /\ kind \in Kinds /\ node \in Int
    /\ wire \in Seq(Message) /\ heard \in Nat /\ heard <= Len(wire)
    /\ netSub \subseteq Topics /\ events \in Seq(Nat) /\ hand \subseteq Nat \X Callers
    /\ sender \in [Topics -> SUBSET Callers] /\ pollers \subseteq Callers
    /\ op \in [Callers -> {"none", "subscribe", "unsubscribe"}]
    /\ call \in [Callers -> {"idle", "remote", "local", "spawn", "done", "error"}]
    /\ topicOf \in [Callers -> Topics \cup {NoTopic}]
    /\ buf \in [Callers -> Seq(Nat)] /\ back \in [Callers -> Seq(Nat)]
    /\ got \in [Callers -> Seq(Nat)] /\ seen \in [Callers -> SUBSET Payloads]
    /\ dropped \subseteq Callers /\ lost \subseteq Callers /\ since \in [Callers -> Nat]

\* A caller has a topic from the start of its call on, and a receiver when subscribe has returned.
Places ==
    /\ \A c \in Callers : call[c] = "idle" <=> topicOf[c] = NoTopic
    /\ \A c \in Callers : call[c] # "done" => got[c] = <<>> /\ buf[c] = <<>> /\ back[c] = <<>>
    /\ \A t \in Topics : \A c \in sender[t] : call[c] = "done" /\ topicOf[c] = t
    /\ \A c \in pollers : call[c] = "done" /\ kind = "rest"
    /\ \A h \in hand : call[h[2]] = "done" /\ kind = "shim"
    /\ node < SetupSteps => \A c \in Callers : call[c] = "idle"
    /\ events # <<>> => kind \in {"shim", "core"}
    /\ \A c \in Callers : back[c] # <<>> => kind \in {"core", "rest"}

Increasing(s) == \A i, j \in 1 .. Len(s) : i < j => s[i] < s[j]
Before(S, T) == \A i \in S, j \in T : i < j

\* A message that may reach the caller.
Meant(c, i) == i \in 1 .. Len(wire) /\ wire[i].topic = topicOf[c] /\ (kind \in Remote => i <= heard)
\* What went into the channel of its receiver.
Passed(c) == Range(got[c]) \cup Range(buf[c])

Channels ==
    \A c \in Callers :
        /\ Increasing(got[c]) /\ Increasing(buf[c]) /\ Before(Range(got[c]), Range(buf[c]))
        /\ \A i \in Passed(c) : Meant(c, i)

\* Behind the channel: the answer of a poll or the unbounded channel, and the queue of events.
Behind ==
    /\ Increasing(events) /\ \A i \in Range(events) : i \in 1 .. Len(wire) /\ i <= heard
    /\ \A c \in Callers :
        /\ Increasing(back[c]) /\ \A i \in Range(back[c]) : Meant(c, i)
        /\ Before(Passed(c), Range(events))
        /\ kind = "core" => Before(Passed(c), Range(back[c])) /\ Before(Range(back[c]), Range(events))
    /\ \A h \in hand : Meant(h[2], h[1]) /\ Before(Passed(h[2]), {h[1]}) /\ Before({h[1]}, Range(events))

\* The poll task of REST has seen what comes before a message it sent, or has still to look at.
Polled ==
    kind = "rest" =>
        \A c \in Callers : \A i \in 1 .. Len(wire) : wire[i].topic = topicOf[c] =>
            /\ \A j \in Passed(c) : i <= j => wire[i].payload \in seen[c]
            /\ \A j \in Range(back[c]) :
                   c \in pollers /\ i <= j => i \in Range(back[c]) \/ wire[i].payload \in seen[c]

OrderInv == Types /\ Places /\ Channels /\ Behind /\ Polled

-------------------------------------------------------------------------------
(* Sequences of positions *)

LEMMA EmptyFacts ==
    Range(<<>>) = {} /\ Increasing(<<>>) /\ Len(<<>>) = 0 /\ <<>> \in Seq(Nat) /\ <<>> \in Seq(Message)
  BY DEF Range, Increasing

LEMMA EarlierLemma ==
    ASSUME NEW l \in Nat, NEW m \in Nat, NEW j \in 1 .. l, NEW i \in 1 .. m, i <= j
    PROVE  i \in 1 .. l
  OBVIOUS

LEMMA InRange == ASSUME NEW s \in Seq(Nat) PROVE \A j \in 1 .. Len(s) : s[j] \in Range(s)
  BY DEF Range

LEMMA RangeLemma ==
    ASSUME NEW s \in Seq(Nat)
    PROVE  /\ Range(s) = {s[i] : i \in 1 .. Len(s)} /\ Range(s) \subseteq Nat
           /\ s = <<>> <=> Range(s) = {}
<1>1. DOMAIN s = 1 .. Len(s) /\ Len(s) \in Nat /\ \A i \in 1 .. Len(s) : s[i] \in Nat
  OBVIOUS
<1>2. Range(s) = {s[i] : i \in 1 .. Len(s)}
  BY <1>1 DEF Range
<1>3. s = <<>> <=> Len(s) = 0
  OBVIOUS
<1>4. ASSUME Len(s) # 0 PROVE Range(s) # {}
  <2>1. 1 \in 1 .. Len(s)
    BY <1>1, <1>4
  <2> QED
    BY <1>2, <2>1, Zenon
<1>5. ASSUME Len(s) = 0 PROVE Range(s) = {}
  BY <1>2, <1>5
<1> QED
  BY <1>1, <1>2, <1>3, <1>4, <1>5, Zenon

LEMMA PushLemma ==
    ASSUME NEW s \in Seq(Nat), NEW e \in Nat
    PROVE  /\ Append(s, e) \in Seq(Nat) /\ Range(Append(s, e)) = Range(s) \cup {e}
           /\ Increasing(s) /\ Before(Range(s), {e}) => Increasing(Append(s, e))
<1> DEFINE n == Len(s)
           a == Append(s, e)
<1>1. /\ a \in Seq(Nat) /\ n \in Nat /\ Len(a) = n + 1 /\ a[n + 1] = e
      /\ \A i \in 1 .. n : a[i] = s[i] /\ s[i] \in Nat
  OBVIOUS
<1>2. Range(s) = {s[i] : i \in 1 .. n} /\ Range(a) = {a[i] : i \in 1 .. n + 1}
  BY <1>1, RangeLemma, Zenon
<1>h. Increasing(s) => \A i, j \in 1 .. n : i < j => s[i] < s[j]
  BY DEF Increasing
<1> HIDE DEF n, a
<1>3. Range(a) = Range(s) \cup {e}
  <2>1. \A i \in 1 .. n + 1 : i \in 1 .. n \/ i = n + 1
    BY <1>1
  <2>2. \A i \in 1 .. n : i \in 1 .. n + 1
    BY <1>1
  <2>3. n + 1 \in 1 .. n + 1
    BY <1>1
  <2> QED
    BY <1>1, <1>2, <2>1, <2>2, <2>3, Zenon
<1>4. ASSUME Increasing(s), Before(Range(s), {e}) PROVE Increasing(a)
  <2> SUFFICES ASSUME NEW i \in 1 .. n + 1, NEW j \in 1 .. n + 1, i < j PROVE a[i] < a[j]
    BY <1>1 DEF Increasing
  <2>1. i \in 1 .. n
    BY <1>1
  <2>2. CASE j \in 1 .. n
    BY <1>1, <1>4, <1>h, <2>1, <2>2
  <2>3. CASE j = n + 1
    <3>1. s[i] \in Range(s)
      BY <1>2, <2>1
    <3> QED
      BY <1>1, <1>4, <2>1, <2>3, <3>1 DEF Before
  <2> QED
    BY <1>1, <2>2, <2>3
<1> QED
  BY <1>1, <1>3, <1>4 DEF a

LEMMA PopLemma ==
    ASSUME NEW s \in Seq(Nat), s # <<>>
    PROVE  /\ Tail(s) \in Seq(Nat) /\ Head(s) \in Range(s) /\ Head(s) \in Nat
           /\ Range(s) = Range(Tail(s)) \cup {Head(s)}
           /\ Increasing(s) => Increasing(Tail(s)) /\ Before({Head(s)}, Range(Tail(s)))
<1> DEFINE n == Len(s)
           b == Tail(s)
<1>1. /\ b \in Seq(Nat) /\ n \in Nat \ {0} /\ Len(b) = n - 1 /\ Head(s) = s[1]
      /\ \A i \in 1 .. n - 1 : b[i] = s[i + 1]
      /\ \A i \in 1 .. n : s[i] \in Nat
  OBVIOUS
<1>2. Range(s) = {s[i] : i \in 1 .. n} /\ Range(b) = {b[i] : i \in 1 .. n - 1}
  BY <1>1, RangeLemma, Zenon
<1>h. Increasing(s) => \A i, j \in 1 .. n : i < j => s[i] < s[j]
  BY DEF Increasing
<1> HIDE DEF n, b
<1>3. 1 \in 1 .. n
  BY <1>1
<1>4. Range(s) = Range(b) \cup {s[1]}
  <2>1. ASSUME NEW i \in 1 .. n PROVE s[i] \in Range(b) \cup {s[1]}
    <3>1. CASE i = 1
      BY <3>1
    <3>2. CASE i # 1
      <4>1. i - 1 \in 1 .. n - 1 /\ b[i - 1] = s[i]
        BY <1>1, <3>2
      <4> QED
        BY <1>2, <4>1
    <3> QED
      BY <3>1, <3>2
  <2>2. ASSUME NEW i \in 1 .. n - 1 PROVE b[i] \in Range(s)
    <3>1. i + 1 \in 1 .. n /\ b[i] = s[i + 1]
      BY <1>1
    <3> QED
      BY <1>2, <3>1
  <2> QED
    BY <1>2, <1>3, <2>1, <2>2
<1>5. ASSUME Increasing(s) PROVE Increasing(b) /\ Before({s[1]}, Range(b))
  <2>1. ASSUME NEW i \in 1 .. n - 1, NEW j \in 1 .. n - 1, i < j PROVE b[i] < b[j]
    <3>1. i + 1 \in 1 .. n /\ j + 1 \in 1 .. n /\ i + 1 < j + 1
      BY <1>1, <2>1
    <3> QED
      BY <1>1, <1>5, <1>h, <3>1
  <2>2. ASSUME NEW i \in 1 .. n - 1 PROVE s[1] < b[i]
    <3>1. i + 1 \in 1 .. n /\ 1 < i + 1
      BY <1>1
    <3> QED
      BY <1>1, <1>3, <1>5, <1>h, <3>1
  <2> QED
    BY <1>1, <1>2, <2>1, <2>2 DEF Increasing, Before
<1> QED
  BY <1>1, <1>2, <1>3, <1>4, <1>5 DEF b

\* What a poll, or the history, gives.
LEMMA OfTopicLemma ==
    ASSUME wire \in Seq(Message), NEW t, NEW s \in OfTopic(t)
    PROVE  /\ s \in Seq(Nat) /\ Increasing(s) /\ Range(s) = {i \in 1 .. Len(wire) : wire[i].topic = t}
<1> DEFINE is == {i \in 1 .. Len(wire) : wire[i].topic = t}
<1>1. PICK n \in 0 .. Len(wire) : s \in [1 .. n -> is]
  BY DEF OfTopic
<1>2. Range(s) = is /\ \A j, k \in DOMAIN s : j < k => s[j] < s[k]
  BY DEF OfTopic
<1>3. n \in Nat /\ s \in [1 .. n -> Nat]
  BY <1>1
<1> HIDE DEF is
<1>4. s \in Seq(Nat) /\ Len(s) = n /\ DOMAIN s = 1 .. n
  BY <1>3
<1> QED
  BY <1>2, <1>4, Zenon DEF Increasing, is

LEMMA PrefixLemma ==
    ASSUME NEW s \in Seq(Nat), Increasing(s), NEW m \in Nat, m <= Len(s)
    PROVE  /\ SubSeq(s, 1, m) \in Seq(Nat) /\ Increasing(SubSeq(s, 1, m))
           /\ Range(SubSeq(s, 1, m)) \subseteq Range(s)
<1> DEFINE n == Len(s)
           b == SubSeq(s, 1, m)
<1>1. b \in Seq(Nat) /\ n \in Nat /\ Len(b) = m /\ \A i \in 1 .. m : b[i] = s[i] /\ i \in 1 .. n
  OBVIOUS
<1>2. Range(s) = {s[i] : i \in 1 .. n} /\ Range(b) = {b[i] : i \in 1 .. m}
  BY <1>1, RangeLemma, Zenon
<1>3. \A i, j \in 1 .. n : i < j => s[i] < s[j]
  BY DEF Increasing
<1> HIDE DEF n, b
<1>4. Increasing(b)
  BY <1>1, <1>3, Zenon DEF Increasing
<1>5. Range(b) \subseteq Range(s)
  BY <1>1, <1>2
<1> QED
  BY <1>1, <1>4, <1>5 DEF b

-------------------------------------------------------------------------------
(* What a step does: those of a call, grouped over the backends, and those of messages *)

\* No message moves.
Still == UNCHANGED <<kind, wire, heard, events, hand, topicOf, back, got, seen>>
Goes(c, place) == call' = [call EXCEPT ![c] = place]

SetsUp ==
    /\ Still /\ node \in 0 .. SetupSteps - 1 /\ node' \in Failed .. SetupSteps
    /\ UNCHANGED <<netSub, sender, pollers, op, call, raced, buf, since, lost, dropped>>

TearsDown ==
    /\ node' = Gone /\ sender' = [t \in Topics |-> {}] /\ events' = <<>> /\ hand' = {}
    /\ UNCHANGED <<kind, wire, heard, netSub, pollers, calls, receivers>>

\* The remote part of subscribe, and of unsubscribe.
Asks(c) ==
    /\ Still /\ kind \in Remote /\ op[c] = "subscribe" /\ call[c] = "remote"
    /\ \/ Goes(c, "local") /\ netSub' = netSub \cup {topicOf[c]}
       \/ Goes(c, "error") /\ netSub' \in {netSub, netSub \cup {topicOf[c]}}
    /\ UNCHANGED <<node, sender, pollers, op, raced, buf, since, lost, dropped>>

Leaves(c) ==
    /\ Still /\ kind \in Remote /\ op[c] = "unsubscribe" /\ call[c] = "remote"
    /\ \/ kind = "library" /\ Goes(c, "local") /\ netSub' \in {netSub, netSub \ {topicOf[c]}}
       \/ kind = "library" /\ Goes(c, "error") /\ netSub' = netSub
       \/ /\ kind # "library" /\ (Goes(c, "done") \/ Goes(c, "error"))
          /\ netSub' \in {netSub, netSub \ {topicOf[c]}}
    /\ UNCHANGED <<node, sender, pollers, op, raced, buf, since, lost, dropped>>

\* The local part of either.
Inserts(c) ==
    /\ Still /\ kind # "memory" /\ op[c] = "subscribe" /\ Goes(c, "done")
    /\ call[c] = IF kind = "rest" THEN "spawn" ELSE "local"
    /\ sender' = [sender EXCEPT ![topicOf[c]] = {c}]
    /\ since' = [since EXCEPT ![c] = Len(wire)]
    /\ pollers' = IF kind = "rest" THEN pollers \cup {c} ELSE pollers
    /\ UNCHANGED <<node, netSub, op, raced, buf, lost, dropped>>

Joins(c) ==
    /\ Still /\ kind = "memory" /\ op[c] = "subscribe" /\ call[c] = "local" /\ Goes(c, "done")
    /\ sender' = [sender EXCEPT ![topicOf[c]] = sender[topicOf[c]] \cup {c}]
    /\ since' = [since EXCEPT ![c] = Len(wire)]
    /\ \E s \in Seq(Nat) :
           /\ buf' = [buf EXCEPT ![c] = s] /\ Increasing(s)
           /\ \A i \in Range(s) : i \in 1 .. Len(wire) /\ wire[i].topic = topicOf[c]
    /\ lost' \in {lost, lost \cup {c}}
    /\ UNCHANGED <<node, netSub, op, raced, pollers, dropped>>

Removes(c) ==
    /\ Still /\ call[c] = "local"
    /\ sender' = [sender EXCEPT ![topicOf[c]] = {}]
    /\ \/ op[c] = "subscribe" /\ kind = "rest" /\ Goes(c, "spawn")
       \/ op[c] = "unsubscribe" /\ kind \in {"memory", "rest", "library"} /\ Goes(c, "done")
       \/ op[c] = "unsubscribe" /\ kind \in {"shim", "core"} /\ Goes(c, "remote")
    /\ pollers' \subseteq pollers
    /\ UNCHANGED <<node, netSub, op, raced, buf, since, lost, dropped>>

\* A message is published and handed to the subscribers later.
Publishes ==
    /\ kind # "memory" /\ \E m \in Message : wire' = Append(wire, m)
    /\ UNCHANGED <<kind, node, heard, netSub, events, hand, sender, pollers, calls, receivers>>

PublishesMemory(t) ==
    /\ kind = "memory" /\ \E p \in Payloads : wire' = Append(wire, [topic |-> t, payload |-> p])
    /\ TrySend(sender[t], Len(wire) + 1)
    /\ sender' = [sender EXCEPT ![t] = {c \in @ : c \notin dropped /\ Room(c)}]
    /\ UNCHANGED <<kind, node, heard, netSub, events, hand, pollers, calls, back, seen, got,
                   dropped, since>>

Queues == kind \in {"shim", "core"} /\ Emit

OfCall(c) ==
    \/ Asks(c) \/ Leaves(c) \/ Inserts(c) \/ Joins(c) \/ Removes(c)
    \/ \E o \in {"subscribe", "unsubscribe"}, t \in Topics : Begin(c, o, t)

Moves ==
    \/ Publishes \/ (\E t \in Topics : PublishesMemory(t))
    \/ EventTrampoline \/ Queues \/ PollEvent \/ DispatchEvent \/ FanOut
    \/ \E c \in Callers : Receive(c) \/ DropReceiver(c) \/ Forward(c) \/ PollRest(c) \/ SendPolled(c)

Step == SetsUp \/ TearsDown \/ (\E c \in Callers : OfCall(c)) \/ Moves \/ UNCHANGED transportVars

USE DEF SetupSteps, Failed, Gone

LEMMA AnyLemma == AnyPayload \in Payloads
BY TransportAssumption DEF AnyPayload

LEMMA CallSteps ==
    ASSUME wire \in Seq(Message), NEW c \in Callers,
           \/ SubscribeMemory(c) \/ UnsubscribeMemory(c)
           \/ AbortRest(c) \/ SubscribeRest(c) \/ UnsubscribeRest(c)
           \/ AskLibrary(c) \/ SubscribeLibrary(c) \/ LeaveLibrary(c) \/ UnsubscribeLibrary(c)
           \/ AskModule(c) \/ SubscribeModule(c) \/ LeaveModule(c) \/ UnsubscribeModule(c)
           \/ AskCore(c) \/ SubscribeCore(c) \/ LeaveCore(c) \/ UnsubscribeCore(c)
    PROVE  OfCall(c)
<1> USE DEF Still, Goes, receivers, At
<1>1. CASE AskLibrary(c) \/ AskModule(c) \/ AskCore(c)
  <2>1. Asks(c)
    BY <1>1 DEF Asks, AskLibrary, AskModule, AskCore, AskSubscribe, LibraryCall, ModuleCall, CoreCall, Effect, Remote
  <2> QED
    BY <2>1 DEF OfCall
<1>2. CASE LeaveLibrary(c) \/ UnsubscribeModule(c) \/ UnsubscribeCore(c)
  <2>1. Leaves(c)
    BY <1>2 DEF Leaves, LeaveLibrary, UnsubscribeModule, UnsubscribeCore, AskUnsubscribe, LibraryCall, ModuleCall, CoreCall, Effect, Remote
  <2> QED
    BY <2>1 DEF OfCall
<1>3. CASE SubscribeRest(c) \/ SubscribeLibrary(c) \/ SubscribeModule(c) \/ SubscribeCore(c)
  <2>1. Inserts(c)
    BY <1>3, Zenon DEF Inserts, SubscribeRest, SubscribeLibrary, SubscribeModule, SubscribeCore, Insert
  <2> QED
    BY <2>1 DEF OfCall
<1>4. CASE AbortRest(c) \/ UnsubscribeMemory(c) \/ UnsubscribeRest(c) \/ UnsubscribeLibrary(c)
           \/ LeaveModule(c) \/ LeaveCore(c)
  <2>1. Removes(c)
    BY <1>4, Zenon DEF Removes, Remove, AbortRest, UnsubscribeMemory, UnsubscribeRest, UnsubscribeLibrary, LeaveModule, LeaveCore
  <2> QED
    BY <2>1 DEF OfCall
<1>5. CASE SubscribeMemory(c)
  <2>1. PICK old \in OfTopic(topicOf[c]) :
            /\ buf' = [buf EXCEPT ![c] = SubSeq(old, 1, IF Len(old) < Capacity THEN Len(old) ELSE Capacity)]
            /\ lost' = IF Len(old) > Capacity THEN lost \cup {c} ELSE lost
    BY <1>5, Zenon DEF SubscribeMemory
  <2>2. old \in Seq(Nat) /\ Increasing(old) /\ Range(old) = {i \in 1 .. Len(wire) : wire[i].topic = topicOf[c]}
    BY OfTopicLemma
  <2> DEFINE m == IF Len(old) < Capacity THEN Len(old) ELSE Capacity
             s == SubSeq(old, 1, m)
  <2>3. m \in Nat /\ m <= Len(old)
    BY <2>2, TransportAssumption
  <2> HIDE DEF m
  <2>4. s \in Seq(Nat) /\ Increasing(s) /\ Range(s) \subseteq Range(old)
    BY <2>2, <2>3, PrefixLemma
  <2> HIDE DEF s
  <2>5. buf' = [buf EXCEPT ![c] = s]
    BY <2>1 DEF s, m
  <2>6. \A i \in Range(s) : i \in 1 .. Len(wire) /\ wire[i].topic = topicOf[c]
    BY <2>2, <2>4
  <2>7. lost' \in {lost, lost \cup {c}}
    BY <2>1
  <2>8. Joins(c)
    BY <1>5, <2>4, <2>5, <2>6, <2>7, Zenon DEF Joins, SubscribeMemory, Insert
  <2> QED
    BY <2>8 DEF OfCall
<1> QED
  BY <1>1, <1>2, <1>3, <1>4, <1>5

LEMMA Steps == ASSUME wire \in Seq(Message), [TransportNext]_transportVars PROVE Step
<1>1. CASE NewLibrary \/ NewModule \/ NewCore
  <2>1. SetsUp
    BY <1>1 DEF SetsUp, Still, NewLibrary, NewModule, NewCore, SetUp, receivers, calls
  <2> QED
    BY <2>1 DEF Step
<1>2. CASE Shutdown \/ DropModule
  <2>1. TearsDown
    BY <1>2 DEF TearsDown, Shutdown, DropModule, TearDown
  <2> QED
    BY <2>1 DEF Step
<1>3. CASE \E c \in Callers : \E o \in {"subscribe", "unsubscribe"}, t \in Topics : Begin(c, o, t)
  BY <1>3 DEF Step, OfCall
<1>4. ASSUME NEW c \in Callers,
           \/ SubscribeMemory(c) \/ UnsubscribeMemory(c)
           \/ AbortRest(c) \/ SubscribeRest(c) \/ UnsubscribeRest(c)
           \/ AskLibrary(c) \/ SubscribeLibrary(c) \/ LeaveLibrary(c) \/ UnsubscribeLibrary(c)
           \/ AskModule(c) \/ SubscribeModule(c) \/ LeaveModule(c) \/ UnsubscribeModule(c)
           \/ AskCore(c) \/ SubscribeCore(c) \/ LeaveCore(c) \/ UnsubscribeCore(c)
      PROVE Step
  BY <1>4, CallSteps DEF Step
<1>5. ASSUME NEW t \in Topics,
             PublishLibrary(t) \/ PublishModule(t) \/ PublishCore(t) \/ \E p \in Payloads : PublishRest(t, p)
      PROVE Step
  <2>1. PICK p \in Payloads : OnWire(t, p) /\ kind # "memory" /\ UNCHANGED <<buf, lost, sender>>
    BY <1>5, AnyLemma DEF PublishLibrary, PublishModule, PublishCore, PublishRest
  <2>2. [topic |-> t, payload |-> p] \in Message
    BY DEF Message
  <2>3. Publishes
    BY <2>1, <2>2 DEF Publishes, OnWire, receivers
  <2> QED
    BY <2>3 DEF Step, Moves
<1>6. ASSUME NEW t \in Topics, PublishMemory(t) PROVE Step
  <2>1. PublishesMemory(t)
    BY <1>6, AnyLemma DEF PublishMemory, OnWire, PublishesMemory
  <2> QED
    BY <2>1 DEF Step, Moves
<1>7. CASE ShimQueues \/ ListenerQueues
  BY <1>7 DEF ShimQueues, ListenerQueues, Queues, Step, Moves
<1>8. CASE EventTrampoline \/ PollEvent \/ DispatchEvent \/ FanOut
  BY <1>8 DEF Step, Moves
<1>9. CASE \E c \in Callers : Receive(c) \/ DropReceiver(c) \/ Forward(c) \/ PollRest(c) \/ SendPolled(c)
  BY <1>9 DEF Step, Moves
<1>10. CASE UNCHANGED transportVars
  BY <1>10 DEF Step
<1> QED
  BY <1>1, <1>2, <1>3, <1>4, <1>5, <1>6, <1>7, <1>8, <1>9, <1>10 DEF TransportNext

-------------------------------------------------------------------------------
(* Types and places *)

LEMMA TopicLemma ==
    ASSUME Types, NEW i \in 1 .. Len(wire)
    PROVE  wire[i] \in Message /\ wire[i].topic \in Topics /\ wire[i].payload \in Payloads
<1>1. wire[i] \in Message
  BY DEF Types
<1> QED
  BY <1>1 DEF Message

LEMMA SizeLemma == ASSUME Types PROVE Len(wire) \in Nat /\ heard \in Nat /\ heard <= Len(wire)
<1>1. wire \in Seq(Message) /\ heard \in Nat /\ heard <= Len(wire)
  BY Zenon DEF Types
<1> QED
  BY <1>1

LEMMA SizeLemmaNext == ASSUME Types' PROVE Len(wire') \in Nat /\ heard' \in Nat /\ heard' <= Len(wire')
<1>1. wire' \in Seq(Message) /\ heard' \in Nat /\ heard' <= Len(wire')
  BY Zenon DEF Types, Message
<1> QED
  BY <1>1

LEMMA TopicOfCall == ASSUME Types, Places, NEW c \in Callers, call[c] # "idle" PROVE topicOf[c] \in Topics
<1>1. topicOf[c] # NoTopic
  BY Zenon DEF Places
<1> QED
  BY <1>1, Zenon DEF Types

LEMMA SenderIs == ASSUME Places, NEW t \in Topics, NEW d \in sender[t] PROVE topicOf[d] = t /\ call[d] = "done"
  BY Zenon DEF Places

LEMMA InHand == ASSUME Types, Places, NEW h \in hand PROVE h[1] \in Nat /\ h[2] \in Callers /\ call[h[2]] = "done"
<1>1. hand \subseteq Nat \X Callers
  BY Zenon DEF Types
<1>2. h \in Nat \X Callers
  BY <1>1, Zenon
<1>3. h[1] \in Nat /\ h[2] \in Callers
  BY <1>2
<1> QED
  BY <1>3, Zenon DEF Places

\* The next position, and what is before it.
LEMMA NextPosition ==
    ASSUME NEW l \in Nat, NEW i \in Nat
    PROVE  /\ l + 1 \in Nat /\ l + 1 >= l
           /\ i \in 1 .. l + 1 => i \in 1 .. l \/ i = l + 1
           /\ i \in 1 .. l => i \in 1 .. l + 1 /\ i < l + 1
           /\ i > l => i = l + 1 \/ i > l + 1
           /\ i <= l => i < l + 1 /\ i <= l + 1
  OBVIOUS

LEMMA Earlier ==
    ASSUME NEW l \in Nat
    PROVE  \A i \in 1 .. l : i \in Nat /\ i < l + 1 /\ i <= l /\ ~(l < i)
  OBVIOUS

LEMMA NotAfter == ASSUME NEW i \in Nat, NEW n \in Nat, i <= n PROVE ~(n < i)
  OBVIOUS

LEMMA NewOrUnheard ==
    ASSUME NEW l \in Nat, NEW h \in Nat, h <= l, NEW i \in 1 .. l + 1
    PROVE  i \in 1 .. l \/ i > h
  OBVIOUS

LEMMA NoneBetween == ASSUME NEW l \in Nat PROVE l + 1 .. l = {}
  OBVIOUS

LEMMA After ==
    ASSUME NEW a \in Nat, NEW l \in Nat, NEW i \in a + 1 .. l
    PROVE  i \in Nat /\ i \in 1 .. l /\ \A k \in Nat : i \in 1 .. k => i \in a + 1 .. k
  OBVIOUS

LEMMA ChangedAt ==
    ASSUME NEW C, NEW f, f = [d \in C |-> f[d]], NEW c \in C, NEW x, NEW g, g = [f EXCEPT ![c] = x]
    PROVE  g[c] = x /\ \A d \in C \ {c} : g[d] = f[d]
  OBVIOUS

LEMMA GoneIsNotUp ==
    Gone # SetupSteps /\ ~(Gone < SetupSteps) /\ \A n \in 0 .. SetupSteps - 1 : n < SetupSteps
  BY DEF Gone, SetupSteps

LEMMA BoundsGrow ==
    ASSUME NEW l \in Nat, NEW m \in Nat, NEW h \in Nat, NEW k \in Nat, m >= l, k >= h
    PROVE  \A i \in 1 .. l : i <= h => i \in 1 .. m /\ i <= k
  OBVIOUS

LEMMA WireGrows ==
    ASSUME Types, NEW m \in Message, wire' = Append(wire, m)
    PROVE  /\ wire' \in Seq(Message) /\ Len(wire') = Len(wire) + 1 /\ Len(wire) \in Nat
           /\ wire'[Len(wire) + 1] = m /\ Len(wire) + 1 \in 1 .. Len(wire')
           /\ \A i \in 1 .. Len(wire) : wire'[i] = wire[i]
<1>1. wire \in Seq(Message)
  BY Zenon DEF Types
<1> HIDE DEF Types
<1> QED
  BY <1>1

LEMMA CallTypes ==
    ASSUME Types, Places, NEW c \in Callers, OfCall(c)
    PROVE  Types'
<1> USE DEF Types, Goes, Still
<1>1. call[c] # "idle" => topicOf[c] \in Topics
  BY DEF Places
<1>2. CASE Asks(c)
  BY <1>1, <1>2, Zenon DEF Asks
<1>3. CASE Leaves(c)
  BY <1>1, <1>3, Zenon DEF Leaves
<1>4. CASE Inserts(c)
  <2>1. since' \in [Callers -> Nat]
    BY <1>4, SizeLemma, Zenon DEF Inserts
  <2> QED
    BY <1>4, <2>1, Zenon DEF Inserts
<1>5. CASE Joins(c)
  <2>1. PICK s \in Seq(Nat) : buf' = [buf EXCEPT ![c] = s]
    BY <1>5, Zenon DEF Joins
  <2>2. buf' \in [Callers -> Seq(Nat)]
    BY <2>1
  <2>3. lost' \subseteq Callers /\ since' \in [Callers -> Nat]
    BY <1>5 DEF Joins
  <2>4. sender' \in [Topics -> SUBSET Callers]
    <3>1. topicOf[c] \in Topics
      BY <1>1, <1>5 DEF Joins
    <3> QED
      BY <1>5, <3>1 DEF Joins
  <2>5. call' \in [Callers -> {"idle", "remote", "local", "spawn", "done", "error"}]
    BY <1>5 DEF Joins
  <2> QED
    BY <1>5, <2>2, <2>3, <2>4, <2>5, Zenon DEF Joins
<1>6. CASE Removes(c)
  BY <1>6, Zenon DEF Removes
<1>7. ASSUME NEW o \in {"subscribe", "unsubscribe"}, NEW t \in Topics, Begin(c, o, t) PROVE Types'
  BY <1>7 DEF Begin, FirstStep, receivers
<1> QED
  BY <1>2, <1>3, <1>4, <1>5, <1>6, <1>7, Zenon DEF OfCall

LEMMA MoveTypes == ASSUME Types, Places, Behind, Moves PROVE Types'
<1> USE DEF Types, calls, receivers
<1>1. CASE Publishes
  <2>1. PICK m \in Message : wire' = Append(wire, m)
    BY <1>1 DEF Publishes
  <2>2. wire' \in Seq(Message) /\ Len(wire') = Len(wire) + 1 /\ Len(wire) \in Nat
    BY <2>1, WireGrows, Zenon
  <2>3. heard' \in Nat /\ heard' <= Len(wire')
    <3>1. heard' = heard
      BY <1>1, Zenon DEF Publishes
    <3> HIDE DEF Types
    <3> QED
      BY <2>2, <3>1, SizeLemma
  <2> QED
    BY <1>1, <2>2, <2>3, Zenon DEF Publishes
<1>2. ASSUME NEW t \in Topics, PublishesMemory(t) PROVE Types'
  <2>1. PICK p \in Payloads : wire' = Append(wire, [topic |-> t, payload |-> p])
    BY <1>2 DEF PublishesMemory
  <2>2. [topic |-> t, payload |-> p] \in Message
    BY DEF Message
  <2>3. wire' \in Seq(Message) /\ Len(wire') = Len(wire) + 1 /\ Len(wire) \in Nat
    BY <2>1, <2>2, WireGrows, Zenon
  <2>4. buf' \in [Callers -> Seq(Nat)] /\ lost' \subseteq Callers
    BY <1>2, <2>3 DEF PublishesMemory, TrySend
  <2>5. heard' \in Nat /\ heard' <= Len(wire')
    <3>1. heard' = heard
      BY <1>2, Zenon DEF PublishesMemory
    <3> HIDE DEF Types
    <3> QED
      BY <2>3, <3>1, SizeLemma
  <2> QED
    BY <1>2, <2>3, <2>4, <2>5, Zenon DEF PublishesMemory
<1>3. CASE EventTrampoline
  <2>1. Len(wire) \in Nat /\ heard < Len(wire)
    BY <1>3 DEF EventTrampoline
  <2>2. PICK cs \in SUBSET Callers : TrySend(cs, heard + 1)
    <3>1. wire[heard + 1] \in Message
      BY <2>1
    <3>2. wire[heard + 1].topic \in Topics
      BY <3>1 DEF Message
    <3> QED
      BY <1>3, <3>2 DEF EventTrampoline
  <2>3. buf' \in [Callers -> Seq(Nat)] /\ lost' \subseteq Callers
    BY <2>1, <2>2 DEF TrySend
  <2>4. heard' \in Nat /\ heard' <= Len(wire)
    <3>1. heard \in Nat /\ heard' = heard + 1
      BY <1>3, Zenon DEF EventTrampoline
    <3> HIDE DEF Types
    <3> QED
      BY <2>1, <3>1
  <2> QED
    BY <1>3, <2>3, <2>4, Zenon DEF EventTrampoline
<1>4. CASE Queues
  <2>1. Len(wire) \in Nat /\ heard < Len(wire) /\ heard + 1 \in Nat
    BY <1>4 DEF Queues, Emit
  <2>2. events' \in Seq(Nat)
    BY <1>4, <2>1 DEF Queues, Emit
  <2> QED
    BY <1>4, <2>1, <2>2 DEF Queues, Emit
<1>5. CASE PollEvent
  <2>1. Tail(events) \in Seq(Nat) /\ Head(events) \in Nat /\ Head(events) \in Range(events)
    BY <1>5, PopLemma, Zenon DEF PollEvent
  <2>2. wire[Head(events)].topic \in Topics
    BY <2>1, TopicLemma, Zenon DEF Behind
  <2> QED
    BY <1>5, <2>1, <2>2 DEF PollEvent
<1>6. CASE DispatchEvent
  <2>1. PICK h \in hand : TrySend({h[2]}, h[1])
    BY <1>6, Zenon DEF DispatchEvent
  <2>2. h[1] \in Nat /\ h[2] \in Callers
    OBVIOUS
  <2>3. buf' \in [Callers -> Seq(Nat)] /\ lost' \subseteq Callers
    BY <2>1, <2>2 DEF TrySend
  <2> QED
    BY <1>6, <2>3, Zenon DEF DispatchEvent
<1>7. CASE FanOut
  <2>1. Tail(events) \in Seq(Nat) /\ Head(events) \in Nat
    BY <1>7, PopLemma DEF FanOut
  <2>2. back' \in [Callers -> Seq(Nat)]
    BY <1>7, <2>1 DEF FanOut
  <2> QED
    BY <1>7, <2>1, <2>2, Zenon DEF FanOut
<1>8. ASSUME NEW c \in Callers, Receive(c) PROVE Types'
  <2>1. Tail(buf[c]) \in Seq(Nat) /\ Append(got[c], Head(buf[c])) \in Seq(Nat)
    BY <1>8, PopLemma, PushLemma DEF Receive
  <2>2. buf' \in [Callers -> Seq(Nat)] /\ got' \in [Callers -> Seq(Nat)]
    BY <1>8, <2>1 DEF Receive
  <2> QED
    BY <1>8, <2>2, Zenon DEF Receive
<1>9. ASSUME NEW c \in Callers, DropReceiver(c) PROVE Types'
  BY <1>9 DEF DropReceiver
<1>10. ASSUME NEW c \in Callers, Forward(c) PROVE Types'
  <2>1. Tail(back[c]) \in Seq(Nat) /\ Append(buf[c], Head(back[c])) \in Seq(Nat)
    BY <1>10, PopLemma, PushLemma DEF Forward
  <2>2. buf' \in [Callers -> Seq(Nat)] /\ back' \in [Callers -> Seq(Nat)]
    BY <1>10, <2>1 DEF Forward
  <2> QED
    BY <1>10, <2>2, Zenon DEF Forward
<1>11. ASSUME NEW c \in Callers, PollRest(c) PROVE Types'
  <2>1. PICK s \in OfTopic(topicOf[c]) : back' = [back EXCEPT ![c] = s]
    BY <1>11, Zenon DEF PollRest
  <2>2. s \in Seq(Nat)
    BY OfTopicLemma
  <2> QED
    BY <1>11, <2>1, <2>2 DEF PollRest
<1>12. ASSUME NEW c \in Callers, SendPolled(c) PROVE Types'
  <2>1. Tail(back[c]) \in Seq(Nat) /\ Head(back[c]) \in Nat /\ Head(back[c]) \in Range(back[c])
    BY <1>12, PopLemma, Zenon DEF SendPolled
  <2>2. wire[Head(back[c])].payload \in Payloads
    BY <2>1, TopicLemma, Zenon DEF Behind, Meant
  <2>3. Append(buf[c], Head(back[c])) \in Seq(Nat)
    BY <2>1, PushLemma
  <2>4. buf' \in [Callers -> Seq(Nat)]
    <3>1. buf' = buf \/ buf' = [buf EXCEPT ![c] = Append(@, Head(back[c]))]
      BY <1>12, Zenon DEF SendPolled
    <3>2. buf \in [Callers -> Seq(Nat)]
      BY Zenon
    <3> HIDE DEF Types
    <3> QED
      BY <2>3, <3>1, <3>2, Zenon
  <2>5. seen' \in [Callers -> SUBSET Payloads]
    <3>1. \/ seen' = seen
          \/ seen' = [seen EXCEPT ![c] = @ \cup {wire[Head(back[c])].payload}]
      BY <1>12 DEF SendPolled
    <3>2. seen[c] \cup {wire[Head(back[c])].payload} \in SUBSET Payloads
      BY <2>2
    <3>3. seen \in [Callers -> SUBSET Payloads]
      BY Zenon
    <3> HIDE DEF Types
    <3> QED
      BY <3>1, <3>2, <3>3
  <2>6. pollers' \subseteq Callers /\ back' \in [Callers -> Seq(Nat)]
    BY <1>12, <2>1 DEF SendPolled
  <2> QED
    BY <1>12, <2>4, <2>5, <2>6, Zenon DEF SendPolled
<1> QED
  BY <1>1, <1>2, <1>3, <1>4, <1>5, <1>6, <1>7, <1>8, <1>9, <1>10, <1>11, <1>12, Zenon DEF Moves

LEMMA TypesStep == ASSUME Types, Places, Behind, Step PROVE Types'
<1>1. CASE SetsUp
  BY <1>1 DEF Types, SetsUp, Still
<1>2. CASE TearsDown
  BY <1>2 DEF Types, TearsDown, calls, receivers
<1>3. CASE UNCHANGED transportVars
  BY <1>3 DEF Types, transportVars, calls, receivers
<1> QED
  BY <1>1, <1>2, <1>3, CallTypes, MoveTypes DEF Step

LEMMA CallPlaces == ASSUME Types, Places, NEW c \in Callers, OfCall(c) PROVE Places'
<1> USE DEF Goes, Still
<1>0. call[c] # "idle" => topicOf[c] \in Topics
  BY DEF Places, Types
<1>1. ASSUME Still, call[c] \notin {"idle", "done"}, NEW x \in {"remote", "local", "spawn", "done", "error"}, Goes(c, x),
             UNCHANGED <<node, buf>>,
             \A t \in Topics : sender'[t] \subseteq sender[t] \cup (IF x = "done" /\ t = topicOf[c] THEN {c} ELSE {}),
             pollers' \subseteq pollers \cup (IF x = "done" /\ kind = "rest" THEN {c} ELSE {})
      PROVE Places'
  <2>1. call'[c] = x /\ \A d \in Callers \ {c} : call'[d] = call[d]
    BY <1>1, Zenon DEF Types
  <2>2. \A d \in Callers : call'[d] = "idle" <=> topicOf'[d] = NoTopic
    BY <1>1, <2>1 DEF Places
  <2>3. \A d \in Callers : call'[d] # "done" => got'[d] = <<>> /\ buf'[d] = <<>> /\ back'[d] = <<>>
    BY <1>1, <2>1 DEF Places
  <2>4. ASSUME NEW t \in Topics, NEW d \in sender'[t] PROVE call'[d] = "done" /\ topicOf'[d] = t
    <3>1. d \in sender[t] \/ (x = "done" /\ t = topicOf[c] /\ d = c)
      BY <1>1, <2>4
    <3>2. CASE d \in sender[t]
      BY <1>1, <2>1, <3>2 DEF Places, Types
    <3>3. CASE x = "done" /\ t = topicOf[c] /\ d = c
      BY <1>1, <2>1, <3>3
    <3> QED
      BY <3>1, <3>2, <3>3
  <2>5. ASSUME NEW d \in pollers' PROVE call'[d] = "done" /\ kind' = "rest"
    <3>1. d \in pollers \/ (x = "done" /\ kind = "rest" /\ d = c)
      BY <1>1, <2>5
    <3>2. d \in pollers => call[d] = "done" /\ kind = "rest" /\ d \in Callers
      BY DEF Places, Types
    <3> QED
      BY <1>1, <2>1, <3>1, <3>2
  <2>6. \A h \in hand' : call'[h[2]] = "done" /\ kind' = "shim"
    BY <1>1, <2>1 DEF Places, Types
  <2>7. node' < SetupSteps => \A d \in Callers : call'[d] = "idle"
    BY <1>1, <2>1 DEF Places, Types
  <2> QED
    BY <1>1, <2>2, <2>3, <2>4, <2>5, <2>6, <2>7 DEF Places
<1>2. CASE Asks(c)
  BY <1>1, <1>2 DEF Asks
<1>3. CASE Leaves(c)
  BY <1>1, <1>3 DEF Leaves
<1>4. CASE Inserts(c)
  <2>1. \A t \in Topics : sender'[t] \subseteq sender[t] \cup (IF t = topicOf[c] THEN {c} ELSE {})
    BY <1>4 DEF Inserts, Types
  <2> QED
    BY <1>1, <1>4, <2>1 DEF Inserts
<1>5. CASE Joins(c)
  <2>1. \A t \in Topics : sender'[t] \subseteq sender[t] \cup (IF t = topicOf[c] THEN {c} ELSE {})
    BY <1>5 DEF Joins, Types
  <2>2. /\ call'[c] = "done" /\ \A d \in Callers \ {c} : call'[d] = call[d] /\ buf'[d] = buf[d]
        /\ \A t \in Topics : \A d \in sender'[t] : (d = c /\ t = topicOf[c]) \/ d \in sender[t]
    BY <1>5, <2>1 DEF Joins, Types
  <2>3. UNCHANGED <<node, kind, topicOf, got, back, hand, pollers, events>> /\ call[c] = "local"
    BY <1>5 DEF Joins
  <2>4. \A d \in Callers : call'[d] = "idle" <=> topicOf'[d] = NoTopic
    <3>1. ASSUME NEW d \in Callers PROVE call'[d] = "idle" <=> call[d] = "idle"
      BY <2>2, <2>3
    <3> QED
      BY <2>3, <3>1, Zenon DEF Places
  <2>5. \A d \in Callers : call'[d] # "done" => got'[d] = <<>> /\ buf'[d] = <<>> /\ back'[d] = <<>>
    BY <2>2, <2>3 DEF Places
  <2>6. ASSUME NEW t \in Topics, NEW d \in sender'[t] PROVE call'[d] = "done" /\ topicOf'[d] = t
    <3>1. CASE d = c /\ t = topicOf[c]
      BY <2>2, <2>3, <3>1, Zenon
    <3>2. CASE d # c /\ d \in sender[t]
      <4>1. d \in Callers /\ call[d] = "done" /\ topicOf[d] = t
        BY <3>2, Zenon DEF Places, Types
      <4> QED
        BY <2>2, <2>3, <3>2, <4>1, Zenon
    <3>3. CASE d = c /\ d \in sender[t]
      BY <2>3, <3>3, Zenon DEF Places
    <3> QED
      BY <2>2, <3>1, <3>2, <3>3, Zenon
  <2>7. \A h \in hand' : call'[h[2]] = "done" /\ kind' = "shim"
    BY <2>2, <2>3, Zenon DEF Places, Types
  <2>8. \A d \in pollers' : call'[d] = "done" /\ kind' = "rest"
    BY <2>2, <2>3, Zenon DEF Places, Types
  <2>9. node' < SetupSteps => \A d \in Callers : call'[d] = "idle"
    BY <2>2, <2>3, Zenon DEF Places
  <2> QED
    BY <2>3, <2>4, <2>5, <2>6, <2>7, <2>8, <2>9, Zenon DEF Places
<1>6. CASE Removes(c)
  <2>1. \A t \in Topics : sender'[t] \subseteq sender[t]
    BY <1>6 DEF Removes, Types
  <2> QED
    BY <1>1, <1>6, <2>1, Zenon DEF Removes
<1>7. ASSUME NEW o \in {"subscribe", "unsubscribe"}, NEW t \in Topics, Begin(c, o, t) PROVE Places'
  <2>1. /\ call[c] = "idle" /\ call'[c] \in {"remote", "local"} /\ topicOf'[c] = t
        /\ \A d \in Callers \ {c} : call'[d] = call[d] /\ topicOf'[d] = topicOf[d]
        /\ UNCHANGED <<node, kind, got, buf, back, hand, pollers, events, sender>> /\ Running
    BY <1>7 DEF Begin, FirstStep, Types, receivers
  <2>2. \A d \in Callers : call'[d] = "idle" <=> topicOf'[d] = NoTopic
    <3>1. \A d \in Callers : call[d] = "idle" <=> topicOf[d] = NoTopic
      BY Zenon DEF Places
    <3>2. call'[c] # "idle" /\ topicOf'[c] # NoTopic
      BY <2>1, TransportAssumption, Zenon
    <3>3. ASSUME NEW d \in Callers PROVE call'[d] = "idle" <=> topicOf'[d] = NoTopic
      <4>1. CASE d = c
        BY <3>2, <4>1, Zenon
      <4>2. CASE d # c
        BY <2>1, <3>1, <4>2, Zenon
      <4> QED
        BY <4>1, <4>2, Zenon
    <3> QED
      BY <3>3, Zenon
  <2>3. \A d \in Callers : call'[d] # "done" => got'[d] = <<>> /\ buf'[d] = <<>> /\ back'[d] = <<>>
    BY <2>1, Zenon DEF Places
  <2>4. \A u \in Topics : \A d \in sender'[u] : call'[d] = "done" /\ topicOf'[d] = u
    BY <2>1 DEF Places, Types
  <2>5. \A h \in hand' : call'[h[2]] = "done" /\ kind' = "shim"
    BY <2>1 DEF Places, Types
  <2>6. \A d \in pollers' : call'[d] = "done" /\ kind' = "rest"
    BY <2>1 DEF Places, Types
  <2>7. node' < SetupSteps => \A d \in Callers : call'[d] = "idle"
    <3>1. node' = SetupSteps
      BY <2>1, Zenon DEF Running
    <3> QED
      BY <3>1 DEF SetupSteps
  <2>8. UNCHANGED <<events, kind, back>>
    BY <2>1, Zenon
  <2> QED
    BY <2>2, <2>3, <2>4, <2>5, <2>6, <2>7, <2>8, Zenon DEF Places
<1> QED
  BY <1>2, <1>3, <1>4, <1>5, <1>6, <1>7 DEF OfCall

\* A message moves: only receivers that exist take part.
Disturbs ==
    /\ UNCHANGED <<kind, node, call, op, topicOf, netSub, raced, since>> /\ pollers' \subseteq pollers
    /\ \A t \in Topics : sender'[t] \subseteq sender[t]
    /\ \A d \in Callers : call[d] # "done" => got'[d] = got[d] /\ buf'[d] = buf[d] /\ back'[d] = back[d]
    /\ \A h \in hand' : h \in hand \/ (kind = "shim" /\ \E t \in Topics : h[2] \in sender[t])
    /\ events' # <<>> => events # <<>> \/ kind \in {"shim", "core"}
    /\ \A d \in Callers : back'[d] # <<>> => back[d] # <<>> \/ kind \in {"core", "rest"}

LEMMA MovesDisturb == ASSUME Types, Places, Behind, Moves PROVE Disturbs
<1> USE DEF Types, calls, receivers
<1>1. CASE Publishes
  BY <1>1 DEF Publishes, Disturbs
<1>2. ASSUME NEW t \in Topics, PublishesMemory(t) PROVE Disturbs
  <2>1. \A d \in Callers : call[d] # "done" => buf'[d] = buf[d]
    BY <1>2 DEF PublishesMemory, TrySend, Places
  <2>2. \A u \in Topics : sender'[u] \subseteq sender[u]
    BY <1>2 DEF PublishesMemory
  <2> QED
    BY <1>2, <2>1, <2>2 DEF PublishesMemory, Disturbs
<1>3. CASE EventTrampoline
  <2>1. wire[heard + 1].topic \in Topics
    <3>1. heard < Len(wire)
      BY <1>3, Zenon DEF EventTrampoline
    <3> HIDE DEF Types
    <3>2. heard + 1 \in 1 .. Len(wire)
      BY <3>1, SizeLemma
    <3> QED
      BY <3>2, TopicLemma, Zenon
  <2>2. \A d \in Callers : call[d] # "done" => buf'[d] = buf[d]
    BY <1>3, <2>1 DEF EventTrampoline, TrySend, Places
  <2> QED
    BY <1>3, <2>2 DEF EventTrampoline, Disturbs
<1>4. CASE Queues
  BY <1>4 DEF Queues, Emit, Disturbs
<1>5. CASE PollEvent
  <2>1. Head(events) \in Range(events)
    BY <1>5, PopLemma, Zenon DEF PollEvent
  <2>2. wire[Head(events)].topic \in Topics
    BY <2>1, TopicLemma, Zenon DEF Behind
  <2>3. ASSUME NEW h \in hand' PROVE \E t \in Topics : h[2] \in sender[t]
    <3>1. PICK c \in sender[wire[Head(events)].topic] : h = <<Head(events), c>>
      BY <1>5, Zenon DEF PollEvent
    <3>2. h[2] = c
      BY <3>1
    <3> QED
      BY <2>2, <3>2, Zenon
  <2> QED
    BY <1>5, <2>3, Zenon DEF PollEvent, Disturbs
<1>6. CASE DispatchEvent
  <2>1. PICK h \in hand : TrySend({h[2]}, h[1])
    BY <1>6, Zenon DEF DispatchEvent
  <2>2. call[h[2]] = "done"
    BY DEF Places
  <2>3. \A d \in Callers : call[d] # "done" => buf'[d] = buf[d]
    BY <2>1, <2>2 DEF TrySend
  <2> QED
    BY <1>6, <2>3 DEF DispatchEvent, Disturbs
<1>7. CASE FanOut
  <2>1. Head(events) \in Range(events)
    BY <1>7, PopLemma, Zenon DEF FanOut
  <2>2. wire[Head(events)].topic \in Topics
    BY <2>1, TopicLemma, Zenon DEF Behind
  <2>3. \A d \in Callers : call[d] # "done" => back'[d] = back[d]
    BY <1>7, <2>2, Zenon DEF FanOut, Places
  <2> QED
    BY <1>7, <2>3 DEF FanOut, Disturbs
<1>8. ASSUME NEW c \in Callers, Receive(c) PROVE Disturbs
  <2>1. call[c] = "done" /\ \A d \in Callers \ {c} : buf'[d] = buf[d] /\ got'[d] = got[d]
    BY <1>8 DEF Receive, Places
  <2> QED
    BY <1>8, <2>1, Zenon DEF Receive, Disturbs
<1>9. ASSUME NEW c \in Callers, DropReceiver(c) PROVE Disturbs
  <2>1. call[c] = "done" /\ \A d \in Callers \ {c} : buf'[d] = buf[d]
    BY <1>9 DEF DropReceiver
  <2> QED
    BY <1>9, <2>1 DEF DropReceiver, Disturbs
<1>10. ASSUME NEW c \in Callers, Forward(c) PROVE Disturbs
  <2>1. call[c] = "done" /\ \A d \in Callers \ {c} : buf'[d] = buf[d] /\ back'[d] = back[d]
    BY <1>10 DEF Forward, Places
  <2> QED
    BY <1>10, <2>1 DEF Forward, Disturbs
<1>11. ASSUME NEW c \in Callers, PollRest(c) PROVE Disturbs
  <2>1. call[c] = "done" /\ kind = "rest" /\ \A d \in Callers \ {c} : back'[d] = back[d]
    BY <1>11 DEF PollRest, Places
  <2> QED
    BY <1>11, <2>1 DEF PollRest, Disturbs
<1>12. ASSUME NEW c \in Callers, SendPolled(c) PROVE Disturbs
  <2>1. call[c] = "done" /\ kind = "rest" /\ \A d \in Callers \ {c} : buf'[d] = buf[d] /\ back'[d] = back[d]
    <3>1. call[c] = "done" /\ kind = "rest"
      BY <1>12, Zenon DEF SendPolled, Places
    <3>2. /\ buf' = buf \/ buf' = [buf EXCEPT ![c] = Append(@, Head(back[c]))]
          /\ back' = [back EXCEPT ![c] = Tail(@)] \/ back' = [back EXCEPT ![c] = <<>>]
      BY <1>12, Zenon DEF SendPolled
    <3> QED
      BY <3>1, <3>2, Zenon
  <2>2. pollers' \subseteq pollers
    BY <1>12 DEF SendPolled
  <2> QED
    BY <1>12, <2>1, <2>2, Zenon DEF SendPolled, Disturbs
<1> QED
  BY <1>1, <1>2, <1>3, <1>4, <1>5, <1>6, <1>7, <1>8, <1>9, <1>10, <1>11, <1>12 DEF Moves

LEMMA PlacesStep == ASSUME Types, Places, Behind, Step PROVE Places'
<1>1. CASE SetsUp
  <2>1. node < SetupSteps
    BY <1>1, GoneIsNotUp, Zenon DEF SetsUp
  <2> QED
    BY <1>1, <2>1, Zenon DEF Places, SetsUp, Still
<1>2. CASE TearsDown
  <2>1. ~(node' < SetupSteps)
    BY <1>2, GoneIsNotUp, Zenon DEF TearsDown
  <2> QED
    BY <1>2, <2>1, Zenon DEF Places, TearsDown, calls, receivers
<1>3. CASE UNCHANGED transportVars
  BY <1>3, Zenon DEF Places, transportVars, calls, receivers
<1>4. CASE Moves
  <2>1. Disturbs
    BY <1>4, MovesDisturb
  <2>2. \A d \in Callers : call'[d] # "done" => got'[d] = <<>> /\ buf'[d] = <<>> /\ back'[d] = <<>>
    BY <2>1, Zenon DEF Places, Disturbs
  <2>3. \A t \in Topics : \A d \in sender'[t] : call'[d] = "done" /\ topicOf'[d] = t
    BY <2>1, Zenon DEF Places, Disturbs
  <2>4. \A h \in hand' : call'[h[2]] = "done" /\ kind' = "shim"
    BY <2>1, Zenon DEF Places, Disturbs
  <2> QED
    BY <2>1, <2>2, <2>3, <2>4, Zenon DEF Places, Disturbs
<1> QED
  BY <1>1, <1>2, <1>3, <1>4, CallPlaces DEF Step

-------------------------------------------------------------------------------
(* Order *)

\* What was published stays, and so does the topic of a caller.
Extends ==
    /\ kind' = kind /\ heard' >= heard /\ Len(wire') >= Len(wire)
    /\ \A i \in 1 .. Len(wire) : wire'[i] = wire[i]
    /\ \A c \in Callers : call[c] # "idle" => topicOf'[c] = topicOf[c]

LEMMA ExtendsStep == ASSUME Types, Places, Behind, Step PROVE Extends
<1>0. Len(wire) \in Nat /\ heard \in Nat /\ heard >= heard /\ heard + 1 >= heard
  BY SizeLemma
<1>1. ASSUME UNCHANGED <<kind, wire>>, heard' >= heard, UNCHANGED topicOf PROVE Extends
  BY <1>0, <1>1 DEF Extends
<1>2. CASE SetsUp \/ TearsDown \/ UNCHANGED transportVars
  <2>1. UNCHANGED <<kind, wire, heard, topicOf>>
    BY <1>2, Zenon DEF SetsUp, Still, TearsDown, calls, transportVars
  <2> QED
    BY <1>0, <1>1, <2>1
<1>3. ASSUME NEW c \in Callers, Asks(c) \/ Leaves(c) \/ Inserts(c) \/ Joins(c) \/ Removes(c) PROVE Extends
  <2>1. UNCHANGED <<kind, wire, heard, topicOf>>
    BY <1>3, Zenon DEF Asks, Leaves, Inserts, Joins, Removes, Still
  <2> QED
    BY <1>0, <1>1, <2>1
<1>4. ASSUME NEW c \in Callers, NEW o, NEW t, Begin(c, o, t) PROVE Extends
  <2>1. UNCHANGED <<kind, wire, heard>> /\ call[c] = "idle" /\ topicOf' = [topicOf EXCEPT ![c] = t]
    BY <1>4, Zenon DEF Begin
  <2>2. topicOf \in [Callers -> Topics \cup {NoTopic}]
    BY Zenon DEF Types
  <2> QED
    BY <1>0, <2>1, <2>2 DEF Extends
<1>5. ASSUME UNCHANGED <<kind, heard, topicOf>>, NEW m, wire' = Append(wire, m), m \in Message PROVE Extends
  <2>0. wire \in Seq(Message)
    BY Zenon DEF Types
  <2>1. Len(wire') = Len(wire) + 1 /\ \A i \in 1 .. Len(wire) : wire'[i] = wire[i]
    BY <1>5, <2>0
  <2> QED
    BY <1>0, <1>5, <2>1 DEF Extends
<1>6. CASE Publishes
  BY <1>5, <1>6 DEF Publishes, calls
<1>7. ASSUME NEW t \in Topics, PublishesMemory(t) PROVE Extends
  <2>1. PICK q \in Payloads : wire' = Append(wire, [topic |-> t, payload |-> q])
    BY <1>7 DEF PublishesMemory
  <2>2. [topic |-> t, payload |-> q] \in Message
    BY DEF Message
  <2> QED
    BY <1>5, <1>7, <2>1, <2>2 DEF PublishesMemory, calls
<1>8. CASE EventTrampoline \/ Queues \/ PollEvent \/ DispatchEvent \/ FanOut
  <2>1. UNCHANGED <<kind, wire, topicOf>> /\ heard' \in {heard, heard + 1}
    BY <1>8, Zenon DEF EventTrampoline, Queues, Emit, PollEvent, DispatchEvent, FanOut, calls
  <2> QED
    BY <1>0, <1>1, <2>1
<1>9. ASSUME NEW c \in Callers, Receive(c) \/ DropReceiver(c) \/ Forward(c) \/ PollRest(c) \/ SendPolled(c)
      PROVE Extends
  <2>1. UNCHANGED <<kind, wire, topicOf, heard>>
    BY <1>9, Zenon DEF Receive, DropReceiver, Forward, PollRest, SendPolled, calls
  <2> QED
    BY <1>0, <1>1, <2>1
<1> QED
  BY <1>2, <1>3, <1>4, <1>6, <1>7, <1>8, <1>9 DEF Step, OfCall, Moves

LEMMA MeantKept ==
    ASSUME Types, Types', Extends, NEW c \in Callers, call[c] # "idle", NEW i, Meant(c, i)
    PROVE  Meant(c, i)'
<1>1. i \in 1 .. Len(wire) /\ wire[i].topic = topicOf[c] /\ (kind \in Remote => i <= heard)
  BY DEF Meant
<1>2. Len(wire) \in Nat /\ Len(wire') \in Nat /\ heard \in Nat /\ heard' \in Nat
  BY DEF Types
<1>3. /\ kind' = kind /\ heard' >= heard /\ Len(wire') >= Len(wire)
      /\ wire'[i] = wire[i] /\ topicOf'[c] = topicOf[c]
  BY <1>1 DEF Extends
<1>4. i \in 1 .. Len(wire') /\ (i <= heard => i <= heard')
  BY <1>1, <1>2, <1>3
<1> QED
  BY <1>1, <1>3, <1>4, Zenon DEF Meant

LEMMA EmptyLemma ==
    ASSUME Types, Places, NEW c \in Callers
    PROVE  /\ Passed(c) \subseteq Nat /\ Range(back[c]) \subseteq Nat /\ Range(events) \subseteq Nat
           /\ Passed(c) # {} \/ Range(back[c]) # {} => call[c] = "done"
<1>1. /\ Range(got[c]) \subseteq Nat /\ Range(buf[c]) \subseteq Nat /\ Range(back[c]) \subseteq Nat
      /\ Range(events) \subseteq Nat
      /\ got[c] = <<>> <=> Range(got[c]) = {}
      /\ buf[c] = <<>> <=> Range(buf[c]) = {}
      /\ back[c] = <<>> <=> Range(back[c]) = {}
  BY RangeLemma, Zenon DEF Types
<1> QED
  BY <1>1 DEF Places, Passed

\* Nothing new comes near a receiver.
LEMMA CalmBehind ==
    ASSUME Types, Types', Places, Channels, Behind, Polled, Extends,
           \A c \in Callers : Passed(c)' \subseteq Passed(c) /\ back'[c] = back[c] /\ seen'[c] = seen[c],
           events' \in {events, <<>>}, hand' \subseteq hand,
           \A c \in pollers' : c \in pollers \/ back[c] = <<>>
    PROVE  (Behind /\ Polled)'
<1>1. Range(<<>>) = {} /\ Increasing(<<>>)
  BY EmptyFacts, Zenon
<1>2. Increasing(events') /\ \A i \in Range(events') : i \in 1 .. Len(wire') /\ i <= heard'
  <2>1. Increasing(events) /\ \A i \in Range(events) : i \in 1 .. Len(wire) /\ i <= heard
    BY Zenon DEF Behind
  <2>2. heard' >= heard /\ Len(wire') >= Len(wire)
    BY Zenon DEF Extends
  <2>3. \A i \in 1 .. Len(wire) : i <= heard => i \in 1 .. Len(wire') /\ i <= heard'
    <3>1. Len(wire) \in Nat /\ Len(wire') \in Nat /\ heard \in Nat /\ heard' \in Nat
      BY SizeLemma, SizeLemmaNext, Zenon
    <3> QED
      BY <2>2, <3>1, BoundsGrow, Zenon
  <2> QED
    BY <1>1, <2>1, <2>3, Zenon
<1>3. Range(events') \subseteq Range(events)
  BY <1>1, Zenon
<1>4. ASSUME NEW c \in Callers
      PROVE  /\ Increasing(back'[c]) /\ \A i \in Range(back'[c]) : Meant(c, i)'
             /\ Before(Passed(c)', Range(events'))
             /\ kind' = "core" => Before(Passed(c)', Range(back'[c])) /\ Before(Range(back'[c]), Range(events'))
  <2>1. \A i \in Range(back[c]) : Meant(c, i)'
    BY MeantKept, EmptyLemma, Zenon DEF Behind
  <2>2. kind' = kind
    BY Zenon DEF Extends
  <2>3. /\ Increasing(back[c]) /\ Before(Passed(c), Range(events))
        /\ kind = "core" => Before(Passed(c), Range(back[c])) /\ Before(Range(back[c]), Range(events))
    BY Zenon DEF Behind
  <2>4. \A S, T, U, V : S \subseteq U /\ T \subseteq V /\ Before(U, V) => Before(S, T)
    BY Zenon DEF Before
  <2> QED
    BY <1>3, <2>1, <2>2, <2>3, <2>4, Zenon
<1>5. ASSUME NEW h \in hand'
      PROVE  Meant(h[2], h[1])' /\ Before(Passed(h[2])', {h[1]}) /\ Before({h[1]}, Range(events'))
  <2>1. h \in hand /\ h[2] \in Callers /\ call[h[2]] = "done"
    BY InHand, Zenon
  <2>2. Meant(h[2], h[1])'
    BY <2>1, MeantKept, Zenon DEF Behind
  <2>3. Before(Passed(h[2]), {h[1]}) /\ Before({h[1]}, Range(events)) /\ Passed(h[2])' \subseteq Passed(h[2])
    BY <2>1, Zenon DEF Behind
  <2>4. \A S, T, U, V : S \subseteq U /\ T \subseteq V /\ Before(U, V) => Before(S, T)
    BY Zenon DEF Before
  <2>5. Before(Passed(h[2])', {h[1]})
    <3>1. \A i \in Passed(h[2])' : i < h[1]
      BY <2>3, Zenon DEF Before
    <3> QED
      BY <3>1, Zenon DEF Before
  <2>6. Before({h[1]}, Range(events'))
    BY <1>3, <2>3, <2>4, Zenon
  <2> QED
    BY <2>2, <2>5, <2>6, Zenon
<1>6. Behind'
  BY <1>2, <1>4, <1>5, Zenon DEF Behind
<1>7. ASSUME kind' = "rest", NEW c \in Callers, NEW i \in 1 .. Len(wire'), wire'[i].topic = topicOf'[c]
      PROVE  /\ \A j \in Passed(c)' : i <= j => wire'[i].payload \in seen'[c]
             /\ \A j \in Range(back'[c]) :
                    c \in pollers' /\ i <= j => i \in Range(back'[c]) \/ wire'[i].payload \in seen'[c]
  <2>1. ASSUME NEW j \in Passed(c)', i <= j PROVE wire'[i].payload \in seen'[c]
    <3>1. j \in Passed(c) /\ j \in Nat /\ call[c] = "done"
      BY <2>1, EmptyLemma, Zenon
    <3>2. j \in 1 .. Len(wire)
      BY <3>1, Zenon DEF Channels, Meant
    <3>3. i \in 1 .. Len(wire)
      BY <2>1, <3>2, EarlierLemma, SizeLemma, SizeLemmaNext, Zenon
    <3>4. wire'[i] = wire[i] /\ topicOf'[c] = topicOf[c] /\ kind = "rest"
      BY <1>7, <3>1, <3>3, Zenon DEF Extends
    <3> QED
      BY <1>7, <2>1, <3>1, <3>3, <3>4 DEF Polled
  <2>2. ASSUME NEW j \in Range(back'[c]), c \in pollers', i <= j
        PROVE  i \in Range(back'[c]) \/ wire'[i].payload \in seen'[c]
    <3>1. j \in Range(back[c]) /\ j \in Nat /\ call[c] = "done"
      BY <2>2, EmptyLemma, Zenon
    <3>2. j \in 1 .. Len(wire)
      BY <3>1, Zenon DEF Behind, Meant
    <3>3. i \in 1 .. Len(wire)
      BY <2>2, <3>2, EarlierLemma, SizeLemma, SizeLemmaNext, Zenon
    <3>4. wire'[i] = wire[i] /\ topicOf'[c] = topicOf[c] /\ kind = "rest"
      BY <1>7, <3>1, <3>3, Zenon DEF Extends
    <3>5. c \in pollers
      BY <1>1, <2>2, <3>1, Zenon
    <3> QED
      BY <1>7, <2>2, <3>1, <3>3, <3>4, <3>5, Zenon DEF Polled
  <2> QED
    BY <2>1, <2>2, Zenon
<1> QED
  BY <1>6, <1>7, Zenon DEF Polled

\* A message is appended to the channel of one receiver or of several.
Fed(c) ==
    /\ got'[c] = got[c]
    /\ \/ buf'[c] = buf[c]
       \/ \E i \in Nat : buf'[c] = Append(buf[c], i) /\ Before(Passed(c), {i}) /\ Meant(c, i)'

LEMMA FedChannel ==
    ASSUME Types, Types', Places, Channels, Extends, NEW c \in Callers, Fed(c)
    PROVE  /\ Increasing(got'[c]) /\ Increasing(buf'[c]) /\ Before(Range(got'[c]), Range(buf'[c]))
           /\ \A i \in Passed(c)' : Meant(c, i)'
<1>1. \A i \in Passed(c) : Meant(c, i)'
  BY MeantKept, EmptyLemma, Zenon DEF Channels
<1>2. CASE buf'[c] = buf[c]
  BY <1>1, <1>2, Zenon DEF Fed, Channels, Passed
<1>3. ASSUME NEW i \in Nat, buf'[c] = Append(buf[c], i), Before(Passed(c), {i}), Meant(c, i)'
      PROVE  /\ Increasing(got'[c]) /\ Increasing(buf'[c]) /\ Before(Range(got'[c]), Range(buf'[c]))
             /\ \A j \in Passed(c)' : Meant(c, j)'
  <2>1. /\ Range(buf'[c]) = Range(buf[c]) \cup {i}
        /\ Increasing(buf[c]) /\ Before(Range(buf[c]), {i}) => Increasing(buf'[c])
    <3>1. buf[c] \in Seq(Nat)
      BY DEF Types
    <3> QED
      BY <1>3, <3>1, PushLemma, Zenon
  <2>2. Before(Range(buf[c]), {i}) /\ Before(Range(got[c]), {i})
    BY <1>3, Zenon DEF Before, Passed
  <2>3. got'[c] = got[c]
    BY Zenon DEF Fed
  <2>4. Before(Range(got'[c]), Range(buf'[c]))
    BY <2>1, <2>2, <2>3, Zenon DEF Channels, Before
  <2>5. Passed(c)' = Passed(c) \cup {i}
    BY <2>1, <2>3, Zenon DEF Passed
  <2> QED
    BY <1>1, <1>3, <2>1, <2>2, <2>3, <2>4, <2>5, Zenon DEF Channels
<1> QED
  BY <1>2, <1>3, Zenon DEF Fed

LEMMA FedChannels ==
    ASSUME Types, Types', Places, Channels, Extends, \A c \in Callers : Fed(c)
    PROVE  Channels'
BY FedChannel, Zenon DEF Channels

\* The backends that have nothing behind the channels.
LEMMA QuietBehind ==
    ASSUME Types', Places', kind' \in {"memory", "library"}
    PROVE  (Behind /\ Polled)'
<1>1. Range(<<>>) = {} /\ Increasing(<<>>)
  BY EmptyFacts, Zenon
<1>2. events' = <<>> /\ hand' = {} /\ \A c \in Callers : back'[c] = <<>>
  BY Zenon DEF Places
<1> QED
  BY <1>1, <1>2, Zenon DEF Behind, Polled, Before

\* What a step of the proof knows.
Context == OrderInv /\ Types' /\ Places' /\ Extends
Order == Channels /\ Behind /\ Polled

LEMMA CalmOrder ==
    ASSUME Context, UNCHANGED <<got, buf, back, seen>>, events' \in {events, <<>>}, hand' \subseteq hand,
           \A c \in pollers' : c \in pollers \/ back[c] = <<>>
    PROVE  Order'
<1>1. \A c \in Callers : Fed(c) /\ Passed(c)' = Passed(c)
  BY Zenon DEF Fed, Passed
<1> QED
  BY <1>1, FedChannels, CalmBehind, Zenon DEF Context, OrderInv, Order

LEMMA JoinsOrder == ASSUME Context, NEW c \in Callers, Joins(c) PROVE Order'
<1>1. PICK s \in Seq(Nat) :
          /\ buf' = [buf EXCEPT ![c] = s] /\ Increasing(s)
          /\ \A i \in Range(s) : i \in 1 .. Len(wire) /\ wire[i].topic = topicOf[c]
  BY Zenon DEF Joins
<1>2. buf'[c] = s /\ \A d \in Callers \ {c} : buf'[d] = buf[d]
  BY <1>1 DEF Context, OrderInv, Types
<1>3. got' = got /\ got[c] = <<>> /\ kind = "memory" /\ UNCHANGED <<kind, wire, topicOf>>
  BY Zenon DEF Joins, Still, Context, OrderInv, Places
<1>4. ASSUME NEW d \in Callers \ {c}
      PROVE  /\ Increasing(got'[d]) /\ Increasing(buf'[d]) /\ Before(Range(got'[d]), Range(buf'[d]))
             /\ \A i \in Passed(d)' : Meant(d, i)'
  BY <1>2, <1>3, FedChannel, Zenon DEF Fed, Context, OrderInv
<1>5. /\ Increasing(got'[c]) /\ Increasing(buf'[c]) /\ Before(Range(got'[c]), Range(buf'[c]))
      /\ \A i \in Passed(c)' : Meant(c, i)'
  <2>1. Range(<<>>) = {} /\ Increasing(<<>>)
    BY DEF Range, Increasing
  <2>2. Passed(c)' = Range(s)
    BY <1>2, <1>3, <2>1 DEF Passed
  <2> QED
    BY <1>1, <1>2, <1>3, <2>1, <2>2, Zenon DEF Before, Meant, Remote
<1>6. Channels'
  BY <1>4, <1>5, Zenon DEF Channels
<1> QED
  BY <1>3, <1>6, QuietBehind, Zenon DEF Context, Order

LEMMA PublishesMemoryOrder == ASSUME Context, NEW t \in Topics, PublishesMemory(t) PROVE Order'
<1>0. PICK n \in Nat : n = Len(wire) + 1
  BY SizeLemma, NextPosition, Zenon DEF Context, OrderInv
<1>1. /\ kind = "memory" /\ kind' = kind /\ got' = got /\ topicOf' = topicOf
      /\ \A d \in Callers : buf'[d] = buf[d] \/ (d \in sender[t] /\ buf'[d] = Append(buf[d], n))
  BY <1>0 DEF PublishesMemory, TrySend, calls
<1>2. n \in Nat /\ n \in 1 .. Len(wire') /\ wire'[n].topic = t /\ \A i \in 1 .. Len(wire) : i < n
  <2>1. PICK q \in Payloads : wire' = Append(wire, [topic |-> t, payload |-> q])
    BY DEF PublishesMemory
  <2>2. wire \in Seq(Message) /\ [topic |-> t, payload |-> q] \in Message
    BY Zenon DEF Context, OrderInv, Types, Message
  <2>3. Len(wire') = n /\ wire'[n] = [topic |-> t, payload |-> q] /\ Len(wire) \in Nat /\ n \in 1 .. Len(wire')
    BY <1>0, <2>1, <2>2, WireGrows, Zenon DEF Context, OrderInv
  <2>4. wire'[n].topic = t
    <3>1. [topic |-> t, payload |-> q].topic = t
      OBVIOUS
    <3> QED
      BY <2>3, <3>1, Zenon
  <2>5. \A i \in 1 .. Len(wire) : i < n
    <3>1. \A i \in 1 .. Len(wire) : i < Len(wire) + 1
      BY <2>3, Earlier, Zenon
    <3> QED
      BY <1>0, <3>1, Zenon
  <2> QED
    BY <2>3, <2>4, <2>5, Zenon
<1>3. ASSUME NEW d \in Callers PROVE Fed(d)
  <2>1. CASE buf'[d] = buf[d]
    BY <1>1, <2>1, Zenon DEF Fed
  <2>2. CASE d \in sender[t] /\ buf'[d] = Append(buf[d], n)
    <3>1. topicOf[d] = t
      BY <2>2, Zenon DEF Context, OrderInv, Places
    <3>2. Meant(d, n)'
      BY <1>1, <1>2, <3>1, Zenon DEF Meant, Remote
    <3>3. Before(Passed(d), {n})
      BY <1>2, Zenon DEF Before, Context, OrderInv, Channels, Meant
    <3> QED
      BY <1>1, <1>2, <2>2, <3>2, <3>3, Zenon DEF Fed
  <2> QED
    BY <1>1, <2>1, <2>2, Zenon
<1>4. Channels'
  BY <1>3, FedChannels DEF Context, OrderInv
<1> QED
  BY <1>1, <1>4, QuietBehind, Zenon DEF Context, Order

LEMMA TrampolineOrder == ASSUME Context, EventTrampoline PROVE Order'
<1>n. PICK n \in Nat : n = heard + 1
  BY DEF Context, OrderInv, Types
<1>t. PICK t : t = wire[n].topic
  OBVIOUS
<1>0. n \in 1 .. Len(wire)
  <2>1. heard < Len(wire)
    BY Zenon DEF EventTrampoline
  <2>2. heard \in Nat /\ Len(wire) \in Nat
    BY SizeLemma, Zenon DEF Context, OrderInv
  <2> QED
    BY <1>n, <2>1, <2>2
<1>1. /\ kind = "library" /\ kind' = kind /\ got' = got /\ topicOf' = topicOf /\ wire' = wire /\ heard' = n
      /\ \A d \in Callers : buf'[d] = buf[d] \/ (d \in sender[t] /\ buf'[d] = Append(buf[d], n))
  BY <1>n, <1>t, Zenon DEF EventTrampoline, TrySend, calls
<1>2. t \in Topics /\ wire[n].topic = t
  BY <1>0, <1>t, TopicLemma DEF Context, OrderInv
<1>5. \A i \in Nat : i <= heard => i < n
  BY <1>n DEF Context, OrderInv, Types
<1>3. ASSUME NEW d \in Callers PROVE Fed(d)
  <2>1. CASE buf'[d] = buf[d]
    BY <1>1, <2>1 DEF Fed
  <2>2. CASE d \in sender[t] /\ buf'[d] = Append(buf[d], n)
    <3>1. topicOf[d] = t
      BY <1>2, <2>2, SenderIs, Zenon DEF Context, OrderInv
    <3>2. Meant(d, n)'
      BY <1>0, <1>1, <1>2, <3>1 DEF Meant
    <3>3. Before(Passed(d), {n})
      BY <1>1, <1>5, EmptyLemma, Zenon DEF Before, Context, OrderInv, Channels, Meant, Remote
    <3> QED
      BY <1>1, <1>2, <2>2, <3>2, <3>3, Zenon DEF Fed
  <2> QED
    BY <1>1, <2>1, <2>2
<1>4. Channels'
  BY <1>3, FedChannels DEF Context, OrderInv
<1> QED
  BY <1>1, <1>4, QuietBehind, Zenon DEF Context, Order

LEMMA QueuesOrder == ASSUME Context, Queues PROVE Order'
<1> USE DEF Context, OrderInv
<1>1. PICK n \in Nat : n = heard + 1
  BY DEF Types
<1>2. /\ kind \in {"shim", "core"} /\ kind' = kind /\ heard' = n
      /\ events' = events \/ events' = Append(events, n)
      /\ UNCHANGED <<got, buf, back, seen, pollers, hand, topicOf, wire>>
  BY <1>1 DEF Queues, Emit, calls, receivers
<1>3. CASE events' = events
  BY <1>2, <1>3, CalmOrder
<1>4. CASE events' = Append(events, n)
  <2>1. \A c \in Callers : Fed(c) /\ Passed(c)' = Passed(c)
    BY <1>2, Zenon DEF Fed, Passed
  <2>2. Channels'
    BY <2>1, FedChannels
  <2>0. heard \in Nat /\ Len(wire) \in Nat
    BY SizeLemma, Zenon
  <2>3. \A i \in Nat : i <= heard => i < n /\ i <= heard'
    BY <1>1, <1>2, <2>0, NextPosition, Zenon
  <2>4. n \in 1 .. Len(wire')
    <3>1. heard < Len(wire) /\ wire' = wire
      BY Zenon DEF Queues, Emit
    <3> HIDE DEF Context, OrderInv
    <3> QED
      BY <1>1, <2>0, <3>1
  <2>5. Before(Range(events), {n})
    <3>1. Range(events) \subseteq Nat
      BY RangeLemma DEF Types
    <3> QED
      BY <2>3, <3>1 DEF Behind, Before
  <2>6. Range(events') = Range(events) \cup {n} /\ Increasing(events')
    <3>1. events \in Seq(Nat) /\ Increasing(events)
      BY Zenon DEF Types, Behind
    <3> QED
      BY <1>4, <2>5, <3>1, PushLemma
  <2>7. \A i \in Range(events') : i \in 1 .. Len(wire') /\ i <= heard'
    <3>1. Range(events) \subseteq Nat
      BY RangeLemma DEF Types
    <3> QED
      BY <1>2, <2>3, <2>4, <2>6, <3>1 DEF Behind
  <2>8. ASSUME NEW c \in Callers
        PROVE  /\ Increasing(back'[c]) /\ \A i \in Range(back'[c]) : Meant(c, i)'
               /\ Before(Passed(c)', Range(events'))
               /\ kind' = "core" => Before(Passed(c)', Range(back'[c])) /\ Before(Range(back'[c]), Range(events'))
    <3>1. \A i \in Range(back[c]) : Meant(c, i)'
      BY MeantKept, EmptyLemma DEF Behind
    <3>2. Before(Passed(c), {n}) /\ Before(Range(back[c]), {n})
      <4>1. kind \in Remote
        BY <1>2 DEF Remote
      <4>2. Passed(c) \subseteq Nat /\ Range(back[c]) \subseteq Nat
        BY EmptyLemma, Zenon
      <4>3. \A i \in Passed(c) \cup Range(back[c]) : i <= heard
        BY <4>1, Zenon DEF Channels, Behind, Meant
      <4> QED
        BY <2>3, <4>2, <4>3, Zenon DEF Before
    <3> QED
      BY <1>2, <2>1, <2>6, <3>1, <3>2, Zenon DEF Behind, Before
  <2>9. ASSUME NEW h \in hand'
        PROVE  Meant(h[2], h[1])' /\ Before(Passed(h[2])', {h[1]}) /\ Before({h[1]}, Range(events'))
    <3>1. h \in hand /\ h[2] \in Callers /\ h[1] \in Nat /\ call[h[2]] = "done"
      <4>1. h \in hand /\ hand \subseteq Nat \X Callers /\ call[h[2]] = "done"
        BY <1>2, Zenon DEF Places, Types
      <4> HIDE DEF Context, OrderInv
      <4> QED
        BY <4>1
    <3>2. Meant(h[2], h[1])
      BY <3>1, Zenon DEF Behind
    <3>3. Meant(h[2], h[1])'
      BY <3>1, <3>2, MeantKept
    <3>4. h[1] < n
      BY <1>2, <2>3, <3>1, <3>2, Zenon DEF Meant, Remote
    <3> QED
      BY <2>1, <2>6, <3>1, <3>3, <3>4, Zenon DEF Behind, Before
  <2>10. Behind'
    BY <2>6, <2>7, <2>8, <2>9, Zenon DEF Behind
  <2> QED
    BY <1>2, <2>2, <2>10 DEF Order, Polled
<1> QED
  BY <1>2, <1>3, <1>4

LEMMA PollEventOrder == ASSUME Context, PollEvent PROVE Order'
<1> USE DEF Context, OrderInv
<1>1. PICK n \in Nat : n = Head(events) /\ n \in Range(events)
  BY PopLemma, Zenon DEF Types, PollEvent
<1>2. PICK t : t = wire[n].topic
  OBVIOUS
<1>3. /\ kind = "shim" /\ kind' = kind /\ events' = Tail(events)
      /\ hand' = {<<n, c>> : c \in sender[t]}
      /\ UNCHANGED <<got, buf, back, seen, pollers, topicOf, wire, heard>>
  BY <1>1, <1>2, Zenon DEF PollEvent, calls, receivers
<1>4. /\ Range(events) = Range(events') \cup {n}
      /\ Increasing(events') /\ Before({n}, Range(events'))
  <2>1. events \in Seq(Nat) /\ events # <<>> /\ Increasing(events)
    BY Zenon DEF Types, Behind, PollEvent
  <2> QED
    BY <1>1, <1>3, <2>1, PopLemma, Zenon
<1>5. n \in 1 .. Len(wire) /\ n <= heard /\ t \in Topics
  BY <1>1, <1>2, TopicLemma DEF Behind
<1>6. \A c \in Callers : Fed(c) /\ Passed(c)' = Passed(c)
  BY <1>3, Zenon DEF Fed, Passed
<1>7. Channels'
  BY <1>6, FedChannels
<1>8. ASSUME NEW c \in Callers
      PROVE  /\ Increasing(back'[c]) /\ \A i \in Range(back'[c]) : Meant(c, i)'
             /\ Before(Passed(c)', Range(events'))
  <2>1. \A i \in Range(back[c]) : Meant(c, i)'
    BY MeantKept, EmptyLemma DEF Behind
  <2> QED
    BY <1>3, <1>4, <1>6, <2>1, Zenon DEF Behind, Before
<1>9. ASSUME NEW h \in hand'
      PROVE  Meant(h[2], h[1])' /\ Before(Passed(h[2])', {h[1]}) /\ Before({h[1]}, Range(events'))
  <2>1. PICK c \in sender[t] : h = <<n, c>>
    BY <1>3
  <2>2. c \in Callers /\ topicOf[c] = t
    <3>1. sender \in [Topics -> SUBSET Callers]
      BY Zenon DEF Types
    <3> QED
      BY <1>5, <2>1, <3>1, SenderIs, Zenon
  <2>3. Meant(c, n)'
    BY <1>2, <1>3, <1>5, <2>2, Zenon DEF Meant
  <2>4. Before(Passed(c)', {n})
    BY <1>1, <1>6, <2>2, Zenon DEF Behind, Before
  <2> QED
    BY <1>4, <2>1, <2>3, <2>4, Zenon
<1>10. Behind'
  BY <1>3, <1>4, <1>8, <1>9, Zenon DEF Behind
<1> QED
  BY <1>3, <1>7, <1>10, Zenon DEF Order, Polled

LEMMA DispatchOrder == ASSUME Context, DispatchEvent PROVE Order'
<1> USE DEF Context, OrderInv
<1>1. PICK h \in hand : TrySend({h[2]}, h[1])
  BY DEF DispatchEvent
<1>2. PICK c \in Callers, n \in Nat : h[2] = c /\ h[1] = n
  BY Zenon DEF Types
<1>3. /\ kind = "shim" /\ kind' = kind /\ hand' = {} /\ call[c] = "done"
      /\ UNCHANGED <<got, back, seen, pollers, topicOf, wire, heard, events>>
      /\ \A d \in Callers : buf'[d] = buf[d] \/ (d = c /\ buf'[d] = Append(buf[d], n))
  BY <1>1, <1>2, Zenon DEF DispatchEvent, TrySend, Places, calls
<1>4. Meant(c, n) /\ Before(Passed(c), {n}) /\ Before({n}, Range(events))
  BY <1>2, Zenon DEF Behind
<1>5. Meant(c, n)'
  BY <1>3, <1>4, MeantKept, Zenon
<1>6. \A d \in Callers : Fed(d)
  BY <1>3, <1>4, <1>5, Zenon DEF Fed
<1>7. Channels'
  BY <1>6, FedChannels
<1>8. ASSUME NEW d \in Callers
      PROVE  /\ Increasing(back'[d]) /\ \A i \in Range(back'[d]) : Meant(d, i)'
             /\ Before(Passed(d)', Range(events'))
  <2>1. \A i \in Range(back[d]) : Meant(d, i)'
    BY MeantKept, EmptyLemma DEF Behind
  <2>2. Passed(d)' = Passed(d) \/ (d = c /\ Passed(d)' = Passed(d) \cup {n})
    <3>1. buf[d] \in Seq(Nat)
      BY DEF Types
    <3>2. Range(Append(buf[d], n)) = Range(buf[d]) \cup {n}
      BY <3>1, PushLemma, Zenon
    <3> QED
      BY <1>3, <3>2, Zenon DEF Passed
  <2> QED
    BY <1>3, <1>4, <2>1, <2>2, Zenon DEF Behind, Before
<1>9. Behind'
  <2>1. Increasing(events') /\ \A i \in Range(events') : i \in 1 .. Len(wire') /\ i <= heard'
    BY <1>3, Zenon DEF Behind
  <2> QED
    BY <1>3, <1>8, <2>1, Zenon DEF Behind
<1> QED
  BY <1>3, <1>7, <1>9, Zenon DEF Order, Polled

LEMMA FanOutOrder == ASSUME Context, FanOut PROVE Order'
<1> USE DEF Context, OrderInv
<1>1. PICK n \in Nat : n = Head(events) /\ n \in Range(events)
  BY PopLemma, Zenon DEF Types, FanOut
<1>2. PICK t : t = wire[n].topic
  OBVIOUS
<1>3. /\ kind = "core" /\ kind' = kind /\ events' = Tail(events) /\ hand' = hand /\ hand = {}
      /\ \A d \in Callers : back'[d] = back[d] \/ (d \in sender[t] /\ back'[d] = Append(back[d], n))
      /\ UNCHANGED <<got, buf, seen, pollers, topicOf, wire, heard>>
  BY <1>1, <1>2, Zenon DEF FanOut, Places, calls
<1>4. /\ Range(events) = Range(events') \cup {n}
      /\ Increasing(events') /\ Before({n}, Range(events'))
  <2>1. events \in Seq(Nat) /\ events # <<>> /\ Increasing(events)
    BY Zenon DEF Types, Behind, FanOut
  <2> QED
    BY <1>1, <1>3, <2>1, PopLemma, Zenon
<1>5. n \in 1 .. Len(wire) /\ n <= heard /\ t \in Topics
  BY <1>1, <1>2, TopicLemma DEF Behind
<1>6. \A c \in Callers : Fed(c) /\ Passed(c)' = Passed(c)
  BY <1>3, Zenon DEF Fed, Passed
<1>7. Channels'
  BY <1>6, FedChannels
<1>8. ASSUME NEW c \in Callers
      PROVE  /\ Increasing(back'[c]) /\ \A i \in Range(back'[c]) : Meant(c, i)'
             /\ Before(Passed(c)', Range(events'))
             /\ Before(Passed(c)', Range(back'[c])) /\ Before(Range(back'[c]), Range(events'))
  <2>1. \A i \in Range(back[c]) : Meant(c, i)'
    BY MeantKept, EmptyLemma DEF Behind
  <2>2. /\ Increasing(back[c]) /\ Before(Passed(c), Range(events)) /\ Before(Passed(c), Range(back[c]))
        /\ Before(Range(back[c]), Range(events))
    BY <1>3, Zenon DEF Behind
  <2>3. CASE back'[c] = back[c]
    BY <1>4, <1>6, <2>1, <2>2, <2>3, Zenon DEF Before
  <2>4. CASE c \in sender[t] /\ back'[c] = Append(back[c], n)
    <3>1. topicOf[c] = t
      BY <1>5, <2>4, Zenon DEF Places
    <3>2. Meant(c, n)'
      BY <1>2, <1>3, <1>5, <3>1, Zenon DEF Meant
    <3>3. Before(Range(back[c]), {n}) /\ Before(Passed(c), {n})
      BY <1>1, <2>2 DEF Before
    <3>4. Range(back'[c]) = Range(back[c]) \cup {n} /\ Increasing(back'[c])
      <4>1. back[c] \in Seq(Nat)
        BY DEF Types
      <4> QED
        BY <2>2, <2>4, <3>3, <4>1, PushLemma
    <3>5. \A i \in Range(back'[c]) : Meant(c, i)'
      BY <2>1, <3>2, <3>4, Zenon
    <3> QED
      BY <1>4, <1>6, <2>2, <3>3, <3>4, <3>5, Zenon DEF Before
  <2> QED
    BY <1>3, <2>3, <2>4, Zenon
<1>9. \A i \in Range(events') : i \in 1 .. Len(wire') /\ i <= heard'
  BY <1>3, <1>4, Zenon DEF Behind
<1>10. Behind'
  BY <1>3, <1>4, <1>8, <1>9, Zenon DEF Behind
<1> QED
  BY <1>3, <1>7, <1>10, Zenon DEF Order, Polled

LEMMA ReceiveOrder == ASSUME Context, NEW c \in Callers, Receive(c) PROVE Order'
<1> USE DEF Context, OrderInv
<1>1. PICK n \in Nat : n = Head(buf[c]) /\ n \in Range(buf[c])
  BY PopLemma, Zenon DEF Types, Receive
<1>2. /\ buf'[c] = Tail(buf[c]) /\ got'[c] = Append(got[c], n)
      /\ \A d \in Callers \ {c} : buf'[d] = buf[d] /\ got'[d] = got[d]
      /\ UNCHANGED <<back, seen, pollers, events, hand>>
  BY <1>1, Zenon DEF Receive, Types
<1>3. /\ Increasing(got[c]) /\ Increasing(buf[c]) /\ Before(Range(got[c]), Range(buf[c]))
      /\ got[c] \in Seq(Nat) /\ buf[c] \in Seq(Nat) /\ buf[c] # <<>>
  BY Zenon DEF Channels, Types, Receive
<1>4. /\ Range(buf[c]) = Range(buf'[c]) \cup {n}
      /\ Increasing(buf'[c]) /\ Before({n}, Range(buf'[c]))
  BY <1>1, <1>2, <1>3, PopLemma, Zenon
<1>5. Range(got'[c]) = Range(got[c]) \cup {n} /\ Increasing(got'[c])
  <2>1. Before(Range(got[c]), {n})
    BY <1>1, <1>3, Zenon DEF Before
  <2> QED
    BY <1>2, <1>3, <2>1, PushLemma, Zenon
<1>6. Before(Range(got'[c]), Range(buf'[c]))
  BY <1>3, <1>4, <1>5, Zenon DEF Before
<1>7. \A d \in Callers : Passed(d)' = Passed(d)
  BY <1>2, <1>4, <1>5, Zenon DEF Passed
<1>8. \A d \in Callers : \A i \in Passed(d)' : Meant(d, i)'
  BY <1>7, MeantKept, EmptyLemma, Zenon DEF Channels
<1>9. Channels'
  BY <1>2, <1>4, <1>5, <1>6, <1>8, Zenon DEF Channels
<1> QED
  BY <1>2, <1>7, <1>9, CalmBehind, Zenon DEF Order

LEMMA DropOrder == ASSUME Context, NEW c \in Callers, DropReceiver(c) PROVE Order'
<1> USE DEF Context, OrderInv
<1>0. Range(<<>>) = {} /\ Increasing(<<>>)
  BY DEF Range, Increasing
<1>1. /\ buf'[c] = <<>> /\ got' = got /\ \A d \in Callers \ {c} : buf'[d] = buf[d]
      /\ UNCHANGED <<back, seen, pollers, events, hand>>
  BY Zenon DEF DropReceiver, Types
<1>2. \A d \in Callers : Passed(d)' \subseteq Passed(d)
  BY <1>0, <1>1, Zenon DEF Passed
<1>3. \A d \in Callers : \A i \in Passed(d)' : Meant(d, i)'
  BY <1>2, MeantKept, EmptyLemma, Zenon DEF Channels
<1>4. Channels'
  BY <1>0, <1>1, <1>3, Zenon DEF Channels, Before
<1> QED
  BY <1>1, <1>2, <1>4, CalmBehind, Zenon DEF Order

LEMMA ForwardOrder == ASSUME Context, NEW c \in Callers, Forward(c) PROVE Order'
<1> USE DEF Context, OrderInv
<1>1. PICK n \in Nat : n = Head(back[c]) /\ n \in Range(back[c])
  BY PopLemma, Zenon DEF Types, Forward
<1>2. /\ back'[c] = Tail(back[c]) /\ \A d \in Callers \ {c} : buf'[d] = buf[d] /\ back'[d] = back[d]
      /\ buf'[c] = buf[c] \/ buf'[c] = Append(buf[c], n)
      /\ UNCHANGED <<got, seen, pollers, events, hand, wire, heard, kind>> /\ kind = "core" /\ hand = {}
  <2>1. /\ kind = "core" /\ back' = [back EXCEPT ![c] = Tail(@)]
        /\ buf' = buf \/ buf' = [buf EXCEPT ![c] = Append(@, n)]
        /\ UNCHANGED <<got, seen, pollers, events, hand, wire, heard, kind>>
    BY <1>1, Zenon DEF Forward
  <2>2. buf \in [Callers -> Seq(Nat)] /\ back \in [Callers -> Seq(Nat)]
    BY Zenon DEF Types
  <2>3. hand = {}
    BY <2>1, Zenon DEF Places
  <2> QED
    BY <2>1, <2>2, <2>3
<1>3. /\ Increasing(back[c]) /\ back[c] \in Seq(Nat) /\ back[c] # <<>> /\ buf[c] \in Seq(Nat)
      /\ Before(Passed(c), Range(back[c])) /\ Before(Range(back[c]), Range(events))
      /\ Before(Passed(c), Range(events)) /\ \A i \in Range(back[c]) : Meant(c, i)
  BY <1>2, Zenon DEF Behind, Types, Forward
<1>4. /\ Range(back[c]) = Range(back'[c]) \cup {n}
      /\ Increasing(back'[c]) /\ Before({n}, Range(back'[c]))
  BY <1>1, <1>2, <1>3, PopLemma, Zenon
<1>5. \A i \in Range(back[c]) : Meant(c, i)'
  BY <1>3, MeantKept, EmptyLemma, Zenon
<1>6. Before(Passed(c), {n})
  BY <1>1, <1>3 DEF Before
<1>7. \A d \in Callers : Fed(d)
  BY <1>1, <1>2, <1>5, <1>6, Zenon DEF Fed
<1>8. Channels'
  BY <1>7, FedChannels
<1>9. Passed(c)' \subseteq Passed(c) \cup {n}
  <2>1. Range(Append(buf[c], n)) = Range(buf[c]) \cup {n}
    BY <1>3, PushLemma, Zenon
  <2> QED
    BY <1>2, <2>1, Zenon DEF Passed
<1>10. /\ Increasing(back'[c]) /\ \A i \in Range(back'[c]) : Meant(c, i)'
       /\ Before(Passed(c)', Range(events'))
       /\ Before(Passed(c)', Range(back'[c])) /\ Before(Range(back'[c]), Range(events'))
  BY <1>1, <1>2, <1>3, <1>4, <1>5, <1>9, Zenon DEF Before
<1>11. ASSUME NEW d \in Callers \ {c}
       PROVE  /\ Increasing(back'[d]) /\ \A i \in Range(back'[d]) : Meant(d, i)'
              /\ Before(Passed(d)', Range(events'))
              /\ Before(Passed(d)', Range(back'[d])) /\ Before(Range(back'[d]), Range(events'))
  <2>1. \A i \in Range(back[d]) : Meant(d, i)'
    BY MeantKept, EmptyLemma DEF Behind
  <2>2. Passed(d)' = Passed(d)
    BY <1>2, Zenon DEF Passed
  <2> QED
    BY <1>2, <2>1, <2>2, Zenon DEF Behind
<1>12. Increasing(events') /\ \A i \in Range(events') : i \in 1 .. Len(wire') /\ i <= heard'
  BY <1>2, Zenon DEF Behind
<1>13. Behind'
  BY <1>2, <1>10, <1>11, <1>12, Zenon DEF Behind
<1> QED
  BY <1>2, <1>8, <1>13, Zenon DEF Order, Polled

\* For REST there is nothing behind the channels but what the polls gave.
LEMMA RestBehind ==
    ASSUME Types', Places', kind' = "rest",
           \A c \in Callers : Increasing(back'[c]) /\ \A i \in Range(back'[c]) : Meant(c, i)'
    PROVE  Behind'
<1>1. Range(<<>>) = {} /\ Increasing(<<>>)
  BY EmptyFacts, Zenon
<1>2. events' = <<>> /\ hand' = {}
  BY Zenon DEF Places
<1> QED
  BY <1>1, <1>2, Zenon DEF Behind, Before

LEMMA PollRestOrder == ASSUME Context, NEW c \in Callers, PollRest(c) PROVE Order'
<1> USE DEF Context, OrderInv
<1>1. PICK s \in OfTopic(topicOf[c]) : back' = [back EXCEPT ![c] = s]
  BY Zenon DEF PollRest
<1>2. /\ back'[c] = s /\ \A d \in Callers \ {c} : back'[d] = back[d]
      /\ UNCHANGED <<got, buf, seen, pollers, topicOf, wire, kind>> /\ kind = "rest"
  <2>1. back \in [Callers -> Seq(Nat)] /\ kind = "rest"
    BY Zenon DEF PollRest, Types, Places
  <2>2. UNCHANGED <<got, buf, seen, pollers, topicOf, wire, kind>>
    BY Zenon DEF PollRest, calls
  <2> QED
    BY <1>1, <2>1, <2>2
<1>3. Increasing(s) /\ Range(s) = {i \in 1 .. Len(wire) : wire[i].topic = topicOf[c]}
  BY OfTopicLemma, Zenon DEF Types
<1>4. \A d \in Callers : Fed(d) /\ Passed(d)' = Passed(d)
  BY <1>2, Zenon DEF Fed, Passed
<1>5. Channels'
  BY <1>4, FedChannels
<1>6. \A d \in Callers : Increasing(back'[d]) /\ \A i \in Range(back'[d]) : Meant(d, i)'
  <2>1. ASSUME NEW d \in Callers \ {c} PROVE Increasing(back'[d]) /\ \A i \in Range(back'[d]) : Meant(d, i)'
    BY <1>2, MeantKept, EmptyLemma, Zenon DEF Behind
  <2>2. Increasing(back'[c]) /\ \A i \in Range(back'[c]) : Meant(c, i)'
    BY <1>2, <1>3, Zenon DEF Meant, Remote
  <2> QED
    BY <2>1, <2>2, Zenon
<1>7. Behind'
  BY <1>2, <1>6, RestBehind, Zenon
<1>8. Polled'
  BY <1>2, <1>3, <1>4, Zenon DEF Polled
<1> QED
  BY <1>5, <1>7, <1>8 DEF Order

LEMMA SendPolledOrder == ASSUME Context, NEW c \in Callers, SendPolled(c) PROVE Order'
<1> USE DEF Context, OrderInv
<1>1. PICK n \in Nat : n = Head(back[c]) /\ n \in Range(back[c])
  BY PopLemma, Zenon DEF Types, SendPolled
<1>2. /\ back'[c] = Tail(back[c])
      /\ \A d \in Callers \ {c} : buf'[d] = buf[d] /\ back'[d] = back[d] /\ seen'[d] = seen[d]
      /\ \/ wire[n].payload \in seen[c] /\ buf'[c] = buf[c] /\ seen'[c] = seen[c] /\ pollers' = pollers
         \/ wire[n].payload \notin seen[c] /\ buf'[c] = buf[c] /\ seen'[c] = seen[c] /\ pollers' = pollers \ {c}
         \/ /\ wire[n].payload \notin seen[c] /\ buf'[c] = Append(buf[c], n)
            /\ seen'[c] = seen[c] \cup {wire[n].payload} /\ pollers' = pollers
      /\ UNCHANGED <<got, topicOf, wire, kind>> /\ kind = "rest" /\ c \in pollers /\ back[c] # <<>>
  <2>1. c \in pollers /\ back[c] # <<>> /\ UNCHANGED <<got, topicOf, wire, kind>> /\ kind = "rest"
    BY Zenon DEF SendPolled, calls, Places
  <2>2. back' = [back EXCEPT ![c] = Tail(@)]
    BY DEF SendPolled
  <2>3. back'[c] = Tail(back[c]) /\ \A d \in Callers \ {c} : back'[d] = back[d]
    BY <2>2, Zenon DEF Types
  <2>4. CASE wire[n].payload \in seen[c] /\ UNCHANGED <<buf, seen, pollers>>
    BY <2>1, <2>3, <2>4, Zenon
  <2>5. CASE wire[n].payload \notin seen[c] /\ pollers' = pollers \ {c} /\ UNCHANGED <<buf, seen>>
    BY <2>1, <2>3, <2>5, Zenon
  <2>6. CASE /\ wire[n].payload \notin seen[c] /\ buf' = [buf EXCEPT ![c] = Append(@, n)]
             /\ seen' = [seen EXCEPT ![c] = @ \cup {wire[n].payload}] /\ UNCHANGED pollers
    <3>1. buf'[c] = Append(buf[c], n) /\ seen'[c] = seen[c] \cup {wire[n].payload}
      BY <2>6, Zenon DEF Types
    <3>2. \A d \in Callers \ {c} : buf'[d] = buf[d] /\ seen'[d] = seen[d]
      BY <2>6, Zenon DEF Types
    <3> QED
      BY <2>1, <2>3, <2>6, <3>1, <3>2, Zenon
  <2> QED
    BY <1>1, <2>4, <2>5, <2>6, Zenon DEF SendPolled, SeenBefore
<1>3. /\ Increasing(back[c]) /\ back[c] \in Seq(Nat) /\ buf[c] \in Seq(Nat)
      /\ \A i \in Range(back[c]) : Meant(c, i)
  BY Zenon DEF Behind, Types
<1>4. /\ Range(back[c]) = Range(back'[c]) \cup {n}
      /\ Increasing(back'[c]) /\ Before({n}, Range(back'[c]))
  BY <1>1, <1>2, <1>3, PopLemma, Zenon
<1>5. \A i \in Range(back[c]) : Meant(c, i)'
  BY <1>3, MeantKept, EmptyLemma, Zenon
<1>6. n \in 1 .. Len(wire) /\ wire[n].topic = topicOf[c]
  BY <1>1, <1>3, Zenon DEF Meant
<1>7. ASSUME wire[n].payload \notin seen[c] PROVE Before(Passed(c), {n})
  <2> SUFFICES ASSUME NEW j \in Passed(c) PROVE j < n
    BY DEF Before
  <2>1. ~(n <= j)
    BY <1>2, <1>6, <1>7, Zenon DEF Polled
  <2>2. j \in Nat
    BY EmptyLemma
  <2> QED
    BY <2>1, <2>2
<1>8. \A d \in Callers : Fed(d)
  BY <1>1, <1>2, <1>5, <1>7, Zenon DEF Fed
<1>9. Channels'
  BY <1>8, FedChannels
<1>10. \A d \in Callers : Increasing(back'[d]) /\ \A i \in Range(back'[d]) : Meant(d, i)'
  <2>1. ASSUME NEW d \in Callers \ {c} PROVE Increasing(back'[d]) /\ \A i \in Range(back'[d]) : Meant(d, i)'
    BY <1>2, MeantKept, EmptyLemma, Zenon DEF Behind
  <2>2. Increasing(back'[c]) /\ \A i \in Range(back'[c]) : Meant(c, i)'
    BY <1>4, <1>5, Zenon
  <2> QED
    BY <2>1, <2>2
<1>11. Behind'
  BY <1>2, <1>10, RestBehind, Zenon
<1>12. Passed(c)' \subseteq Passed(c) \cup (IF wire[n].payload \in seen[c] THEN {} ELSE {n})
  <2>1. Range(Append(buf[c], n)) = Range(buf[c]) \cup {n}
    BY <1>3, PushLemma, Zenon
  <2> QED
    BY <1>2, <2>1, Zenon DEF Passed
<1>13. ASSUME NEW i \in 1 .. Len(wire), wire[i].topic = topicOf[c], NEW j \in Passed(c)', i <= j
       PROVE  wire[i].payload \in seen'[c]
  <2>1. CASE j \in Passed(c)
    BY <1>2, <1>13, <2>1, Zenon DEF Polled
  <2>2. CASE j = n /\ j \notin Passed(c)
    <3>1. wire[n].payload \notin seen[c] /\ buf'[c] # buf[c]
      BY <1>2, <1>12, <1>13, <2>2, Zenon DEF Passed
    <3>2. seen'[c] = seen[c] \cup {wire[n].payload}
      BY <1>2, <3>1, Zenon
    <3>3. i \notin Range(back[c]) => wire[i].payload \in seen[c]
      BY <1>1, <1>2, <1>13, <2>2, Zenon DEF Polled
    <3>4. i \in Range(back[c]) => i = n
      <4>1. i \in Range(back'[c]) => n < i
        BY <1>4, Zenon DEF Before
      <4>2. ~(n < i)
        <5>1. i \in Nat
          BY SizeLemma, Earlier, Zenon
        <5>2. n \in Nat /\ i <= n
          BY <1>13, <2>2, Zenon
        <5> QED
          BY <5>1, <5>2, NotAfter, Zenon
      <4> QED
        BY <1>4, <4>1, <4>2, Zenon
    <3> QED
      BY <3>2, <3>3, <3>4, Zenon
  <2> QED
    BY <1>12, <1>13, <2>1, <2>2, Zenon
<1>14. ASSUME NEW i \in 1 .. Len(wire), wire[i].topic = topicOf[c], NEW j \in Range(back'[c]), c \in pollers', i <= j
       PROVE  i \in Range(back'[c]) \/ wire[i].payload \in seen'[c]
  <2>1. i \in Range(back[c]) \/ wire[i].payload \in seen[c]
    BY <1>2, <1>4, <1>14, Zenon DEF Polled
  <2>2. wire[n].payload \in seen'[c] /\ seen[c] \subseteq seen'[c]
    BY <1>2, <1>14, Zenon
  <2> QED
    BY <1>4, <2>1, <2>2, Zenon
<1>15. \A d \in Callers \ {c} : Passed(d)' = Passed(d) /\ (d \in pollers' => d \in pollers)
  BY <1>2, Zenon DEF Passed
<1>16. Polled'
  <2>1. ASSUME NEW d \in Callers, NEW i \in 1 .. Len(wire), wire[i].topic = topicOf[d]
        PROVE  /\ \A j \in Passed(d)' : i <= j => wire[i].payload \in seen'[d]
               /\ \A j \in Range(back'[d]) :
                      d \in pollers' /\ i <= j => i \in Range(back'[d]) \/ wire[i].payload \in seen'[d]
    <3>1. CASE d = c
      BY <1>13, <1>14, <2>1, <3>1, Zenon
    <3>2. CASE d # c
      BY <1>2, <1>15, <2>1, <3>2, Zenon DEF Polled
    <3> QED
      BY <3>1, <3>2, Zenon
  <2> QED
    BY <1>2, <2>1, Zenon DEF Polled
<1> QED
  BY <1>9, <1>11, <1>16 DEF Order

LEMMA OrderStep == OrderInv /\ [TransportNext]_transportVars => OrderInv' /\ Context /\ Step
<1> SUFFICES ASSUME OrderInv, [TransportNext]_transportVars PROVE OrderInv' /\ Context /\ Step
  OBVIOUS
<1>1. Step
  BY Steps DEF OrderInv, Types
<1>2. Context
  BY <1>1, TypesStep, PlacesStep, ExtendsStep DEF OrderInv, Context
<1>3. ASSUME SetsUp \/ UNCHANGED transportVars \/ Publishes PROVE Order'
  BY <1>2, <1>3, CalmOrder, Zenon DEF SetsUp, Still, Publishes, transportVars, receivers
<1>4. ASSUME TearsDown PROVE Order'
  BY <1>2, <1>4, CalmOrder DEF TearsDown, receivers
<1>5. ASSUME NEW c \in Callers, OfCall(c) PROVE Order'
  <2>1. CASE Asks(c) \/ Leaves(c)
    BY <1>2, <2>1, CalmOrder, Zenon DEF Asks, Leaves, Still
  <2>2. CASE Removes(c)
    BY <1>2, <2>2, CalmOrder, Zenon DEF Removes, Still
  <2>3. CASE Inserts(c)
    <3>1. call[c] # "done" /\ pollers' \subseteq pollers \cup {c}
      BY <2>3, Zenon DEF Inserts
    <3>2. back[c] = <<>>
      BY <3>1, Zenon DEF OrderInv, Places
    <3> QED
      BY <1>2, <2>3, <3>1, <3>2, CalmOrder, Zenon DEF Inserts, Still
  <2>4. CASE \E o \in {"subscribe", "unsubscribe"}, t \in Topics : Begin(c, o, t)
    BY <1>2, <2>4, CalmOrder, Zenon DEF Begin, receivers
  <2> QED
    BY <1>2, <1>5, <2>1, <2>2, <2>3, <2>4, JoinsOrder DEF OfCall
<1>6. ASSUME Moves PROVE Order'
  BY <1>2, <1>3, <1>6, PublishesMemoryOrder, TrampolineOrder, QueuesOrder, PollEventOrder, DispatchOrder,
     FanOutOrder, ReceiveOrder, DropOrder, ForwardOrder, PollRestOrder, SendPolledOrder DEF Moves
<1> QED
  BY <1>1, <1>2, <1>3, <1>4, <1>5, <1>6 DEF Step, Context, OrderInv, Order

LEMMA OrderStart == TransportInit => OrderInv
<1> SUFFICES ASSUME TransportInit PROVE OrderInv
  OBVIOUS
<1>1. Range(<<>>) = {} /\ Increasing(<<>>) /\ Len(<<>>) = 0 /\ <<>> \in Seq(Nat) /\ <<>> \in Seq(Message)
  BY EmptyFacts, Zenon
<1>2. Types
  <2>1. /\ kind \in Kinds /\ node \in Int /\ heard = 0 /\ op \in [Callers -> {"none", "subscribe", "unsubscribe"}]
        /\ call \in [Callers -> {"idle", "remote", "local", "spawn", "done", "error"}]
        /\ since \in [Callers -> Nat]
    BY DEF TransportInit, Kinds, Remote
  <2>2. heard \in Nat /\ heard <= Len(<<>>)
    BY <1>1, <2>1
  <2> QED
    BY <1>1, <2>1, <2>2, Zenon DEF TransportInit, Types
<1>3. Places
  BY DEF TransportInit, Places
<1>4. Channels /\ Behind
  BY <1>1, Zenon DEF TransportInit, Channels, Behind, Before, Passed
<1>5. Polled
  <2>1. wire = <<>>
    BY Zenon DEF TransportInit
  <2>2. 1 .. Len(wire) = {}
    BY <2>1
  <2> QED
    BY <2>2, Zenon DEF Polled
<1> QED
  BY <1>2, <1>3, <1>4, <1>5 DEF OrderInv

\* A step of a backend is a step of the promise, or none.
LEMMA PromiseStep ==
    OrderInv /\ [TransportNext]_transportVars => [Promise!Next]_(Promise!promised)
<1> SUFFICES ASSUME OrderInv, [TransportNext]_transportVars PROVE [Promise!Next]_(Promise!promised)
  OBVIOUS
<1>1. Step /\ Context
  BY OrderStep
<1>2. CASE UNCHANGED <<wire, topicOf, got>>
  BY <1>2 DEF Promise!promised
<1>3. CASE SetsUp \/ TearsDown \/ UNCHANGED transportVars
  BY <1>2, <1>3, Zenon DEF SetsUp, TearsDown, transportVars, Still, calls, receivers
<1>4. ASSUME NEW c \in Callers, Asks(c) \/ Leaves(c) \/ Inserts(c) \/ Joins(c) \/ Removes(c)
      PROVE [Promise!Next]_(Promise!promised)
  BY <1>2, <1>4, Zenon DEF Asks, Leaves, Inserts, Joins, Removes, Still
<1>5. ASSUME NEW c \in Callers, NEW o, NEW t \in Topics, Begin(c, o, t) PROVE Promise!Next
  <2>1. topicOf[c] = NoTopic
    BY <1>5, Zenon DEF Begin, OrderInv, Places
  <2>2. Promise!Subscribed(c)
    BY <1>5, <2>1, Zenon DEF Begin, receivers, Promise!Subscribed
  <2> QED
    BY <2>2 DEF Promise!Next
<1>6. ASSUME NEW m \in Message, wire' = Append(wire, m), UNCHANGED <<topicOf, got>> PROVE Promise!Next
  <2>1. Len(wire') = Len(wire) + 1 /\ SubSeq(wire', 1, Len(wire)) = wire
    <3>1. wire \in Seq(Message)
      BY DEF OrderInv, Types
    <3> QED
      BY <1>6, <3>1
  <2>2. Promise!Published
    BY <1>6, <2>1 DEF Promise!Published
  <2> QED
    BY <2>2 DEF Promise!Next
<1>7. CASE Publishes
  BY <1>6, <1>7 DEF Publishes, calls, receivers
<1>8. ASSUME NEW t \in Topics, PublishesMemory(t) PROVE Promise!Next
  <2>1. PICK q \in Payloads : wire' = Append(wire, [topic |-> t, payload |-> q])
    BY <1>8 DEF PublishesMemory
  <2>2. [topic |-> t, payload |-> q] \in Message
    BY DEF Message
  <2> QED
    BY <1>6, <1>8, <2>1, <2>2 DEF PublishesMemory, calls
<1>9. ASSUME NEW c \in Callers, Receive(c) PROVE Promise!Next
  <2>1. PICK n \in Nat : n = Head(buf[c]) /\ n \in Range(buf[c])
    BY <1>9, PopLemma, Zenon DEF OrderInv, Types, Receive
  <2>2. n \in 1 .. Len(wire) /\ wire[n].topic = topicOf[c]
    BY <2>1, Zenon DEF OrderInv, Channels, Passed, Meant
  <2>3. \A j \in 1 .. Len(got[c]) : got[c][j] < n
    <3>1. got[c] \in Seq(Nat) /\ Before(Range(got[c]), Range(buf[c]))
      BY DEF OrderInv, Channels, Types
    <3>2. \A j \in 1 .. Len(got[c]) : got[c][j] \in Range(got[c])
      BY <3>1, InRange, Zenon
    <3> QED
      BY <2>1, <3>1, <3>2, Zenon DEF Before
  <2>4. Promise!Received(c)
    BY <1>9, <2>1, <2>2, <2>3, Zenon DEF Receive, calls, Promise!Received
  <2> QED
    BY <2>4 DEF Promise!Next
<1>10. CASE EventTrampoline \/ Queues \/ PollEvent \/ DispatchEvent \/ FanOut
  BY <1>2, <1>10, Zenon DEF EventTrampoline, Queues, Emit, PollEvent, DispatchEvent, FanOut, calls, receivers
<1>11. ASSUME NEW c \in Callers, DropReceiver(c) \/ Forward(c) \/ PollRest(c) \/ SendPolled(c)
       PROVE [Promise!Next]_(Promise!promised)
  BY <1>2, <1>11, Zenon DEF DropReceiver, Forward, PollRest, SendPolled, calls
<1> QED
  BY <1>1, <1>3, <1>4, <1>5, <1>7, <1>8, <1>9, <1>10, <1>11 DEF Step, OfCall, Moves

\* Every backend implements the promise of the Transport trait.
THEOREM BackendsRefinePromise == TransportSpec => Promise!Spec
<1>1. TransportInit => Promise!Init
  BY DEF TransportInit, Promise!Init
<1>2. OrderInv /\ [TransportNext]_transportVars => OrderInv'
  BY OrderStep
<1> QED
  BY <1>1, <1>2, OrderStart, PromiseStep, PTL DEF TransportSpec, Promise!Spec

-------------------------------------------------------------------------------
Calling(c, t) == topicOf[c] = t /\ InCall(c)

\* An unsubscribe of the library is through with the network and has still to drop the sender.
Leaving(t) == kind = "library" /\ \E d \in Callers : Calling(d, t) /\ op[d] = "unsubscribe" /\ call[d] = "local"

\* A subscription that nobody has ended yet, though somebody may be about to.
Held(c) ==
    /\ Running /\ op[c] = "subscribe" /\ call[c] = "done" /\ c \notin dropped
    /\ c \in sender[topicOf[c]] /\ c \notin lost /\ topicOf[c] \notin raced
    /\ ~Leaving(topicOf[c])

\* Calls for a topic that never overlapped.
Orderly ==
    \A t \in Topics \ raced :
        /\ \A c, d \in Callers : Calling(c, t) /\ Calling(d, t) => c = d
        /\ \A c \in Callers : Calling(c, t) /\ kind \in Remote =>
               /\ op[c] = "subscribe" /\ call[c] = "local" => t \in netSub
               /\ op[c] = "unsubscribe" /\ call[c] = "remote" /\ kind # "library" => sender[t] = {}

One(S) == \A x, y \in S : x = y

Subscribed ==
    /\ kind # "memory" => \A t \in Topics : One(sender[t])
    /\ One(hand)
    /\ \A c \in Callers \ dropped : \A p \in seen[c] : \E j \in Passed(c) : wire[j].payload = p
    /\ \A c \in Callers : Held(c) /\ kind \in Remote => topicOf[c] \in netSub

\* What is on the way to this receiver: of the events in hand, its own.
Coming(c) == Passed(c) \cup Range(back[c]) \cup Range(events) \cup {h[1] : h \in {g \in hand : g[2] = c}}

Arrives(c, i) ==
    \/ i \in Coming(c)
    \/ kind \in Remote /\ i > heard
    \/ kind = "rest" /\ wire[i].payload \notin seen[c]
    \/ kind = "rest" /\ \E j \in Passed(c) : wire[j].payload = wire[i].payload

Kept ==
    \A c \in Callers : Held(c) =>
        \A i \in since[c] + 1 .. Len(wire) : wire[i].topic = topicOf[c] => Arrives(c, i)

StandInv == Orderly /\ Subscribed /\ Kept

-------------------------------------------------------------------------------
(* Standing subscriptions *)

LEMMA OrderlyStep == ASSUME OrderInv, Context, Step, Orderly PROVE Orderly'
<1> USE DEF Context, OrderInv
<1>1. ASSUME UNCHANGED <<kind, op, call, topicOf, netSub, raced>>,
             \A t \in Topics : sender'[t] \subseteq sender[t]
      PROVE Orderly'
  <2>1. \A c \in Callers, t \in Topics : Calling(c, t)' <=> Calling(c, t)
    BY <1>1, Zenon DEF Calling, InCall
  <2>2. \A t \in Topics : sender[t] = {} => sender'[t] = {}
    BY <1>1, Zenon
  <2>3. \A t \in Topics \ raced' : t \in Topics \ raced
    BY <1>1, Zenon
  <2> QED
    BY <1>1, <2>1, <2>2, <2>3, Zenon DEF Orderly
<1>2. CASE SetsUp \/ UNCHANGED transportVars
  BY <1>1, <1>2, Zenon DEF SetsUp, Still, transportVars, calls
<1>3. CASE TearsDown
  <2>1. \A t \in Topics : sender'[t] \subseteq sender[t]
    BY <1>3 DEF TearsDown
  <2> QED
    BY <1>1, <1>3, <2>1, Zenon DEF TearsDown, calls
<1>4. CASE Moves
  BY <1>1, <1>4, MovesDisturb, Zenon DEF Disturbs
<1>5. ASSUME NEW c \in Callers, OfCall(c) PROVE Orderly'
  <2>1. ASSUME NEW x, Goes(c, x), UNCHANGED <<kind, op, topicOf, raced>>, call[c] \notin {"idle", "done", "error"},
               \A t \in Topics \ raced : Calling(c, t) =>
                   \A d \in Callers \ {c} : ~Calling(d, t),
               \A t \in Topics : t # topicOf[c] =>
                   (t \in netSub => t \in netSub') /\ sender'[t] = sender[t],
               kind \in Remote =>
                   /\ op[c] = "subscribe" /\ x = "local" => topicOf[c] \in netSub'
                   /\ op[c] = "unsubscribe" /\ x = "remote" /\ kind # "library" => sender'[topicOf[c]] = {}
        PROVE Orderly'
    <3>1. call'[c] = x /\ \A d \in Callers \ {c} : call'[d] = call[d]
      <4>1. call = [d \in Callers |-> call[d]] /\ call' = [call EXCEPT ![c] = x]
        <5>1. call = [d \in Callers |-> call[d]]
          BY Zenon DEF Types
        <5>2. call' = [call EXCEPT ![c] = x]
          BY <2>1, Zenon DEF Goes
        <5> QED
          BY <5>1, <5>2, Zenon
      <4> QED
        BY <4>1, ChangedAt, Zenon
    <3> SUFFICES ASSUME NEW t \in Topics \ raced'
                 PROVE  /\ \A d, e \in Callers : Calling(d, t)' /\ Calling(e, t)' => d = e
                        /\ \A d \in Callers : Calling(d, t)' /\ kind' \in Remote =>
                               /\ op'[d] = "subscribe" /\ call'[d] = "local" => t \in netSub'
                               /\ op'[d] = "unsubscribe" /\ call'[d] = "remote" /\ kind' # "library" => sender'[t] = {}
      BY Zenon DEF Orderly
    <3>2. \A d \in Callers : Calling(d, t)' => Calling(d, t)
      BY <2>1, <3>1, Zenon DEF Calling, InCall
    <3>3. t \in Topics \ raced
      BY <2>1, Zenon
    <3>4. \A d, e \in Callers : Calling(d, t)' /\ Calling(e, t)' => d = e
      BY <3>2, <3>3, Zenon DEF Orderly
    <3>5. ASSUME NEW d \in Callers, Calling(d, t)', kind' \in Remote
          PROVE  /\ op'[d] = "subscribe" /\ call'[d] = "local" => t \in netSub'
                 /\ op'[d] = "unsubscribe" /\ call'[d] = "remote" /\ kind' # "library" => sender'[t] = {}
      <4>1. CASE d = c
        <5>1. topicOf[c] = t
          BY <2>1, <3>5, <4>1, Zenon DEF Calling
        <5> QED
          BY <2>1, <3>1, <3>5, <4>1, <5>1, Zenon
      <4>2. CASE d # c
        <5>1. Calling(d, t) /\ call'[d] = call[d]
          BY <3>1, <3>2, <3>5, <4>2
        <5>2. topicOf[c] # t
          <6> SUFFICES ASSUME topicOf[c] = t PROVE FALSE
            OBVIOUS
          <6>1. Calling(c, t)
            BY <2>1, Zenon DEF Calling, InCall
          <6> QED
            BY <2>1, <3>3, <4>2, <5>1, <6>1, Zenon
        <5> QED
          BY <2>1, <3>3, <3>5, <5>1, <5>2, Zenon DEF Orderly
      <4> QED
        BY <4>1, <4>2
    <3> QED
      BY <3>4, <3>5, Zenon
  <2>2. \A t \in Topics \ raced : Calling(c, t) => \A d \in Callers \ {c} : ~Calling(d, t)
    BY Zenon DEF Orderly
  <2>3. call[c] # "idle" => topicOf[c] \in Topics
    BY TopicOfCall, Zenon
  <2>4. CASE Asks(c)
    BY <2>1, <2>2, <2>4, Zenon DEF Asks, Still
  <2>5. CASE Leaves(c)
    BY <2>1, <2>2, <2>5, Zenon DEF Leaves, Still
  <2>6. CASE Inserts(c)
    <3>1. \A t \in Topics : t # topicOf[c] => sender'[t] = sender[t]
      BY <2>6, Zenon DEF Inserts, Types
    <3> QED
      BY <2>1, <2>2, <2>6, <3>1, Zenon DEF Inserts, Still
  <2>7. CASE Joins(c)
    <3>1. \A t \in Topics : t # topicOf[c] => sender'[t] = sender[t]
      BY <2>7, Zenon DEF Joins, Types
    <3> QED
      BY <2>1, <2>2, <2>7, <3>1, Zenon DEF Joins, Still
  <2>8. CASE Removes(c)
    <3>1. \A t \in Topics : t # topicOf[c] => sender'[t] = sender[t]
      BY <2>8, Zenon DEF Removes, Types
    <3>2. sender'[topicOf[c]] = {}
      BY <2>3, <2>8, Zenon DEF Removes, Types
    <3> QED
      BY <2>1, <2>2, <2>8, <3>1, <3>2, Zenon DEF Removes, Still
  <2>9. ASSUME NEW o \in {"subscribe", "unsubscribe"}, NEW t \in Topics, Begin(c, o, t) PROVE Orderly'
    <3>1. /\ UNCHANGED <<kind, netSub, sender>> /\ call[c] = "idle"
          /\ op'[c] = o /\ topicOf'[c] = t /\ call'[c] = FirstStep(o)
          /\ \A d \in Callers \ {c} : op'[d] = op[d] /\ topicOf'[d] = topicOf[d] /\ call'[d] = call[d]
          /\ raced \subseteq raced' /\ (t \notin raced' => \A d \in Callers : ~(InCall(d) /\ topicOf[d] = t))
      <4>1. op = [d \in Callers |-> op[d]] /\ topicOf = [d \in Callers |-> topicOf[d]] /\ call = [d \in Callers |-> call[d]]
        BY Zenon DEF Types
      <4>2. /\ op' = [op EXCEPT ![c] = o] /\ topicOf' = [topicOf EXCEPT ![c] = t]
            /\ call' = [call EXCEPT ![c] = FirstStep(o)]
            /\ UNCHANGED <<kind, netSub, sender>> /\ call[c] = "idle"
            /\ raced' = IF \E d \in Callers : InCall(d) /\ topicOf[d] = t THEN raced \cup {t} ELSE raced
        BY <2>9, Zenon DEF Begin
      <4>3. /\ op'[c] = o /\ topicOf'[c] = t /\ call'[c] = FirstStep(o)
            /\ \A d \in Callers \ {c} : op'[d] = op[d] /\ topicOf'[d] = topicOf[d] /\ call'[d] = call[d]
        BY <4>1, <4>2, ChangedAt, Zenon
      <4>4. raced \subseteq raced' /\ (t \notin raced' => \A d \in Callers : ~(InCall(d) /\ topicOf[d] = t))
        BY <4>2, Zenon
      <4> QED
        BY <4>2, <4>3, <4>4, Zenon
    <3>2. kind \in Remote => ~(o = "subscribe" /\ FirstStep(o) = "local") /\ ~(o = "unsubscribe" /\ FirstStep(o) = "remote" /\ kind # "library")
      BY DEF FirstStep
    <3>3. \A u \in Topics, d \in Callers \ {c} : Calling(d, u)' = Calling(d, u)
      BY <3>1 DEF Calling, InCall
    <3>4. \A u \in Topics : Calling(c, u)' => u = t
      BY <3>1, Zenon DEF Calling
    <3>5. ASSUME NEW u \in Topics \ raced'
          PROVE  /\ \A d, e \in Callers : Calling(d, u)' /\ Calling(e, u)' => d = e
                 /\ \A d \in Callers : Calling(d, u)' /\ kind' \in Remote =>
                        /\ op'[d] = "subscribe" /\ call'[d] = "local" => u \in netSub'
                        /\ op'[d] = "unsubscribe" /\ call'[d] = "remote" /\ kind' # "library" => sender'[u] = {}
      <4>1. u \in Topics \ raced
        BY <3>1
      <4>2. ASSUME NEW d \in Callers, NEW e \in Callers, Calling(d, u)', Calling(e, u)' PROVE d = e
        <5>1. u = t => \A g \in Callers : ~Calling(g, u)
          BY <3>1 DEF Calling
        <5> QED
          BY <3>3, <3>4, <4>1, <4>2, <5>1, Zenon DEF Orderly
      <4>3. ASSUME NEW d \in Callers, Calling(d, u)', kind' \in Remote
            PROVE  /\ op'[d] = "subscribe" /\ call'[d] = "local" => u \in netSub'
                   /\ op'[d] = "unsubscribe" /\ call'[d] = "remote" /\ kind' # "library" => sender'[u] = {}
        <5>1. CASE d = c
          BY <3>1, <3>2, <4>3, <5>1, Zenon
        <5>2. CASE d # c
          <6>1. Calling(d, u)
            BY <3>3, <4>3, <5>2
          <6>2. op'[d] = op[d] /\ call'[d] = call[d] /\ UNCHANGED <<kind, netSub, sender>>
            BY <3>1, <5>2, Zenon
          <6>3. /\ op[d] = "subscribe" /\ call[d] = "local" => u \in netSub
                /\ op[d] = "unsubscribe" /\ call[d] = "remote" /\ kind # "library" => sender[u] = {}
            BY <4>1, <4>3, <6>1, <6>2, Zenon DEF Orderly
          <6> QED
            BY <6>2, <6>3, Zenon
        <5> QED
          BY <5>1, <5>2
      <4> QED
        BY <4>2, <4>3, Zenon
    <3> QED
      BY <3>5, Zenon DEF Orderly
  <2> QED
    BY <1>5, <2>4, <2>5, <2>6, <2>7, <2>8, <2>9 DEF OfCall
<1> QED
  BY <1>2, <1>3, <1>4, <1>5 DEF Step

\* A subscription comes to be held only when its own subscribe returns, and then its since is now.
LEMMA HeldBefore ==
    ASSUME OrderInv, Context, Step, NEW c \in Callers, Held(c)'
    PROVE  Inserts(c) \/ Joins(c) \/ (Held(c) /\ since'[c] = since[c])
<1> USE DEF Context, OrderInv
<1>0. /\ node' = SetupSteps /\ op'[c] = "subscribe" /\ call'[c] = "done" /\ c \notin dropped'
      /\ c \in sender'[topicOf'[c]] /\ c \notin lost' /\ topicOf'[c] \notin raced' /\ ~Leaving(topicOf[c])'
  BY Zenon DEF Held, Running
<1>1. ASSUME UNCHANGED <<kind, node, op, call, topicOf>>, raced \subseteq raced',
             dropped \subseteq dropped', lost \subseteq lost', since'[c] = since[c],
             \A t \in Topics : sender'[t] \subseteq sender[t]
      PROVE  Held(c) /\ since'[c] = since[c]
  <2>1. topicOf[c] \in Topics
    <3>1. call[c] # "idle"
      BY <1>0, <1>1
    <3> QED
      BY <3>1, TopicOfCall, Zenon
  <2>2. Leaving(topicOf[c]) => Leaving(topicOf[c])'
    BY <1>1 DEF Leaving, Calling, InCall
  <2> QED
    BY <1>0, <1>1, <2>1, <2>2, Zenon DEF Held, Running
<1>2. CASE SetsUp
  <2>1. node \in 0 .. SetupSteps - 1 /\ call' = call
    BY <1>2, Zenon DEF SetsUp
  <2>2. node < SetupSteps
    BY <2>1 DEF SetupSteps
  <2>3. call[c] = "idle"
    BY <2>2, Zenon DEF Places
  <2> QED
    BY <1>0, <2>1, <2>3, Zenon
<1>3. CASE TearsDown
  <2>1. node' = Gone
    BY <1>3, Zenon DEF TearsDown
  <2>2. Gone # SetupSteps
    BY DEF SetupSteps, Gone
  <2> QED
    BY <1>0, <2>1, <2>2, Zenon
<1>4. CASE UNCHANGED transportVars
  BY <1>1, <1>4, Zenon DEF transportVars, calls, receivers
<1>5. CASE Moves
  <2>1. Disturbs
    BY <1>5, MovesDisturb
  <2>2. dropped \subseteq dropped' /\ lost \subseteq lost'
    <3>1. CASE Publishes \/ Queues \/ PollEvent \/ FanOut
      BY <3>1, Zenon DEF Publishes, Queues, Emit, PollEvent, FanOut, receivers
    <3>2. CASE EventTrampoline \/ DispatchEvent
      BY <3>2, Zenon DEF EventTrampoline, DispatchEvent, TrySend
    <3>3. ASSUME NEW t \in Topics, PublishesMemory(t) PROVE dropped \subseteq dropped' /\ lost \subseteq lost'
      BY <3>3 DEF PublishesMemory, TrySend
    <3>4. ASSUME NEW d \in Callers, Receive(d) \/ DropReceiver(d) \/ Forward(d) \/ PollRest(d) \/ SendPolled(d)
          PROVE dropped \subseteq dropped' /\ lost \subseteq lost'
      BY <3>4, Zenon DEF Receive, DropReceiver, Forward, PollRest, SendPolled
    <3> QED
      BY <1>5, <3>1, <3>2, <3>3, <3>4 DEF Moves
  <2> QED
    BY <1>1, <2>1, <2>2, Zenon DEF Disturbs
<1>6. ASSUME NEW d \in Callers, OfCall(d), ~(Inserts(c) \/ Joins(c)) PROVE Held(c) /\ since'[c] = since[c]
  <2>0. call[d] # "idle" => topicOf[d] \in Topics
    BY TopicOfCall, Zenon
  <2>1. ASSUME NEW x, Goes(d, x), UNCHANGED <<kind, node, op, topicOf, raced>>, d # c,
               dropped' = dropped, lost \subseteq lost', since'[c] = since[c],
               topicOf[c] \in Topics => (c \in sender'[topicOf[c]] => c \in sender[topicOf[c]]),
               kind = "library" /\ op[d] = "unsubscribe" /\ call[d] = "local" =>
                   (topicOf[d] \in Topics => sender'[topicOf[d]] = {})
        PROVE  Held(c) /\ since'[c] = since[c]
    <3>1. call'[d] = x /\ \A e \in Callers \ {d} : call'[e] = call[e]
      <4>1. call = [e \in Callers |-> call[e]]
        BY Zenon DEF Types
      <4>2. call' = [call EXCEPT ![d] = x]
        BY <2>1, Zenon DEF Goes
      <4> QED
        BY <4>1, <4>2, ChangedAt, Zenon
    <3>2. topicOf[c] \in Topics
      <4>1. call[c] # "idle"
        BY <1>0, <2>1, <3>1, Zenon
      <4> QED
        BY <4>1, TopicOfCall, Zenon
    <3>3. ~Leaving(topicOf[c])
      <4> SUFFICES ASSUME Leaving(topicOf[c]) PROVE FALSE
        OBVIOUS
      <4>1. PICK e \in Callers : Calling(e, topicOf[c]) /\ op[e] = "unsubscribe" /\ call[e] = "local"
        BY DEF Leaving
      <4>2. kind = "library"
        BY DEF Leaving
      <4>3. CASE e = d
        <5>1. topicOf[d] = topicOf[c]
          BY <4>1, <4>3 DEF Calling
        <5> QED
          BY <1>0, <2>1, <3>2, <4>1, <4>2, <4>3, <5>1, Zenon
      <4>4. CASE e # d
        <5>1. Calling(e, topicOf[c])' /\ op'[e] = "unsubscribe" /\ call'[e] = "local"
          BY <2>1, <3>1, <4>1, <4>4, Zenon DEF Calling, InCall
        <5> QED
          BY <1>0, <2>1, <4>2, <5>1, Zenon DEF Leaving
      <4> QED
        BY <4>3, <4>4
    <3> QED
      BY <1>0, <2>1, <3>1, <3>2, <3>3, Zenon DEF Held, Running
  <2>2. ASSUME d = c, ~(Inserts(c) \/ Joins(c)) PROVE FALSE
    <3>1. CASE Asks(c) \/ Leaves(c) \/ Removes(c)
      <4>1. op'[c] = op[c] /\ op[c] = "subscribe" => call'[c] # "done"
        BY <3>1, Zenon DEF Asks, Leaves, Removes, Goes, Types
      <4>2. op'[c] = op[c]
        BY <3>1, Zenon DEF Asks, Leaves, Removes
      <4> QED
        BY <1>0, <4>1, <4>2, Zenon
    <3>2. CASE \E o \in {"subscribe", "unsubscribe"}, t \in Topics : Begin(c, o, t)
      <4>1. call'[c] \in {"remote", "local"}
        <5>1. PICK o : call' = [call EXCEPT ![c] = FirstStep(o)]
          BY <3>2, Zenon DEF Begin
        <5>2. call'[c] = FirstStep(o)
          BY <5>1, Zenon DEF Types
        <5> QED
          BY <5>2 DEF FirstStep
      <4> QED
        BY <1>0, <4>1
    <3> QED
      BY <1>6, <2>2, <3>1, <3>2 DEF OfCall
  <2>3. d # c
    BY <1>6, <2>2
  <2>4. CASE Asks(d) \/ Leaves(d)
    BY <2>1, <2>3, <2>4, Zenon DEF Asks, Leaves, Still
  <2>5. CASE Removes(d)
    <3>1. \A t \in Topics : sender'[t] \subseteq sender[t]
      BY <2>5, Zenon DEF Removes, Types
    <3>2. sender'[topicOf[d]] = {}
      BY <2>0, <2>5, Zenon DEF Removes, Types
    <3> QED
      BY <2>1, <2>3, <2>5, <3>1, <3>2, Zenon DEF Removes, Still
  <2>6. CASE Inserts(d)
    <3>1. \A t \in Topics : sender'[t] \subseteq sender[t] \cup {d}
      BY <2>6, Zenon DEF Inserts, Types
    <3>2. since'[c] = since[c]
      BY <2>3, <2>6, Zenon DEF Inserts, Types
    <3> QED
      BY <2>1, <2>3, <2>6, <3>1, <3>2, Zenon DEF Inserts, Still
  <2>7. CASE Joins(d)
    <3>1. \A t \in Topics : sender'[t] \subseteq sender[t] \cup {d}
      <4>1. sender = [t \in Topics |-> sender[t]]
        BY Zenon DEF Types
      <4>2. call[d] # "idle" /\ sender' = [sender EXCEPT ![topicOf[d]] = sender[topicOf[d]] \cup {d}]
        BY <2>7, Zenon DEF Joins
      <4>3. topicOf[d] \in Topics
        BY <4>2, TopicOfCall, Zenon
      <4>4. /\ sender'[topicOf[d]] = sender[topicOf[d]] \cup {d}
            /\ \A t \in Topics \ {topicOf[d]} : sender'[t] = sender[t]
        BY <4>1, <4>2, <4>3, ChangedAt, Zenon
      <4> QED
        BY <4>4, Zenon
    <3>2. since'[c] = since[c] /\ lost \subseteq lost'
      BY <2>3, <2>7, Zenon DEF Joins, Types
    <3> QED
      BY <2>1, <2>3, <2>7, <3>1, <3>2, Zenon DEF Joins, Still
  <2>8. ASSUME NEW o \in {"subscribe", "unsubscribe"}, NEW t \in Topics, Begin(d, o, t)
        PROVE  Held(c) /\ since'[c] = since[c]
    <3>1. /\ UNCHANGED <<kind, node, sender, dropped, lost, since>> /\ call[d] = "idle" /\ raced \subseteq raced'
          /\ \A e \in Callers \ {d} : op'[e] = op[e] /\ topicOf'[e] = topicOf[e] /\ call'[e] = call[e]
      <4>1. /\ UNCHANGED <<kind, node, sender, dropped, lost, since>> /\ call[d] = "idle" /\ raced \subseteq raced'
            /\ op' = [op EXCEPT ![d] = o] /\ topicOf' = [topicOf EXCEPT ![d] = t]
            /\ call' = [call EXCEPT ![d] = FirstStep(o)]
        BY <2>8, Zenon DEF Begin, receivers
      <4>2. DOMAIN op = Callers /\ DOMAIN topicOf = Callers /\ DOMAIN call = Callers
        BY Zenon DEF Types
      <4> QED
        BY <4>1, <4>2, Zenon
    <3>2. Leaving(topicOf[c]) => Leaving(topicOf[c])'
      BY <2>3, <3>1, Zenon DEF Leaving, Calling, InCall
    <3> QED
      BY <1>0, <2>3, <3>1, <3>2, Zenon DEF Held, Running
  <2> QED
    BY <1>6, <2>4, <2>5, <2>6, <2>7, <2>8, Zenon DEF OfCall
<1> QED
  BY <1>2, <1>3, <1>4, <1>5, <1>6, Zenon DEF Step

\* What went into the channel of a receiver stays with it, unless the receiver is dropped.
LEMMA PassedGrows ==
    ASSUME OrderInv, Context, Step, NEW c \in Callers
    PROVE  c \in dropped' \/ Passed(c) \subseteq Passed(c)'
<1> USE DEF Context, OrderInv
<1>0. buf[c] \in Seq(Nat) /\ got[c] \in Seq(Nat) /\ \A n \in Nat : Range(Append(buf[c], n)) = Range(buf[c]) \cup {n}
  BY PushLemma, Zenon DEF Types
<1>1. ASSUME got'[c] = got[c], buf'[c] = buf[c] PROVE Passed(c) \subseteq Passed(c)'
  BY <1>1 DEF Passed
<1>2. ASSUME got'[c] = got[c], NEW n \in Nat, buf'[c] = Append(buf[c], n) PROVE Passed(c) \subseteq Passed(c)'
  BY <1>0, <1>2, Zenon DEF Passed
<1>3. CASE SetsUp \/ TearsDown \/ UNCHANGED transportVars
  BY <1>1, <1>3, Zenon DEF SetsUp, TearsDown, transportVars, Still, calls, receivers
<1>4. ASSUME NEW d \in Callers, Asks(d) \/ Leaves(d) \/ Inserts(d) \/ Removes(d)
      PROVE  Passed(c) \subseteq Passed(c)'
  BY <1>1, <1>4, Zenon DEF Asks, Leaves, Inserts, Removes, Still
<1>5. ASSUME NEW d \in Callers, Joins(d) PROVE Passed(c) \subseteq Passed(c)'
  <2>1. CASE d = c
    BY <1>5, <2>1, EmptyLemma, Zenon DEF Joins
  <2>2. CASE d # c
    <3>1. got'[c] = got[c] /\ buf'[c] = buf[c]
      BY <1>5, <2>2, Zenon DEF Joins, Still, Types
    <3> QED
      BY <1>1, <3>1, Zenon
  <2> QED
    BY <2>1, <2>2
<1>6. ASSUME NEW d \in Callers, NEW o, NEW t, Begin(d, o, t) PROVE Passed(c) \subseteq Passed(c)'
  BY <1>1, <1>6, Zenon DEF Begin, receivers
<1>7. CASE Publishes \/ Queues \/ PollEvent \/ FanOut
  BY <1>1, <1>7, Zenon DEF Publishes, Queues, Emit, PollEvent, FanOut, receivers
<1>8. ASSUME NEW t \in Topics, PublishesMemory(t) PROVE Passed(c) \subseteq Passed(c)'
  <2>1. Len(wire) + 1 \in Nat
    BY SizeLemma, NextPosition, Zenon
  <2>2. got'[c] = got[c] /\ (buf'[c] = buf[c] \/ buf'[c] = Append(buf[c], Len(wire) + 1))
    BY <1>8, Zenon DEF PublishesMemory, TrySend
  <2> QED
    BY <1>1, <1>2, <2>1, <2>2, Zenon
<1>9. CASE EventTrampoline
  <2>1. heard + 1 \in Nat
    BY SizeLemma, NextPosition, Zenon
  <2>2. got'[c] = got[c] /\ (buf'[c] = buf[c] \/ buf'[c] = Append(buf[c], heard + 1))
    BY <1>9, Zenon DEF EventTrampoline, TrySend
  <2> QED
    BY <1>1, <1>2, <2>1, <2>2, Zenon
<1>10. CASE DispatchEvent
  <2>1. PICK h \in hand : TrySend({h[2]}, h[1])
    BY <1>10, Zenon DEF DispatchEvent
  <2>2. h[1] \in Nat
    BY Zenon DEF Types
  <2>3. got'[c] = got[c] /\ (buf'[c] = buf[c] \/ buf'[c] = Append(buf[c], h[1]))
    BY <1>10, <2>1, Zenon DEF DispatchEvent, TrySend
  <2> QED
    BY <1>1, <1>2, <2>2, <2>3
<1>11. ASSUME NEW d \in Callers, Receive(d) PROVE Passed(c) \subseteq Passed(c)'
  <2>1. CASE d # c
    BY <1>1, <1>11, <2>1, Zenon DEF Receive, Types
  <2>2. CASE d = c
    <3>1. buf'[c] = Tail(buf[c]) /\ got'[c] = Append(got[c], Head(buf[c])) /\ buf[c] # <<>>
      BY <1>11, <2>2, Zenon DEF Receive, Types
    <3>2. Range(buf[c]) = Range(Tail(buf[c])) \cup {Head(buf[c])} /\ Head(buf[c]) \in Nat
      BY <1>0, <3>1, PopLemma, Zenon
    <3>3. Range(got'[c]) = Range(got[c]) \cup {Head(buf[c])}
      BY <1>0, <3>1, <3>2, PushLemma, Zenon
    <3> QED
      BY <3>1, <3>2, <3>3, Zenon DEF Passed
  <2> QED
    BY <2>1, <2>2
<1>12. ASSUME NEW d \in Callers, DropReceiver(d) PROVE c \in dropped' \/ Passed(c) \subseteq Passed(c)'
  <2>1. CASE d # c
    BY <1>1, <1>12, <2>1, Zenon DEF DropReceiver, Types
  <2>2. CASE d = c
    BY <1>12, <2>2, Zenon DEF DropReceiver
  <2> QED
    BY <2>1, <2>2
<1>13. ASSUME NEW d \in Callers, Forward(d) \/ SendPolled(d) PROVE Passed(c) \subseteq Passed(c)'
  <2>1. Head(back[d]) \in Nat
    BY <1>13, PopLemma, Zenon DEF Types, Forward, SendPolled
  <2>2. \/ buf' = buf
        \/ buf' = [buf EXCEPT ![d] = Append(@, Head(back[d]))]
    BY <1>13 DEF Forward, SendPolled
  <2>3. got' = got
    BY <1>13 DEF Forward, SendPolled
  <2>4. CASE buf' = buf
    BY <1>1, <2>3, <2>4
  <2>5. CASE buf' = [buf EXCEPT ![d] = Append(@, Head(back[d]))]
    <3>1. CASE c # d
      BY <1>1, <2>3, <2>5, <3>1, Zenon DEF Types
    <3>2. CASE c = d
      <4>1. buf'[c] = Append(buf[c], Head(back[d]))
        BY <2>5, <3>2, Zenon DEF Types
      <4> QED
        BY <1>2, <2>1, <2>3, <4>1
    <3> QED
      BY <3>1, <3>2
  <2> QED
    BY <2>2, <2>4, <2>5
<1>14. ASSUME NEW d \in Callers, PollRest(d) PROVE Passed(c) \subseteq Passed(c)'
  BY <1>1, <1>14, Zenon DEF PollRest
<1> QED
  BY <1>3, <1>4, <1>5, <1>6, <1>7, <1>8, <1>9, <1>10, <1>11, <1>12, <1>13, <1>14, Zenon DEF Step, OfCall, Moves

LEMMA SeenStep ==
    ASSUME OrderInv, Context, Step, Subscribed, NEW c \in Callers \ dropped', NEW p \in seen'[c]
    PROVE  \E j \in Passed(c)' : wire'[j].payload = p
<1> USE DEF Context, OrderInv
<1>1. Passed(c) \subseteq Passed(c)'
  BY PassedGrows
<1>2. \A j \in Passed(c) : wire'[j] = wire[j]
  BY Zenon DEF Channels, Meant, Extends
<1>3. CASE p \in seen[c] /\ c \notin dropped
  <2>1. PICK j \in Passed(c) : wire[j].payload = p
    BY <1>3, Zenon DEF Subscribed
  <2> QED
    BY <1>1, <1>2, <2>1, Zenon
<1>4. ASSUME UNCHANGED seen, dropped \subseteq dropped' PROVE \E j \in Passed(c)' : wire'[j].payload = p
  BY <1>3, <1>4
<1>5. CASE SetsUp \/ TearsDown \/ UNCHANGED transportVars
  BY <1>4, <1>5, Zenon DEF SetsUp, TearsDown, transportVars, Still, calls, receivers
<1>6. ASSUME NEW d \in Callers, Asks(d) \/ Leaves(d) \/ Inserts(d) \/ Joins(d) \/ Removes(d)
      PROVE  \E j \in Passed(c)' : wire'[j].payload = p
  BY <1>4, <1>6, Zenon DEF Asks, Leaves, Inserts, Joins, Removes, Still
<1>7. ASSUME NEW d \in Callers, NEW o, NEW t, Begin(d, o, t) PROVE \E j \in Passed(c)' : wire'[j].payload = p
  BY <1>4, <1>7, Zenon DEF Begin, receivers
<1>8. CASE Publishes \/ Queues \/ PollEvent \/ FanOut \/ EventTrampoline \/ DispatchEvent
  BY <1>4, <1>8, Zenon DEF Publishes, Queues, Emit, PollEvent, FanOut, EventTrampoline, DispatchEvent, receivers
<1>9. ASSUME NEW t \in Topics, PublishesMemory(t) PROVE \E j \in Passed(c)' : wire'[j].payload = p
  BY <1>4, <1>9, Zenon DEF PublishesMemory
<1>10. ASSUME NEW d \in Callers, Receive(d) \/ DropReceiver(d) \/ Forward(d) \/ PollRest(d)
       PROVE  \E j \in Passed(c)' : wire'[j].payload = p
  BY <1>4, <1>10, Zenon DEF Receive, DropReceiver, Forward, PollRest
<1>11. ASSUME NEW d \in Callers, SendPolled(d) PROVE \E j \in Passed(c)' : wire'[j].payload = p
  <2>1. dropped' = dropped /\ wire' = wire
    BY <1>11 DEF SendPolled
  <2>2. CASE p \notin seen[c]
    <3>1. /\ seen' = [seen EXCEPT ![d] = @ \cup {wire[Head(back[d])].payload}]
          /\ buf' = [buf EXCEPT ![d] = Append(@, Head(back[d]))] /\ back[d] # <<>>
      BY <1>11, <2>2 DEF SendPolled
    <3>2. d = c /\ p = wire[Head(back[d])].payload
      BY <2>2, <3>1, Zenon DEF Types
    <3>3. Head(back[d]) \in Nat
      BY <3>1, PopLemma, Zenon DEF Types
    <3>4. buf'[c] = Append(buf[c], Head(back[d]))
      BY <3>1, <3>2, Zenon DEF Types
    <3>5. Head(back[d]) \in Range(buf'[c])
      <4>1. buf[c] \in Seq(Nat)
        BY Zenon DEF Types
      <4>2. Range(Append(buf[c], Head(back[d]))) = Range(buf[c]) \cup {Head(back[d])}
        BY <3>3, <4>1, PushLemma, Zenon
      <4> QED
        BY <3>4, <4>2
    <3> QED
      BY <2>1, <3>2, <3>5 DEF Passed
  <2> QED
    BY <1>3, <2>1, <2>2, Zenon
<1> QED
  BY <1>5, <1>6, <1>7, <1>8, <1>9, <1>10, <1>11, Zenon DEF Step, OfCall, Moves

LEMMA HeldTopic == ASSUME Types, Places, NEW c \in Callers, Held(c) PROVE topicOf[c] \in Topics /\ call[c] = "done"
<1>1. call[c] = "done" /\ topicOf[c] # NoTopic
  BY Zenon DEF Held, Places
<1> QED
  BY <1>1 DEF Types

LEMMA SubscribedStep == ASSUME OrderInv, Context, Step, Orderly, Subscribed PROVE Subscribed'
<1> USE DEF Context, OrderInv
<1>1. kind' # "memory" => \A t \in Topics : One(sender'[t])
  <2>0. kind' = kind
    BY DEF Extends
  <2>1. ASSUME \A t \in Topics : sender'[t] \subseteq sender[t] PROVE kind' # "memory" => \A t \in Topics : One(sender'[t])
    BY <2>0, <2>1, Zenon DEF Subscribed, One
  <2>2. CASE SetsUp \/ UNCHANGED transportVars
    BY <2>1, <2>2 DEF SetsUp, transportVars
  <2>3. CASE TearsDown
    BY <2>3 DEF TearsDown, One
  <2>4. CASE Moves
    BY <2>1, <2>4, MovesDisturb, Zenon DEF Disturbs
  <2>5. ASSUME NEW c \in Callers, OfCall(c) PROVE kind' # "memory" => \A t \in Topics : One(sender'[t])
    <3>1. CASE Asks(c) \/ Leaves(c) \/ \E o \in {"subscribe", "unsubscribe"}, t \in Topics : Begin(c, o, t)
      BY <2>1, <3>1, Zenon DEF Asks, Leaves, Begin
    <3>2. CASE Removes(c)
      <4>1. \A t \in Topics : sender'[t] \subseteq sender[t]
        BY <3>2, Zenon DEF Removes, Types
      <4> QED
        BY <2>1, <4>1
    <3>3. CASE Inserts(c)
      <4>1. \A t \in Topics : sender'[t] = sender[t] \/ sender'[t] = {c}
        BY <3>3, Zenon DEF Inserts, Types
      <4> QED
        BY <2>0, <4>1, Zenon DEF Subscribed, One
    <3>4. CASE Joins(c)
      BY <2>0, <3>4, Zenon DEF Joins
    <3> QED
      BY <2>5, <3>1, <3>2, <3>3, <3>4 DEF OfCall
  <2> QED
    BY <2>2, <2>3, <2>4, <2>5 DEF Step
<1>2. One(hand')
  <2>1. CASE hand' = hand \/ hand' = {}
    BY <2>1 DEF Subscribed, One
  <2>2. CASE PollEvent
    <3>1. kind = "shim" /\ hand' = {<<Head(events), c>> : c \in sender[wire[Head(events)].topic]}
      BY <2>2 DEF PollEvent
    <3>2. wire[Head(events)].topic \in Topics
      <4>1. Head(events) \in Range(events)
        BY <2>2, PopLemma, Zenon DEF PollEvent, Types
      <4> QED
        BY <4>1, TopicLemma, Zenon DEF Behind
    <3>3. One(sender[wire[Head(events)].topic])
      BY <3>1, <3>2, Zenon DEF Subscribed
    <3> QED
      BY <3>1, <3>3 DEF One
  <2>3. CASE SetsUp \/ TearsDown \/ UNCHANGED transportVars
    BY <2>1, <2>3 DEF SetsUp, TearsDown, transportVars, Still
  <2>4. ASSUME NEW c \in Callers, OfCall(c) PROVE One(hand')
    BY <2>1, <2>4, Zenon DEF OfCall, Asks, Leaves, Inserts, Joins, Removes, Still, Begin
  <2>5. CASE Publishes \/ EventTrampoline \/ Queues \/ DispatchEvent \/ FanOut
    BY <2>1, <2>5, Zenon DEF Publishes, EventTrampoline, Queues, Emit, DispatchEvent, FanOut
  <2>6. ASSUME NEW t \in Topics, PublishesMemory(t) PROVE One(hand')
    BY <2>1, <2>6 DEF PublishesMemory
  <2>7. ASSUME NEW c \in Callers, Receive(c) \/ DropReceiver(c) \/ Forward(c) \/ PollRest(c) \/ SendPolled(c) PROVE One(hand')
    BY <2>1, <2>7, Zenon DEF Receive, DropReceiver, Forward, PollRest, SendPolled
  <2> QED
    BY <2>2, <2>3, <2>4, <2>5, <2>6, <2>7 DEF Step, Moves
<1>3. \A c \in Callers \ dropped' : \A p \in seen'[c] : \E j \in Passed(c)' : wire'[j].payload = p
  BY SeenStep
<1>4. ASSUME NEW c \in Callers, Held(c)', kind' \in Remote PROVE topicOf'[c] \in netSub'
  <2>0. kind' = kind
    BY DEF Extends
  <2>1. CASE Inserts(c)
    <3>1. /\ op[c] = "subscribe" /\ call[c] = "local" /\ UNCHANGED <<topicOf, netSub, raced>>
      BY <1>4, <2>0, <2>1, Zenon DEF Inserts, Still, Remote
    <3>2. topicOf[c] \in Topics \ raced /\ Calling(c, topicOf[c])
      <4>1. topicOf[c] # NoTopic /\ topicOf[c] \notin raced
        BY <1>4, <3>1, Zenon DEF Held, Places
      <4>2. topicOf[c] \in Topics
        BY <4>1, Zenon DEF Types
      <4> QED
        BY <3>1, <4>1, <4>2 DEF Calling, InCall
    <3> QED
      BY <1>4, <2>0, <3>1, <3>2, Zenon DEF Orderly
  <2>2. CASE Joins(c)
    BY <1>4, <2>0, <2>2, Zenon DEF Joins, Remote
  <2>3. CASE Held(c)
    <3>1. /\ topicOf[c] \in netSub /\ c \in sender[topicOf[c]] /\ topicOf[c] \in Topics \ raced
          /\ call[c] = "done" /\ topicOf'[c] = topicOf[c]
      BY <1>4, <2>0, <2>3, HeldTopic, Zenon DEF Subscribed, Held, Extends
    <3>2. CASE netSub \subseteq netSub'
      BY <3>1, <3>2
    <3>3. ASSUME NEW d \in Callers, Leaves(d) PROVE topicOf'[c] \in netSub'
      <4>1. netSub' \in {netSub, netSub \ {topicOf[d]}} /\ Still
        BY <3>3, Zenon DEF Leaves
      <4>2. CASE topicOf[d] # topicOf[c] \/ netSub' = netSub
        <5>1. CASE netSub' = netSub
          BY <3>1, <5>1, Zenon
        <5>2. CASE netSub' = netSub \ {topicOf[d]} /\ topicOf[d] # topicOf[c]
          BY <3>1, <5>2, Zenon
        <5> QED
          BY <4>1, <4>2, <5>1, <5>2, Zenon
      <4>3. CASE topicOf[d] = topicOf[c] /\ netSub' # netSub
        <5>1. Calling(d, topicOf[c]) /\ op[d] = "unsubscribe" /\ call[d] = "remote"
          BY <3>3, <4>3, Zenon DEF Leaves, Calling, InCall
        <5>2. kind = "library"
          <6>1. kind # "library" => sender[topicOf[c]] = {}
            BY <1>4, <2>0, <3>1, <5>1, Zenon DEF Orderly
          <6> QED
            BY <3>1, <6>1
        <5>3. call'[d] = "local" /\ op'[d] = "unsubscribe" /\ topicOf' = topicOf
          BY <3>3, <4>3, <5>2, Zenon DEF Leaves, Goes, Still, Types
        <5>4. Leaving(topicOf[c])'
          BY <2>0, <4>3, <5>2, <5>3 DEF Leaving, Calling, InCall
        <5> QED
          BY <1>4, <5>4 DEF Held
      <4> QED
        BY <4>2, <4>3
    <3>4. CASE SetsUp \/ TearsDown \/ UNCHANGED transportVars
      BY <3>2, <3>4 DEF SetsUp, TearsDown, transportVars
    <3>5. CASE Moves
      BY <3>2, <3>5, MovesDisturb, Zenon DEF Disturbs
    <3>6. ASSUME NEW d \in Callers, Asks(d) \/ Inserts(d) \/ Joins(d) \/ Removes(d) PROVE topicOf'[c] \in netSub'
      BY <3>2, <3>6, Zenon DEF Asks, Inserts, Joins, Removes
    <3>7. ASSUME NEW d \in Callers, NEW o, NEW t, Begin(d, o, t) PROVE topicOf'[c] \in netSub'
      BY <3>2, <3>7 DEF Begin
    <3> QED
      BY <3>3, <3>4, <3>5, <3>6, <3>7 DEF Step, OfCall
  <2> QED
    BY <1>4, <2>1, <2>2, <2>3, HeldBefore, Zenon
<1> QED
  BY <1>1, <1>2, <1>3, <1>4, Zenon DEF Subscribed

\* A message for a held subscription that was not yet heard, or is on its way, gets one step on: into
\* the channel, or the subscription is one that lost a message.
LEMMA TrySendKeeps ==
    ASSUME Types, NEW c \in Callers \ dropped, NEW n \in Nat, NEW cs, TrySend(cs, n), c \notin lost', c \in cs
    PROVE  n \in Range(buf'[c])
<1>1. Room(c) /\ buf'[c] = Append(buf[c], n) /\ buf[c] \in Seq(Nat)
  BY DEF TrySend, Types
<1>2. Range(Append(buf[c], n)) = Range(buf[c]) \cup {n}
  BY <1>1, PushLemma, Zenon
<1> QED
  BY <1>1, <1>2, Zenon

LEMMA KeptStep == ASSUME OrderInv, Context, Step, Subscribed, Subscribed', Kept PROVE Kept'
<1> USE DEF Context, OrderInv
<1> SUFFICES ASSUME NEW c \in Callers, Held(c)', NEW i \in since'[c] + 1 .. Len(wire'), wire'[i].topic = topicOf'[c]
             PROVE  Arrives(c, i)'
  BY Zenon DEF Kept
<1>0. Len(wire) \in Nat /\ Len(wire') \in Nat /\ since[c] \in Nat /\ since'[c] \in Nat /\ heard \in Nat /\ heard' \in Nat
  <2>1. since[c] \in Nat /\ since'[c] \in Nat
    BY Zenon DEF Types
  <2> QED
    BY <2>1, SizeLemma, SizeLemmaNext, Zenon
<1>1. CASE kind' = "rest"
  BY <1>1, Zenon DEF Held, Subscribed, Arrives
<1>2. CASE Inserts(c) \/ Joins(c)
  <2>1. since'[c] = Len(wire) /\ wire' = wire
    BY <1>2, ZenonT(30) DEF Inserts, Joins, Still, Types
  <2>2. i \in Len(wire) + 1 .. Len(wire)
    BY <2>1, Zenon
  <2> QED
    BY <1>0, <2>2, NoneBetween, Zenon
<1>3. CASE kind' # "rest" /\ Held(c) /\ since'[c] = since[c] /\ ~Inserts(c) /\ ~Joins(c)
  <2>0. /\ kind' = kind /\ kind # "rest" /\ topicOf[c] \in Topics /\ topicOf'[c] = topicOf[c]
        /\ c \notin dropped /\ c \notin dropped' /\ c \notin lost' /\ c \in sender[topicOf[c]]
        /\ (kind \in Remote => topicOf[c] \in netSub) /\ i \in Nat
    <3>1. kind' = kind /\ kind # "rest" /\ (call[c] # "idle" => topicOf'[c] = topicOf[c])
      BY <1>3, Zenon DEF Extends
    <3>2. topicOf[c] \in Topics /\ call[c] = "done"
      BY <1>3, HeldTopic, Zenon
    <3>3. c \notin dropped /\ c \notin dropped' /\ c \notin lost' /\ c \in sender[topicOf[c]]
      BY <1>3, Zenon DEF Held
    <3>4. kind \in Remote => topicOf[c] \in netSub
      BY <1>3, Zenon DEF Subscribed
    <3>5. i \in Nat
      BY <1>0, After, Zenon
    <3> QED
      BY <3>1, <3>2, <3>3, <3>4, <3>5, Zenon
  <2>1. i \in 1 .. Len(wire) => wire'[i] = wire[i] /\ (i \in Coming(c) \/ (kind \in Remote /\ i > heard))
    <3> SUFFICES ASSUME i \in 1 .. Len(wire)
                 PROVE  wire'[i] = wire[i] /\ (i \in Coming(c) \/ (kind \in Remote /\ i > heard))
      BY Zenon
    <3>1. wire'[i] = wire[i]
      BY Zenon DEF Extends
    <3>2. i \in since[c] + 1 .. Len(wire)
      <4>1. since'[c] = since[c]
        BY <1>3, Zenon
      <4> QED
        BY <1>0, <4>1, After, Zenon
    <3>3. Arrives(c, i)
      BY <1>3, <2>0, <3>1, <3>2, Zenon DEF Kept
    <3> QED
      BY <2>0, <3>1, <3>3, Zenon DEF Arrives
  <2>2. i \in 1 .. Len(wire')
    BY <1>0, After, Zenon
  <2>3. ASSUME Coming(c) \subseteq Coming(c)', heard' = heard, wire' = wire PROVE Arrives(c, i)'
    BY <2>0, <2>1, <2>2, <2>3, Zenon DEF Arrives
  <2>4. ASSUME UNCHANGED <<hand, events, back, heard, wire>>, Passed(c) \subseteq Passed(c)' PROVE Arrives(c, i)'
    BY <2>3, <2>4, Zenon DEF Coming
  <2>5. Passed(c) \subseteq Passed(c)'
    BY <2>0, PassedGrows, Zenon
  <2>6. CASE SetsUp \/ UNCHANGED transportVars
    BY <2>4, <2>5, <2>6, Zenon DEF SetsUp, transportVars, Still, receivers
  <2>7. CASE TearsDown
    <3>1. node' = Gone /\ node' = SetupSteps
      BY <2>7, Zenon DEF TearsDown, Held, Running
    <3> QED
      BY <3>1, GoneIsNotUp, Zenon
  <2>8. ASSUME NEW d \in Callers, Asks(d) \/ Leaves(d) \/ Inserts(d) \/ Removes(d) \/ Joins(d) PROVE Arrives(c, i)'
    BY <2>4, <2>5, <2>8, Zenon DEF Asks, Leaves, Inserts, Removes, Joins, Still
  <2>9. ASSUME NEW d \in Callers, NEW o, NEW t, Begin(d, o, t) PROVE Arrives(c, i)'
    BY <2>4, <2>5, <2>9, Zenon DEF Begin, receivers
  <2>10. ASSUME NEW d \in Callers, Receive(d) \/ DropReceiver(d) PROVE Arrives(c, i)'
    BY <2>4, <2>5, <2>10, Zenon DEF Receive, DropReceiver
  <2>11. ASSUME NEW d \in Callers, PollRest(d) \/ SendPolled(d) PROVE Arrives(c, i)'
    BY <2>0, <2>11, Zenon DEF PollRest, SendPolled, Places
  <2>12. CASE Publishes
    <3>1. PICK m \in Message : wire' = Append(wire, m)
      BY <2>12, Zenon DEF Publishes
    <3>2. Len(wire') = Len(wire) + 1
      BY <3>1, WireGrows, Zenon
    <3>3. Coming(c)' = Coming(c) /\ heard' = heard
      BY <2>12, Zenon DEF Publishes, Coming, Passed, receivers
    <3>4. kind \in Remote
      BY <2>0, <2>12, Zenon DEF Publishes, Types, Kinds, Remote
    <3>5. heard <= Len(wire)
      BY Zenon DEF Types
    <3>6. i \in 1 .. Len(wire) \/ i > heard
      <4>1. i \in 1 .. Len(wire) + 1
        BY <2>2, <3>2, Zenon
      <4> QED
        BY <1>0, <3>5, <4>1, NewOrUnheard, Zenon
    <3> QED
      BY <2>0, <2>1, <3>3, <3>4, <3>6, Zenon DEF Arrives
  <2>13. ASSUME NEW t \in Topics, PublishesMemory(t) PROVE Arrives(c, i)'
    <3>1. PICK m : wire' = Append(wire, m) /\ m.topic = t /\ m \in Message
      <4>1. PICK p \in Payloads : wire' = Append(wire, [topic |-> t, payload |-> p])
        BY <2>13, Zenon DEF PublishesMemory
      <4>2. [topic |-> t, payload |-> p].topic = t /\ [topic |-> t, payload |-> p] \in Message
        BY Zenon DEF Message
      <4> QED
        BY <4>1, <4>2, Zenon
    <3>2. Len(wire') = Len(wire) + 1 /\ wire'[Len(wire) + 1] = m
      BY <3>1, WireGrows, Zenon
    <3>3. Coming(c) \subseteq Coming(c)' /\ heard' = heard
      BY <2>5, <2>13, Zenon DEF PublishesMemory, Coming
    <3>4. CASE i \in 1 .. Len(wire)
      BY <2>0, <2>1, <3>3, <3>4, Zenon DEF Arrives
    <3>5. CASE i = Len(wire) + 1
      <4>1. c \in sender[t]
        BY <2>0, <3>1, <3>2, <3>5, Zenon
      <4>2. i \in Range(buf'[c])
        BY <2>0, <2>13, <3>5, <4>1, TrySendKeeps, Zenon DEF PublishesMemory
      <4> QED
        BY <4>2, Zenon DEF Arrives, Coming, Passed
    <3> QED
      <4>1. i \in 1 .. Len(wire) \/ i = Len(wire) + 1
        BY <1>0, <2>0, <2>2, <3>2, NextPosition, Zenon
      <4> QED
        BY <3>4, <3>5, <4>1, Zenon
  <2>14. CASE EventTrampoline
    <3>1. /\ heard' = heard + 1 /\ wire' = wire /\ kind = "library"
          /\ TrySend(IF wire[heard + 1].topic \in netSub THEN sender[wire[heard + 1].topic] ELSE {}, heard + 1)
      BY <2>14, Zenon DEF EventTrampoline
    <3>2. Coming(c) \subseteq Coming(c)'
      BY <2>5, <2>14, Zenon DEF EventTrampoline, Coming
    <3>3. CASE i \in Coming(c) \/ i > heard + 1
      BY <2>0, <3>1, <3>2, <3>3, Zenon DEF Arrives, Remote
    <3>4. CASE i = heard + 1
      <4>1. wire[heard + 1].topic = topicOf[c]
        BY <2>0, <3>1, <3>4, Zenon
      <4>2. TrySend(sender[topicOf[c]], i)
        BY <2>0, <3>1, <3>4, <4>1, Zenon DEF Remote
      <4>3. i \in Range(buf'[c])
        BY <2>0, <4>2, TrySendKeeps, Zenon
      <4> QED
        BY <4>3, Zenon DEF Arrives, Coming, Passed
    <3>5. i \in Coming(c) \/ i > heard
      BY <2>1, <2>2, <3>1, Zenon
    <3> QED
      BY <1>0, <2>0, <3>3, <3>4, <3>5, NextPosition, Zenon
  <2>15. CASE Queues
    <3>1. /\ heard' = heard + 1 /\ wire' = wire /\ kind \in Remote
          /\ events' = IF wire[heard + 1].topic \in netSub THEN Append(events, heard + 1) ELSE events
          /\ UNCHANGED <<hand, got, buf, back>>
      BY <2>15, Zenon DEF Queues, Emit, Remote, receivers
    <3>2. events \in Seq(Nat) /\ heard + 1 \in Nat
      BY <1>0, NextPosition, Zenon DEF Types
    <3>3. Range(Append(events, heard + 1)) = Range(events) \cup {heard + 1}
      BY <3>2, PushLemma, Zenon
    <3>4. Coming(c) \subseteq Coming(c)'
      BY <3>1, <3>3, Zenon DEF Coming, Passed
    <3>5. CASE i \in Coming(c) \/ i > heard + 1
      BY <2>0, <3>1, <3>4, <3>5, Zenon DEF Arrives
    <3>6. CASE i = heard + 1
      <4>1. wire[heard + 1].topic \in netSub
        BY <2>0, <3>1, <3>6, Zenon
      <4>2. i \in Range(events')
        BY <3>1, <3>3, <3>6, <4>1, Zenon
      <4> QED
        BY <4>2, Zenon DEF Arrives, Coming
    <3>7. i \in Coming(c) \/ i > heard
      BY <2>1, <2>2, <3>1, Zenon
    <3> QED
      BY <1>0, <2>0, <3>5, <3>6, <3>7, NextPosition, Zenon
  <2>16. CASE PollEvent
    <3>1. /\ events' = Tail(events) /\ hand = {} /\ events # <<>> /\ events \in Seq(Nat)
          /\ hand' = {<<Head(events), d>> : d \in sender[wire[Head(events)].topic]}
          /\ UNCHANGED <<heard, wire, got, buf, back>>
      BY <2>16, Zenon DEF PollEvent, receivers, Types
    <3>2. Range(events) = Range(events') \cup {Head(events)}
      BY <3>1, PopLemma, Zenon
    <3>3. CASE i \in Coming(c) /\ i # Head(events)
      BY <3>1, <3>2, <3>3, Zenon DEF Arrives, Coming, Passed
    <3>4. CASE i = Head(events)
      <4>1. wire[Head(events)].topic = topicOf[c]
        BY <2>0, <3>1, <3>4, Zenon
      <4>2. <<i, c>> \in hand'
        BY <2>0, <3>1, <3>4, <4>1, Zenon
      <4>3. i \in {h[1] : h \in {g \in hand' : g[2] = c}}
        BY <4>2
      <4> QED
        BY <4>3, Zenon DEF Arrives, Coming
    <3>5. CASE kind \in Remote /\ i > heard
      BY <2>0, <3>1, <3>5, Zenon DEF Arrives
    <3> QED
      BY <2>1, <2>2, <3>1, <3>3, <3>4, <3>5, Zenon
  <2>17. CASE DispatchEvent
    <3>1. PICK h \in hand : TrySend({h[2]}, h[1])
      BY <2>17, Zenon DEF DispatchEvent
    <3>2. UNCHANGED <<heard, wire, got, back, events>>
      BY <2>17, Zenon DEF DispatchEvent
    <3>3. hand = {h} /\ h[1] \in Nat
      <4>1. \A g \in hand : g = h
        BY Zenon DEF Subscribed, One
      <4>2. h \in Nat \X Callers
        BY Zenon DEF Types
      <4> QED
        BY <4>1, <4>2
    <3>4. CASE i = h[1] /\ h[2] = c
      <4>1. i \in Range(buf'[c])
        BY <2>0, <3>1, <3>4, TrySendKeeps, Zenon
      <4> QED
        BY <4>1, Zenon DEF Arrives, Coming, Passed
    <3>5. CASE i \in Passed(c) \cup Range(back[c]) \cup Range(events)
      BY <2>5, <3>2, <3>5, Zenon DEF Arrives, Coming
    <3>6. CASE kind \in Remote /\ i > heard
      BY <2>0, <3>2, <3>6, Zenon DEF Arrives
    <3>7. i \in Coming(c) => (i = h[1] /\ h[2] = c) \/ i \in Passed(c) \cup Range(back[c]) \cup Range(events)
      BY <3>3, Zenon DEF Coming
    <3> QED
      BY <2>1, <2>2, <3>2, <3>4, <3>5, <3>6, <3>7, Zenon
  <2>18. CASE FanOut
    <3>1. /\ events' = Tail(events) /\ events # <<>> /\ events \in Seq(Nat) /\ back[c] \in Seq(Nat)
          /\ UNCHANGED <<heard, wire, got, buf, hand>>
          /\ back'[c] = IF c \in sender[wire[Head(events)].topic] THEN Append(back[c], Head(events)) ELSE back[c]
      BY <2>18, Zenon DEF FanOut, Types
    <3>2. Range(events) = Range(events') \cup {Head(events)} /\ Head(events) \in Nat
      BY <3>1, PopLemma, Zenon
    <3>3. Range(Append(back[c], Head(events))) = Range(back[c]) \cup {Head(events)}
      BY <3>1, <3>2, PushLemma, Zenon
    <3>4. CASE i \in Coming(c) /\ i # Head(events)
      BY <3>1, <3>2, <3>3, <3>4, Zenon DEF Arrives, Coming, Passed
    <3>5. CASE i = Head(events)
      <4>1. wire[Head(events)].topic = topicOf[c]
        BY <2>0, <3>1, <3>5, Zenon
      <4>2. i \in Range(back'[c])
        BY <2>0, <3>1, <3>3, <3>5, <4>1, Zenon
      <4> QED
        BY <4>2, Zenon DEF Arrives, Coming
    <3>6. CASE kind \in Remote /\ i > heard
      BY <2>0, <3>1, <3>6, Zenon DEF Arrives
    <3> QED
      BY <2>1, <2>2, <3>1, <3>4, <3>5, <3>6, Zenon
  <2>19. ASSUME NEW d \in Callers, Forward(d) PROVE Arrives(c, i)'
    <3>1. UNCHANGED <<heard, wire, got, hand, events>> /\ back[d] # <<>> /\ back[d] \in Seq(Nat)
      BY <2>19, Zenon DEF Forward, Types
    <3>2. CASE d # c
      <4>1. back'[c] = back[c]
        BY <2>19, <3>2, Zenon DEF Forward, Types
      <4>2. Coming(c) \subseteq Coming(c)'
        BY <2>5, <3>1, <4>1, Zenon DEF Coming
      <4> QED
        BY <2>3, <3>1, <4>2, Zenon
    <3>3. CASE d = c
      <4>1. back'[c] = Tail(back[c]) /\ buf'[c] = Append(buf[c], Head(back[c])) /\ buf[c] \in Seq(Nat)
        BY <2>0, <2>19, <3>3, Zenon DEF Forward, Types
      <4>2. Range(back[c]) = Range(Tail(back[c])) \cup {Head(back[c])} /\ Head(back[c]) \in Nat
        BY <3>1, <3>3, PopLemma, Zenon
      <4>3. Range(buf'[c]) = Range(buf[c]) \cup {Head(back[c])}
        BY <4>1, <4>2, PushLemma, Zenon
      <4>4. Coming(c) \subseteq Coming(c)'
        BY <3>1, <4>1, <4>2, <4>3, Zenon DEF Coming, Passed
      <4> QED
        BY <2>3, <3>1, <4>4, Zenon
    <3> QED
      BY <3>2, <3>3, Zenon
  <2> QED
    BY <2>6, <2>7, <2>8, <2>9, <2>10, <2>11, <2>12, <2>13, <2>14, <2>15, <2>16, <2>17, <2>18, <2>19, Zenon DEF Step, OfCall, Moves
<1> QED
  BY <1>1, <1>2, <1>3, HeldBefore, Zenon

LEMMA StandStart == TransportInit => StandInv
<1> SUFFICES ASSUME TransportInit PROVE StandInv
  OBVIOUS
<1>1. /\ \A c \in Callers : call[c] = "idle" /\ seen[c] = {}
      /\ \A t \in Topics : sender[t] = {}
      /\ hand = {}
  BY DEF TransportInit
<1>2. Orderly
  BY <1>1 DEF Orderly, Calling, InCall
<1>3. Subscribed
  BY <1>1 DEF Subscribed, One, Held
<1>4. Kept
  BY <1>1 DEF Kept, Held
<1> QED
  BY <1>2, <1>3, <1>4 DEF StandInv

LEMMA StandStep == OrderInv /\ StandInv /\ [TransportNext]_transportVars => StandInv'
<1> SUFFICES ASSUME OrderInv, StandInv, [TransportNext]_transportVars PROVE StandInv'
  OBVIOUS
<1>1. Context /\ Step
  BY OrderStep
<1>2. Orderly'
  BY <1>1, OrderlyStep DEF StandInv
<1>3. Subscribed'
  BY <1>1, SubscribedStep DEF StandInv
<1>4. Kept'
  BY <1>1, <1>3, KeptStep DEF StandInv
<1> QED
  BY <1>2, <1>3, <1>4 DEF StandInv

LEMMA StandLemma == StandInv => NothingLost
<1> SUFFICES ASSUME StandInv, NEW c \in Callers, Stands(c), c \notin lost, topicOf[c] \notin raced,
                    NEW i \in since[c] + 1 .. Len(wire), wire[i].topic = topicOf[c]
             PROVE  \/ i \in OnTheWay(c)
                    \/ kind \in Remote /\ i > heard
                    \/ kind = "rest" /\ wire[i].payload \notin seen[c]
                    \/ kind = "rest" /\ \E j \in OnTheWay(c) : wire[j].payload = wire[i].payload
  BY Zenon DEF NothingLost
<1>1. ~Leaving(topicOf[c])
  BY Zenon DEF Stands, Leaving, Calling
<1>2. Held(c)
  BY <1>1 DEF Stands, Held
<1>3. Arrives(c, i)
  BY <1>2 DEF StandInv, Kept
<1>4. Passed(c) \subseteq OnTheWay(c) /\ Coming(c) \subseteq OnTheWay(c)
  BY Zenon DEF Passed, Coming, OnTheWay
<1> QED
  BY <1>3, <1>4, Zenon DEF Arrives

\* Every backend loses nothing that is published while a subscription stands, whatever calls, events and
\* polls come in between: unless a channel was full, or two calls for the topic overlapped.
THEOREM NothingLostHolds == TransportSpec => []NothingLost
<1>1. TransportInit => OrderInv /\ StandInv
  BY OrderStart, StandStart
<1>2. OrderInv /\ StandInv /\ [TransportNext]_transportVars => (OrderInv /\ StandInv)'
  BY OrderStep, StandStep
<1>3. OrderInv /\ StandInv => NothingLost
  BY StandLemma
<1> QED
  BY <1>1, <1>2, <1>3, PTL DEF TransportSpec

\* Every backend of the transport implements the trait's promise, for every number of topics, callers and
\* messages and every capacity: the messages of the topic, once and in order, and none of them lost.
THEOREM KeepsTransportPromiseHolds == TransportSpec => KeepsTransportPromise
BY BackendsRefinePromise, NothingLostHolds, PTL DEF KeepsTransportPromise
===============================================================================
