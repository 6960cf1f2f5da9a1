---------------------------- MODULE TransportPromise ---------------------------
(***************************************************************************)
(* What the Transport trait promises a subscriber, whichever backend is    *)
(* behind it: it receives messages of its topic, each at most once, in the *)
(* order they were published.  Messages may be missing.                    *)
(***************************************************************************)
EXTENDS Naturals, Sequences

CONSTANTS Callers, Topics, NoTopic

VARIABLES
    wire,       \* the messages published, in order
    topicOf,    \* the topic a caller uses
    got         \* the positions of the messages it received

promised == <<wire, topicOf, got>>

Init ==
    /\ wire = <<>>
    /\ topicOf = [c \in Callers |-> NoTopic]
    /\ got = [c \in Callers |-> <<>>]

Published ==
    /\ Len(wire') = Len(wire) + 1 /\ SubSeq(wire', 1, Len(wire)) = wire
    /\ UNCHANGED <<topicOf, got>>

Subscribed(c) ==
    /\ topicOf[c] = NoTopic
    /\ \E t \in Topics : topicOf' = [topicOf EXCEPT ![c] = t]
    /\ UNCHANGED <<wire, got>>

Received(c) ==
    /\ \E i \in 1 .. Len(wire) :
        /\ wire[i].topic = topicOf[c]
        /\ \A j \in 1 .. Len(got[c]) : got[c][j] < i
        /\ got' = [got EXCEPT ![c] = Append(@, i)]
    /\ UNCHANGED <<wire, topicOf>>

Next == Published \/ \E c \in Callers : Subscribed(c) \/ Received(c)

Spec == Init /\ [][Next]_promised
===============================================================================
