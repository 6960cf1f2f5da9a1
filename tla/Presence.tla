------------------------------- MODULE Presence -------------------------------
(***************************************************************************)
(* Presence: an agent announces itself again and again                     *)
(* (cli/src/agent.rs, announce_presence_with_ttl in node/src/discovery.rs) *)
(* and an observer keeps it in its PeerMap (poll_presence,                 *)
(* node/src/presence.rs) as long as the announcements come.  Entries of    *)
(* different agents do not touch each other, so there is one agent here.   *)
(*                                                                         *)
(* Time is counted in units of a few seconds.  In a timely behaviour a     *)
(* message takes at most MaxDelay, the agent announces when it is due and  *)
(* the observer polls every PollEvery; otherwise anything may be late.     *)
(* A transport that replays hands a new subscriber all that was published  *)
(* on the topic before, however old.                                       *)
(***************************************************************************)
EXTENDS Integers, Sequences, SequencesExt

CONSTANTS
    Ttls,           \* values of ttl_secs
    Every,          \* reannounce_secs
    MaxDelay,       \* longest way of a message, when timely
    PollEvery,      \* longest pause between two calls of poll_presence, when timely
    MaxTime,        \* bound: end of time
    MaxFaults       \* bound: losses, duplications, failed publishes and restarts

ASSUME PresenceAssumption ==
    /\ Ttls \subseteq Nat
    /\ Every \in Nat \ {0} /\ MaxDelay \in Nat /\ PollEvery \in Nat \ {0}
    /\ MaxTime \in Nat /\ MaxFaults \in Nat

Times == 0..MaxTime

\* A PresenceAnnouncement: when it was made, which stands for the load sealed in it, and
\* whether its signature fits.  History: whether a subscription replayed it.
Announcement == [sent : Times, intact : BOOLEAN, replayed : BOOLEAN]
\* A PeerInfo; `sent` stands for the load taken from the announcement.
PeerInfo == [last_seen : Times, sent : Times, replayed : BOOLEAN]
Absent == <<>>

VARIABLES
    ttl,         \* ttl_secs of the agent
    timely,      \* are the delays bounded?
    ordered,     \* does the transport keep the order?
    replays,     \* does it hand a new subscriber what came before?
    now,
    running,     \* the agent is up
    due,         \* next tick of its interval
    net,         \* announcements on their way, oldest first
    past,        \* what the transport has kept, if it replays
    listening,   \* presence_rx of the observer is Some
    rx,          \* its queue
    lastPoll,    \* when the observer last polled
    since,       \* history: when it subscribed
    peer,        \* <<PeerInfo>> of the agent in the PeerMap, or Absent
    heard,       \* history: the agent was heard since it started, and nothing failed since
    faults

conditions == <<ttl, timely, ordered, replays>>
agent == <<running, due>>
observer == <<listening, rx, lastPoll, since, peer>>
presenceVars == <<conditions, now, agent, net, past, observer, heard, faults>>

PresenceInit ==
    /\ ttl \in Ttls
    /\ timely \in BOOLEAN /\ ordered \in BOOLEAN /\ replays \in BOOLEAN
    /\ now = 0
    /\ running = FALSE /\ due = 0
    /\ net = <<>> /\ past = <<>>
    /\ listening = FALSE /\ rx = <<>> /\ lastPoll = 0 /\ since = 0 /\ peer = Absent
    /\ heard = FALSE
    /\ faults = 0

Fault == faults < MaxFaults /\ faults' = faults + 1

-------------------------------------------------------------------------------
(* The agent *)

\* announce_presence_with_ttl: the current load is sealed in, and all is signed.
Publish == net' = Append(net, [sent |-> now, intact |-> TRUE, replayed |-> FALSE])

\* The agent comes up and announces itself.
Start ==
    /\ ~running
    /\ running' = TRUE
    /\ due' = now + Every
    /\ Publish
    /\ heard' = FALSE
    /\ UNCHANGED <<conditions, now, past, observer, faults>>

\* The first announcement fails: a warning, and the agent runs all the same.
StartError ==
    /\ ~running
    /\ Fault
    /\ running' = TRUE
    /\ due' = now + Every
    /\ heard' = FALSE
    /\ UNCHANGED <<conditions, now, net, past, observer>>

\* A tick of the interval.
Reannounce ==
    /\ running /\ now >= due
    /\ due' = due + Every
    /\ Publish
    /\ UNCHANGED <<conditions, now, running, past, observer, heard, faults>>

\* The publish fails; the loop goes on.
AnnounceError ==
    /\ running /\ now >= due
    /\ Fault
    /\ due' = due + Every
    /\ heard' = FALSE
    /\ UNCHANGED <<conditions, now, running, net, past, observer>>

\* The process ends, in whatever way: nothing is announced.
Stop ==
    /\ running
    /\ Fault
    /\ running' = FALSE
    /\ heard' = FALSE
    /\ UNCHANGED <<conditions, now, due, net, past, observer>>

-------------------------------------------------------------------------------
(* The network and time *)

Deliver ==
    /\ \E i \in DOMAIN net :
           /\ ordered => i = 1
           /\ net' = RemoveAt(net, i)
           /\ rx' = IF listening THEN Append(rx, net[i]) ELSE rx
           /\ past' = IF replays THEN Append(past, net[i]) ELSE past
    /\ UNCHANGED <<conditions, now, agent, listening, lastPoll, since, peer, heard, faults>>

\* A message is lost, or arrives changed so that its signature does not fit.
Damage ==
    /\ Fault
    /\ \E i \in DOMAIN net :
           net' \in {RemoveAt(net, i), [net EXCEPT ![i].intact = FALSE]}
    /\ heard' = FALSE
    /\ UNCHANGED <<conditions, now, agent, past, observer>>

Duplicate ==
    /\ Fault
    /\ \E i \in DOMAIN net : net' = InsertAt(net, i, net[i])
    /\ UNCHANGED <<conditions, now, agent, past, observer, heard>>

\* Nothing that is due at this moment is missing.
NothingDue ==
    /\ \A i \in DOMAIN net : now < net[i].sent + MaxDelay
    /\ running => now < due
    /\ listening => now < lastPoll + PollEvery

Tick ==
    /\ now < MaxTime
    /\ timely => NothingDue
    /\ now' = now + 1
    /\ UNCHANGED <<conditions, agent, net, past, observer, heard, faults>>

-------------------------------------------------------------------------------
(* The observer *)

\* Mutant: an entry expires at the last moment of its lifetime.
IsExpiredEarly(info) == ttl = 0 \/ now - info.last_seen >= ttl

IsExpired(info) == ttl = 0 \/ now - info.last_seen > ttl

\* What get, all_live and find_by_capability show.
Live(p) == p # Absent /\ ~IsExpired(p[1])

\* update_with_load.
Update(a) == <<[last_seen |-> now, sent |-> a.sent, replayed |-> a.replayed]>>

\* Every announcement that verifies replaces the entry.
ApplyAll(p, q) == FoldLeft(LAMBDA acc, a : IF a.intact THEN Update(a) ELSE acc, p, q)

\* The queue holds the latest announcement of the running agent.
HasLatest(q) == running /\ \E i \in DOMAIN q : q[i].intact /\ q[i].sent + Every >= due

\* What subscribing puts in the queue.
Replay == [i \in DOMAIN past |-> [past[i] EXCEPT !.replayed = TRUE]]

\* Take everything that is in the queue.
DrainPresence(q) == peer' = ApplyAll(peer, q) /\ rx' = <<>> /\ heard' = (heard \/ HasLatest(q))

\* poll_presence: the first call subscribes; then the queue is drained.  A replay is in the queue at
\* once (InMemoryTransport), or soon after (the task that polls nwaku).
PollPresence ==
    /\ listening' = TRUE /\ lastPoll' = now
    /\ \/ listening /\ UNCHANGED since /\ DrainPresence(rx)
       \/ ~listening /\ since' = now /\ DrainPresence(Replay)
       \/ ~listening /\ since' = now /\ rx' = Replay /\ UNCHANGED <<peer, heard>>
    /\ UNCHANGED <<conditions, now, agent, net, past, faults>>

EvictExpired ==
    /\ peer # Absent /\ IsExpired(peer[1])
    /\ peer' = Absent
    /\ UNCHANGED <<conditions, now, agent, net, past, listening, rx, lastPoll, since, heard, faults>>

\* The observer starts again with an empty map.
RestartObserver ==
    /\ Fault
    /\ listening' = FALSE /\ rx' = <<>> /\ peer' = Absent
    /\ heard' = FALSE
    /\ UNCHANGED <<conditions, now, agent, net, past, lastPoll, since>>

-------------------------------------------------------------------------------

PresenceNext ==
    \/ Start \/ StartError \/ Reannounce \/ AnnounceError \/ Stop
    \/ Deliver \/ Damage \/ Duplicate \/ Tick
    \/ PollPresence \/ EvictExpired \/ RestartObserver

-------------------------------------------------------------------------------
(* Properties *)

\* Types of the agent, the network and the peer map.
PresenceTypeOK ==
    /\ ttl \in Ttls /\ now \in Times /\ lastPoll \in Times /\ since \in Times
    /\ {timely, ordered, replays, running, listening, heard} \subseteq BOOLEAN
    /\ due \in 0..(MaxTime + Every)
    /\ net \in Seq(Announcement) /\ past \in Seq(Announcement) /\ rx \in Seq(Announcement)
    /\ peer = Absent \/ peer \in [{1} -> PeerInfo]
    /\ faults \in 0..MaxFaults

\* In a timely behaviour, the map shows who is there.  An agent that has been heard stays in it without
\* a gap, if its lifetime covers the interval, the delay and the pause between two polls, and as long
\* as no announcement fails or is lost.  An agent that is shown as live has announced itself recently:
\* the entry counts from the poll that found it, which adds the delay and the pause.  The exception is
\* an entry that a subscription replayed, whose agent may be long gone: it is shown no longer than the
\* lifetime after the poll that follows the subscription.
PresenceIsTrue ==
    timely =>
        /\ heard /\ Every + MaxDelay + PollEvery <= ttl => Live(peer)
        /\ Live(peer) =>
               now - (IF peer[1].replayed THEN since ELSE peer[1].sent + MaxDelay) <= ttl + PollEvery
===============================================================================
