------------------------------- MODULE Sessions -------------------------------
(***************************************************************************)
(* Conversation sessions of a node: the map LmaoNode.sessions with         *)
(* create_session, evict_idle_sessions (lib.rs), send_in_session           *)
(* (tasks/send.rs), the tracking of incoming tasks at the end of           *)
(* poll_tasks (tasks/poll.rs) and Session::push_task (session.rs).         *)
(***************************************************************************)
EXTENDS Integers, Sequences, FiniteSets, Functions

CONSTANTS
    Sids,        \* session ids (UUIDs)
    TaskIds,     \* task ids (UUIDs)
    MaxTaskIds,  \* Session::MAX_TASK_IDS
    MaxAge,      \* SESSION_IDLE_MAX_SECS, the age given to evict_idle_sessions
    MaxTime,     \* bound: the clock stops here
    MaxSends     \* bound: calls of send_in_session

ASSUME SessionsAssumption ==
    /\ MaxTaskIds \in Nat \ {0}
    /\ MaxAge \in Nat
    /\ MaxTime \in Nat
    /\ MaxSends \in Nat

VARIABLES
    sessions,    \* the map: session id -> Session
    now,
    usedSids,    \* ids any node has taken for a session
    sent,        \* ids of the tasks send_in_session has made
    pending,     \* calls of send_in_session that await send_task
    lastTask,    \* history: when the session was created or a task of it last received
    ownTasks     \* history: how many tasks send_in_session added to the session

vars == <<sessions, now, usedSids, sent, pending, lastTask, ownTasks>>

Session == [id : Sids, task_ids : Seq(TaskIds), last_seen : Nat]
Call == [sid : Sids, task : TaskIds]

NewSession(id) == [id |-> id, task_ids |-> <<>>, last_seen |-> now]

PushTask(session, task) ==
    LET ids == Append(session.task_ids, task)
        drop == IF Len(ids) > MaxTaskIds THEN Len(ids) - MaxTaskIds ELSE 0
    IN  [session EXCEPT !.task_ids = IF task \in Range(@) THEN @
                                     ELSE SubSeq(ids, drop + 1, Len(ids)),
                        !.last_seen = now]

Put(map, key, value) == [k \in DOMAIN map \cup {key} |-> IF k = key THEN value ELSE map[k]]

Init ==
    /\ sessions = [s \in {} |-> NewSession(s)]
    /\ now = 0
    /\ usedSids = {}
    /\ sent = {}
    /\ pending = {}
    /\ lastTask = [s \in Sids |-> 0]
    /\ ownTasks = [s \in Sids |-> 0]

\* create_session, with a fresh UUID.
CreateSession(id) ==
    /\ id \notin usedSids
    /\ usedSids' = usedSids \cup {id}
    /\ sessions' = Put(sessions, id, NewSession(id))
    /\ lastTask' = [lastTask EXCEPT ![id] = now]
    /\ UNCHANGED <<now, sent, pending, ownTasks>>

\* A peer creates a session of its own.
RemoteSession(id) ==
    /\ id \notin usedSids
    /\ usedSids' = usedSids \cup {id}
    /\ UNCHANGED <<sessions, now, sent, pending, lastTask, ownTasks>>

\* poll_tasks received a task of a session: one of a peer's, or the answer to one of ours,
\* which keeps id and session of the request.  A session that is not in the map is made
\* with Session::new, which takes a fresh UUID.
TrackTask(sid, task) ==
    /\ sid \in usedSids
    /\ IF sid \in DOMAIN sessions
       THEN /\ sessions' = [sessions EXCEPT ![sid] = PushTask(@, task)]
            /\ UNCHANGED <<usedSids, ownTasks>>
       ELSE \E id \in Sids \ usedSids :
                /\ usedSids' = usedSids \cup {id}
                /\ sessions' = Put(sessions, sid, PushTask(NewSession(id), task))
                /\ ownTasks' = [ownTasks EXCEPT ![sid] = 0]
    /\ lastTask' = [lastTask EXCEPT ![sid] = now]
    /\ UNCHANGED <<now, sent, pending>>

\* send_in_session up to the await of send_task.
SendBegin(sid, task) ==
    /\ Cardinality(sent) < MaxSends
    /\ sid \in DOMAIN sessions
    /\ task \notin sent
    /\ sent' = sent \cup {task}
    /\ pending' = pending \cup {[sid |-> sid, task |-> task]}
    /\ UNCHANGED <<sessions, now, usedSids, lastTask, ownTasks>>

\* send_task returned Ok: the id is pushed if the session is still there.
SendEnd(c) ==
    /\ c \in pending
    /\ pending' = pending \ {c}
    /\ IF c.sid \in DOMAIN sessions
       THEN /\ sessions' = [sessions EXCEPT ![c.sid].task_ids = Append(@, c.task)]
            /\ ownTasks' = [ownTasks EXCEPT ![c.sid] = @ + 1]
       ELSE UNCHANGED <<sessions, ownTasks>>
    /\ UNCHANGED <<now, usedSids, sent, lastTask>>

\* send_task returned Err.
SendError(c) ==
    /\ c \in pending
    /\ pending' = pending \ {c}
    /\ UNCHANGED <<sessions, now, usedSids, sent, lastTask, ownTasks>>

\* Mutant: a session of exactly the maximum age is evicted.
EvictEarly ==
    /\ sessions' =
           Restrict(sessions, {s \in DOMAIN sessions : now - sessions[s].last_seen < MaxAge})
    /\ ownTasks' = [s \in Sids |-> IF s \in DOMAIN sessions' THEN ownTasks[s] ELSE 0]
    /\ UNCHANGED <<now, usedSids, sent, pending, lastTask>>

EvictIdleSessions ==
    /\ sessions' =
           Restrict(sessions, {s \in DOMAIN sessions : now - sessions[s].last_seen <= MaxAge})
    /\ ownTasks' = [s \in Sids |-> IF s \in DOMAIN sessions' THEN ownTasks[s] ELSE 0]
    /\ UNCHANGED <<now, usedSids, sent, pending, lastTask>>

Tick ==
    /\ now < MaxTime
    /\ now' = now + 1
    /\ UNCHANGED <<sessions, usedSids, sent, pending, lastTask, ownTasks>>

Next ==
    \/ \E s \in Sids : CreateSession(s) \/ RemoteSession(s)
    \/ \E s \in Sids, t \in TaskIds : TrackTask(s, t) \/ SendBegin(s, t)
    \/ \E c \in pending : SendEnd(c) \/ SendError(c)
    \/ EvictIdleSessions
    \/ Tick

Spec == Init /\ [][Next]_vars

-------------------------------------------------------------------------------
(* Properties *)

\* Types of the session map and of the calls in progress.
TypeOK ==
    /\ DOMAIN sessions \subseteq usedSids
    /\ usedSids \subseteq Sids
    /\ sessions \in [DOMAIN sessions -> Session]
    /\ now \in 0..MaxTime
    /\ sent \subseteq TaskIds
    /\ pending \subseteq Call
    /\ lastTask \in [Sids -> 0..MaxTime]
    /\ ownTasks \in [Sids -> 0..MaxSends]

\* evict_idle_sessions drops a session only when more than MaxAge seconds have passed since it
\* was created and since the last task in it was received; and push_task keeps a session within
\* MAX_TASK_IDS: only the ids that send_in_session pushes behind its back come on top.
SessionsAreKept ==
    /\ [][\A s \in DOMAIN sessions \ DOMAIN sessions' : now - lastTask[s] > MaxAge]_vars
    /\ [](\A s \in DOMAIN sessions : Len(sessions[s].task_ids) <= MaxTaskIds + ownTasks[s])
===============================================================================
