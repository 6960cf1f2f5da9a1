-------------------------------- MODULE Metrics -------------------------------
(***************************************************************************)
(* The counters of a node (node/src/metrics.rs) and the methods that count *)
(* on them, with a caller that takes a snapshot meanwhile.                 *)
(*                                                                         *)
(* Each counter is an atomic of its own with Ordering::Relaxed.  So the    *)
(* increments of one method become visible one at a time and in any order, *)
(* and snapshot loads the counters one at a time and in any order.  Only   *)
(* what a method counts is modelled of it: its script, in program order.   *)
(***************************************************************************)
EXTENDS Integers, Sequences, SequencesExt, FiniteSetsExt

CONSTANTS
    Operations,     \* calls of the methods
    MaxAttempts,    \* max_attempts of the retry layer
    MaxBatch        \* bound: chunks of a stream, peers of a broadcast, messages of a poll

ASSUME MetricsAssumption == MaxAttempts \in Nat \ {0} /\ MaxBatch \in Nat

Counters ==
    {"tasks_sent", "tasks_received", "tasks_failed", "messages_published", "messages_received",
     "discoveries", "announcements_sent", "peers_discovered", "encryptions", "decryptions",
     "sessions_created", "delegations_sent", "stream_chunks_sent", "stream_chunks_received",
     "retry_attempts", "retries_exhausted", "responses_sent", "tasks_dropped_untrusted"}

Parts == {"tasks_sent", "responses_sent", "announcements_sent", "stream_chunks_sent"}
\* Counters that are related to each other.  Of the counters that go with messages_published a
\* behaviour looks at two and calls the methods that count on them: no more than two calls are made.
Groups ==
    {P \cup {"messages_published"} : P \in kSubset(2, Parts)}
    \cup
    {{"tasks_received", "messages_received"},
     {"retry_attempts", "retries_exhausted", "tasks_failed"}}

VARIABLES
    watched,    \* the group a behaviour is about
    counter,    \* Metrics
    script,     \* what each call counts: sequence of <<counter, amount>>
    left,       \* the part of it that is still to come
    held,       \* messages received and not yet turned into a task or dropped
    unread,     \* counters the snapshot has still to load
    snap,       \* MetricsSnapshot
    overlap     \* history: calls in progress while the snapshot was taken

metricsVars == <<watched, counter, script, left, held, unread, snap, overlap>>

\* Metrics::new.
Zeroed == [c \in Counters |-> 0]

MetricsInit ==
    /\ watched \in Groups
    /\ counter = Zeroed
    /\ script = [o \in Operations |-> <<>>] /\ left = [o \in Operations |-> <<>>]
    /\ held = 0
    /\ unread = {} /\ snap = Zeroed /\ overlap = {}

-------------------------------------------------------------------------------
(* What the methods count *)

IncBy(c, n) == <<c, n>>
Inc(c) == IncBy(c, 1)

\* RetryLayer::send_reliable: every attempt that fails, and that all of them did.
Retries(k) == [i \in 1..k |-> Inc("retry_attempts")]

\* send_task_to, with a retry layer or without.  A send that fails counts as published too.
SendTaskTo ==
    {Retries(k) \o <<Inc("messages_published"), Inc("tasks_sent")>> : k \in 0..MaxAttempts - 1}
    \cup {failed \o <<Inc("messages_published"), Inc("tasks_failed")>> :
             failed \in {<<>>, Append(Retries(MaxAttempts), Inc("retries_exhausted"))}}

\* prepare_payload for a recipient with a card: encrypted once, or again after an upload.
Encrypting(scripts) ==
    scripts \cup {[i \in 1..n |-> Inc("encryptions")] \o s : n \in 1..2, s \in scripts}

\* Mutant: the chunks of a stream count as one message.
RespondStreamOnce ==
    {<<IncBy("stream_chunks_sent", n), Inc("messages_published")>> : n \in 0..MaxBatch}

\* publish_response, and respond_stream: only when every publish succeeded.
PublishResponse == {<<Inc("responses_sent"), Inc("messages_published")>>}
RespondStream ==
    {<<IncBy("stream_chunks_sent", n), IncBy("messages_published", n)>> : n \in 0..MaxBatch}

\* announce, announce_presence_with_ttl.
Announce == {<<Inc("announcements_sent"), Inc("messages_published")>>}

\* delegate_task, delegate_direct, delegate_broadcast: the subtasks are not among the messages.
Delegate == {<<IncBy("delegations_sent", n)>> : n \in 1..MaxBatch}

\* discover, poll_presence, poll_stream_chunks, create_session.
Observe ==
    {<<IncBy(c, n)>> : c \in {"discoveries", "peers_discovered", "stream_chunks_received",
                              "sessions_created"}, n \in 0..MaxBatch}

\* poll_tasks: m messages received and t tasks given; the rest of the poll counts in between.
PollTasks(m, t) == <<IncBy("messages_received", m), IncBy("tasks_received", t)>>

Scripts ==
    Encrypting(SendTaskTo \cup PublishResponse) \cup RespondStream \cup Announce \cup Delegate \cup Observe

\* What of a script can be seen on the counters that are watched.
Seen(s) == SelectSeq(s, LAMBDA inc : inc[1] \in watched /\ inc[2] > 0)

\* A method is called.  Calls that count nothing that is watched, and those made after the snapshot,
\* are left out.
Enter(o, s) ==
    /\ script[o] = <<>> /\ Seen(s) # <<>>
    /\ "messages_published" \in watched => \A i \in DOMAIN s : s[i][1] \in Parts => s[i][1] \in watched
    /\ unread # {} \/ snap = Zeroed
    /\ script' = [script EXCEPT ![o] = Seen(s)] /\ left' = [left EXCEPT ![o] = Seen(s)]
    /\ overlap' = IF unread # {} THEN overlap \cup {o} ELSE overlap
    /\ UNCHANGED <<watched, counter, unread, snap>>

CallMethod(o) == (\E s \in Scripts : Enter(o, s)) /\ UNCHANGED held

\* poll_tasks takes m messages.  They and the ones held back before make at most that many tasks, and
\* of the others some are dropped: duplicates, untrusted, unreadable, not paid.  An error on the
\* way loses the tasks of the poll, uncounted.
CallPoll(o) ==
    \E m \in 0..MaxBatch : \E t \in 0..held + m :
        /\ Enter(o, PollTasks(m, t)) \/ Enter(o, <<IncBy("messages_received", m)>>)
        /\ held' \in 0..held + m - t

\* fetch_add of one of the increments.
Count(o) ==
    \E i \in DOMAIN left[o] :
        /\ unread # {} \/ snap = Zeroed
        /\ counter' = [counter EXCEPT ![left[o][i][1]] = @ + left[o][i][2]]
        /\ left' = [left EXCEPT ![o] = RemoveAt(@, i)]
        /\ UNCHANGED <<watched, script, held, unread, snap, overlap>>

-------------------------------------------------------------------------------
(* snapshot *)

TakeSnapshot ==
    /\ unread = {} /\ snap = Zeroed
    /\ unread' = watched
    /\ overlap' = {o \in Operations : left[o] # <<>>}
    /\ UNCHANGED <<watched, counter, script, left, held, snap>>

\* load of one of the counters; those that are not watched tell nothing.
Load(c) ==
    /\ c \in unread
    /\ snap' = [snap EXCEPT ![c] = counter[c]]
    /\ unread' = unread \ {c}
    /\ UNCHANGED <<watched, counter, script, left, held, overlap>>

MetricsNext ==
    \/ TakeSnapshot
    \/ \E c \in watched : Load(c)
    \/ \E o \in Operations : CallMethod(o) \/ CallPoll(o) \/ Count(o)

-------------------------------------------------------------------------------
(* Properties *)

MetricsTypeOK ==
    /\ watched \in Groups /\ unread \subseteq watched /\ overlap \subseteq Operations
    /\ counter \in [Counters -> Nat] /\ snap \in [Counters -> Nat]
    /\ held \in Nat

\* The amount a set of calls adds to a counter.
Adds(os, c) ==
    LET ofCall(o) == FoldLeft(LAMBDA n, inc : IF inc[1] = c THEN n + inc[2] ELSE n, 0, script[o])
    IN  FoldSet(LAMBDA o, n : n + ofCall(o), 0, os)

Sum(s, cs) == FoldSet(LAMBDA c, n : n + s[c], 0, cs)

\* A snapshot adds up, except for what was in progress while it was taken: every task sent, response,
\* announcement and chunk is among the messages published; no more tasks than messages were received;
\* an exhausted retry layer made all of its attempts, for a send that failed.
MetricsAddUp ==
    unread = {} =>
        LET slack(c) == Adds(overlap, c) IN
        /\ "messages_published" \in watched =>
               Sum(snap, Parts) <= snap["messages_published"] + slack("messages_published")
        /\ snap["tasks_received"] <= snap["messages_received"] + slack("messages_received")
        /\ "retry_attempts" \in watched =>
               /\ MaxAttempts * snap["retries_exhausted"] <= snap["retry_attempts"] + slack("retry_attempts")
               /\ snap["retries_exhausted"] <= snap["tasks_failed"] + slack("tasks_failed")
===============================================================================
