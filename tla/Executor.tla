-------------------------------- MODULE Executor -------------------------------
(***************************************************************************)
(* `lmao agent run` as the agent of an executor: the inbox loop of         *)
(* cli/src/agent.rs with run_exec, upload_log and the answers, and the     *)
(* in-flight counter of the node.                                          *)
(*                                                                         *)
(* The executor is a child process fed through a pipe and read through     *)
(* another; a pipe holds Pipe units, and the text of a task has a size in  *)
(* those units.  The loop works on one task at a time: run_exec first      *)
(* writes all of the text, then reads.  An executor answers while it reads,*)
(* a unit for a unit ("stream"), after the end of its input ("slurp"), or  *)
(* exits without reading ("early").  Its third pipe, stderr, is left out:  *)
(* an executor that fills it while it is fed blocks just as one that fills *)
(* stdout.                                                                 *)
(***************************************************************************)
EXTENDS Integers, Sequences, FiniteSets

CONSTANTS
    Jobs,       \* tasks that are sent to the agent
    Pipe,       \* capacity of a pipe
    Sizes       \* sizes of the text of a task

ASSUME ExecutorAssumption == Pipe \in Nat \ {0} /\ Sizes \subseteq Nat

Behaviours == {"stream", "slurp", "early"}
Fates == {"unsent", "inbox", "batch", "exec", "answered", "failed", "rejected", "unanswered",
          "no text", "discarded"}

VARIABLES
    json,       \* --json
    maxConcurrent,  \* LMAO_AGENT_MAX_CONCURRENT
    loop,       \* where the loop is: start, poll, next, feed, wait, upload, respond, dead
    fate,       \* of a task
    accepted_this_batch,   \* accepted_this_batch
    inFlight,   \* the counter of the node
    size, fed, open,        \* text of the task in hand: size, written so far, stdin still open
    inPipe, held, outPipe,  \* units in stdin, in the child, in stdout
    out,        \* units of stdout read
    child       \* none, a behaviour, exited, crashed

execution == <<size, fed, open, inPipe, held, outPipe, out, child>>
config_ == <<json, maxConcurrent>>
executorVars == <<config_, loop, fate, accepted_this_batch, inFlight, execution>>

ExecutorInit ==
    /\ json \in BOOLEAN /\ maxConcurrent \in 1 .. Cardinality(Jobs)
    /\ loop = "start" /\ fate = [j \in Jobs |-> "unsent"]
    /\ accepted_this_batch = 0 /\ inFlight = 0
    /\ size = 0 /\ fed = 0 /\ open = FALSE /\ inPipe = 0 /\ held = 0 /\ outPipe = 0 /\ out = 0
    /\ child = "none"

In(f) == {j \in Jobs : fate[j] = f}
All(f, g) == [j \in Jobs |-> IF fate[j] = f THEN g ELSE fate[j]]

\* A peer sends a task, also before the agent has subscribed: a backend may replay it.
Sent(j) ==
    /\ fate[j] = "unsent" /\ loop # "dead"
    /\ fate' = [fate EXCEPT ![j] = "inbox"]
    /\ UNCHANGED <<config_, loop, accepted_this_batch, inFlight, execution>>

\* The poll that opens the inbox: what it returns goes nowhere.
OpenInbox ==
    /\ loop = "start"
    /\ loop' = "poll"
    /\ fate' = All("inbox", "discarded")
    /\ UNCHANGED <<config_, accepted_this_batch, inFlight, execution>>

\* A turn of the loop: poll_tasks, which may fail and then leaves the inbox as it is.
PollTasks ==
    /\ loop = "poll" /\ In("inbox") # {}
    /\ fate' = All("inbox", "batch")
    /\ accepted_this_batch' = 0
    /\ loop' = "next"
    /\ UNCHANGED <<config_, inFlight, execution>>

BatchDone ==
    /\ loop = "next" /\ In("batch") = {}
    /\ loop' = "poll"
    /\ UNCHANGED <<config_, fate, accepted_this_batch, inFlight, execution>>

\* At capacity: the sender is told, and an error of respond is ignored.
Reject(j) ==
    /\ loop = "next" /\ fate[j] = "batch" /\ accepted_this_batch >= maxConcurrent
    /\ fate' = [fate EXCEPT ![j] = "rejected"]
    /\ UNCHANGED <<config_, loop, accepted_this_batch, inFlight, execution>>

\* A task without text is only printed.
Skip(j) ==
    /\ loop = "next" /\ fate[j] = "batch" /\ accepted_this_batch < maxConcurrent
    /\ fate' = [fate EXCEPT ![j] = "no text"]
    /\ UNCHANGED <<config_, loop, accepted_this_batch, inFlight, execution>>

\* load_inc, and run_exec spawns the executor, or fails to.
Spawn(j, n, b) ==
    /\ loop = "next" /\ fate[j] = "batch" /\ accepted_this_batch < maxConcurrent
    /\ fate' = [fate EXCEPT ![j] = "exec"]
    /\ accepted_this_batch' = accepted_this_batch + 1
    /\ inFlight' = inFlight + 1
    /\ \/ /\ child' = b /\ size' = n /\ open' = TRUE /\ loop' = "feed"
       \/ /\ child' = "crashed" /\ size' = 0 /\ open' = FALSE /\ loop' = "respond"
    /\ fed' = 0 /\ inPipe' = 0 /\ held' = 0 /\ outPipe' = 0 /\ out' = 0
    /\ UNCHANGED config_

-------------------------------------------------------------------------------
(* run_exec and the child *)

Alive == child \in Behaviours
Rest == <<config_, fate, accepted_this_batch, inFlight>>

\* Mutant: stdin is not dropped after the text was written.
CloseStdinForgotten == UNCHANGED open

CloseStdin == open' = FALSE

\* write_all: a unit at a time while there is room; a child that is gone breaks the pipe.
Feed ==
    /\ loop = "feed"
    /\ \/ /\ fed < size /\ Alive /\ inPipe < Pipe
          /\ fed' = fed + 1 /\ inPipe' = inPipe + 1
          /\ UNCHANGED <<loop, open, child>>
       \/ /\ fed < size /\ ~Alive
          /\ child' = "crashed" /\ open' = FALSE /\ loop' = "respond"
          /\ UNCHANGED <<fed, inPipe>>
       \/ /\ fed = size
          /\ CloseStdin /\ loop' = "wait"
          /\ UNCHANGED <<fed, inPipe, child>>
    /\ UNCHANGED <<Rest, size, held, outPipe, out>>

\* wait_with_output reads stdout until the child is gone; then status and stdout are looked at.
Wait ==
    /\ loop = "wait"
    /\ \/ /\ outPipe > 0
          /\ outPipe' = outPipe - 1 /\ out' = out + 1
          /\ UNCHANGED <<loop, child>>
       \/ /\ outPipe = 0 /\ ~Alive
          /\ loop' = IF child = "exited" /\ out > 0 THEN "upload" ELSE "respond"
          /\ child' = IF child = "exited" /\ out > 0 THEN child ELSE "crashed"
          /\ UNCHANGED <<outPipe, out>>
    /\ UNCHANGED <<Rest, size, fed, open, inPipe, held>>

\* upload_log: no backend, an empty log, a CID or an error that is swallowed: the answer goes on.
UploadLog ==
    /\ loop = "upload"
    /\ loop' = "respond"
    /\ UNCHANGED <<Rest, execution>>

\* The executor reads a unit, ...
ChildReads ==
    /\ child \in {"stream", "slurp"} /\ inPipe > 0 /\ (child = "stream" => held = 0)
    /\ inPipe' = inPipe - 1
    /\ held' = held + 1
    /\ UNCHANGED <<Rest, loop, size, fed, open, outPipe, out, child>>

\* ... writes one, as soon as it has one or after the end of its input, ...
ChildWrites ==
    /\ held > 0 /\ outPipe < Pipe
    /\ child = "stream" \/ (child = "slurp" /\ ~open /\ inPipe = 0)
    /\ held' = IF child = "slurp" THEN 0 ELSE held - 1
    /\ outPipe' = outPipe + 1
    /\ UNCHANGED <<Rest, loop, size, fed, open, inPipe, out, child>>

\* ... and ends.
ChildExits ==
    /\ \/ child = "early"
       \/ child \in {"stream", "slurp"} /\ ~open /\ inPipe = 0 /\ held = 0
    /\ child' \in {"exited", "crashed"}
    /\ UNCHANGED <<Rest, loop, size, fed, open, inPipe, held, outPipe, out>>

-------------------------------------------------------------------------------
\* Mutant: the counter is decremented only for a success.
LoadDecOnSuccess == inFlight' = IF child = "exited" THEN inFlight - 1 ELSE inFlight

\* load_dec saturates at zero.
LoadDec == inFlight' = IF inFlight = 0 THEN 0 ELSE inFlight - 1

\* respond or respond_failed, which may fail.  A preview of the answer is printed: it is cut at byte
\* 200, and the slice panics when that is inside a character.
RespondTo(j) ==
    /\ loop = "respond" /\ fate[j] = "exec"
    /\ LoadDec
    /\ \/ /\ fate' = [fate EXCEPT ![j] = IF child = "exited" THEN "answered" ELSE "failed"]
          /\ loop' \in IF json THEN {"next"} ELSE {"next", "dead"}
       \/ /\ fate' = [fate EXCEPT ![j] = "unanswered"]
          /\ loop' = "next"
    /\ child' = "none"
    /\ UNCHANGED <<config_, accepted_this_batch, size, fed, open, inPipe, held, outPipe, out>>

ExecutorNext ==
    \/ OpenInbox \/ PollTasks \/ BatchDone \/ Feed \/ Wait \/ UploadLog
    \/ ChildReads \/ ChildWrites \/ ChildExits
    \/ \E j \in Jobs : Sent(j) \/ Reject(j) \/ Skip(j) \/ RespondTo(j)
    \/ \E j \in Jobs, n \in Sizes, b \in Behaviours : Spawn(j, n, b)

\* The loop and the executor go on when they can.  The second is an assumption about the executor:
\* run_exec has no timeout, and one that never ends holds the loop for ever.
ExecutorFairness ==
    /\ WF_executorVars(Feed \/ Wait \/ UploadLog \/ \E j \in Jobs : RespondTo(j))
    /\ WF_executorVars(ChildReads \/ ChildWrites \/ ChildExits)

-------------------------------------------------------------------------------
(* Properties *)

ExecutorTypeOK ==
    /\ fate \in [Jobs -> Fates] /\ accepted_this_batch \in 0 .. Cardinality(Jobs)
    /\ loop \in {"start", "poll", "next", "feed", "wait", "upload", "respond", "dead"}
    /\ fed <= size /\ inPipe \in 0 .. Pipe /\ outPipe \in 0 .. Pipe

\* The load an agent advertises is the number of tasks it is executing: nothing that fails between
\* load_inc and load_dec leaves it higher, which would make the agent look busy for ever.
LoadIsExact == inFlight = Cardinality(In("exec"))

\* With an executor that goes on and writes no more than it has read, a task that the two pipes can
\* hold is through eventually, also when the executor exits before it has read its input or fails.
\* Over a longer text run_exec may wait for room in stdin while the executor waits for room in stdout.
\* The size is that of the task in hand, so a task that held the loop for ever would keep this false.
ExecutionEnds == []<>(loop \in {"start", "poll", "next", "dead"} \/ size > 2 * Pipe)
===============================================================================
