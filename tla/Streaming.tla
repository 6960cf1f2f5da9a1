------------------------------ MODULE Streaming ------------------------------
(***************************************************************************)
(* One streamed answer: respond_stream publishes its chunks,               *)
(* poll_stream_chunks collects them and reassemble_stream joins them       *)
(* (node/src/streaming.rs).  Several callers may poll the same stream; one  *)
(* that follows it prints what is new, as `lmao task stream` does          *)
(* (cli/src/task.rs).  The transport loses, duplicates and reorders within *)
(* the bounds below.                                                       *)
(***************************************************************************)
EXTENDS Integers, Sequences, FiniteSets, SequencesExt

CONSTANTS
    N,          \* chunks of the stream
    Callers,    \* tasks of the receiving node that poll it
    Followers,  \* those of them that print the chunks and stop at the final one
    MaxFaults   \* bound: chunks lost or duplicated and repeated calls of respond_stream

ASSUME StreamingAssumption ==
    /\ N \in Nat \ {0}
    /\ Followers \subseteq Callers
    /\ MaxFaults \in Nat

Chunks == 0..(N - 1)

VARIABLES
    ordered,     \* the transport keeps the order of the chunks
    replays,     \* a new subscriber gets what was published before (InMemoryTransport)
    sender,      \* where the call of respond_stream is
    next,        \* chunk_index it publishes next
    net,         \* chunks on their way, oldest first
    lost,        \* history: chunks lost, also those published before anyone subscribed
    faults,      \* losses, duplications and repeated calls so far
    subscribed,  \* stream_rx holds a subscription for the task
    rx,          \* its queue
    pc,          \* where a call of poll_stream_chunks is
    new,         \* its new_chunks
    buffer,      \* stream_chunks of the task
    printed,     \* chunks a follower has printed
    arrived,     \* history: chunks that have reached the subscription
    overlap      \* history: a caller took the lock while another was about to merge

sending == <<sender, next>>
network == <<ordered, replays, net, lost, faults>>
polling == <<subscribed, pc, new, buffer, printed, overlap>>
vars == <<sending, network, polling, rx, arrived>>

Init ==
    /\ sender = "sending" /\ next = 0
    /\ ordered \in BOOLEAN /\ replays \in (IF ordered THEN BOOLEAN ELSE {FALSE})
    /\ overlap = FALSE
    /\ net = <<>> /\ lost = {} /\ faults = 0
    /\ subscribed = FALSE
    /\ rx = <<>>
    /\ pc = [c \in Callers |-> "idle"]
    /\ new = [c \in Callers |-> <<>>]
    /\ buffer = <<>>
    /\ printed = [c \in Callers |-> <<>>]
    /\ arrived = {}

------------------------------------------------------------------------------
(* respond_stream and the network *)

\* Publish the next chunk; nobody gets it who subscribes later, unless the transport replays.
PublishChunk ==
    /\ sender = "sending"
    /\ IF subscribed \/ replays
       THEN net' = Append(net, next) /\ UNCHANGED lost
       ELSE lost' = lost \cup {next} /\ UNCHANGED net
    /\ next' = next + 1
    /\ sender' = IF next' = N THEN "done" ELSE "sending"
    /\ UNCHANGED <<ordered, replays, faults, polling, rx, arrived>>

\* A publish fails and respond_stream returns the error; chunks sent before stay sent.
PublishError ==
    /\ sender = "sending"
    /\ sender' = "failed"
    /\ UNCHANGED <<next, network, polling, rx, arrived>>

Fault == faults < MaxFaults /\ faults' = faults + 1

\* The application calls respond_stream again, with the same chunks.
CallAgain ==
    /\ sender = "failed"
    /\ Fault
    /\ sender' = "sending"
    /\ next' = 0
    /\ UNCHANGED <<ordered, replays, net, lost, polling, rx, arrived>>

Arrive ==
    /\ subscribed
    /\ \E i \in DOMAIN net :
           /\ ordered => i = 1
           /\ rx' = Append(rx, net[i])
           /\ arrived' = arrived \cup {net[i]}
           /\ net' = RemoveAt(net, i)
    /\ UNCHANGED <<ordered, replays, sending, lost, faults, polling>>

Lose ==
    /\ Fault
    /\ \E i \in DOMAIN net : net' = RemoveAt(net, i) /\ lost' = lost \cup {net[i]}
    /\ UNCHANGED <<ordered, replays, sending, polling, rx, arrived>>

Duplicate ==
    /\ Fault
    /\ \E i \in DOMAIN net : net' = InsertAt(net, i, net[i])
    /\ UNCHANGED <<ordered, replays, sending, lost, polling, rx, arrived>>

------------------------------------------------------------------------------
(* poll_stream_chunks *)

\* Take the lock of stream_rx; the first call subscribes.
Lock(c) ==
    /\ pc[c] = "idle"
    /\ \A d \in Callers : pc[d] # "locked"
    /\ pc' = [pc EXCEPT ![c] = "locked"]
    /\ subscribed' = TRUE
    /\ overlap' = (overlap \/ \E d \in Callers : pc[d] = "merge")
    /\ UNCHANGED <<sending, network, rx, new, buffer, printed, arrived>>

\* Mutant: one chunk is taken and the rest of the queue is thrown away.
DrainOne(c) ==
    /\ pc[c] = "locked"
    /\ pc' = [pc EXCEPT ![c] = "merge"]
    /\ new' = [new EXCEPT ![c] = SubSeq(rx, 1, IF rx = <<>> THEN 0 ELSE 1)]
    /\ rx' = <<>>
    /\ UNCHANGED <<sending, network, subscribed, buffer, printed, arrived, overlap>>

\* Empty the queue into new_chunks and release the lock.
Drain(c) ==
    /\ pc[c] = "locked"
    /\ pc' = [pc EXCEPT ![c] = "merge"]
    /\ new' = [new EXCEPT ![c] = rx]
    /\ rx' = <<>>
    /\ UNCHANGED <<sending, network, subscribed, buffer, printed, arrived, overlap>>

\* Push the chunks with a new chunk_index, then sort.
MergeChunks(old, cs) ==
    SortSeq(FoldLeft(LAMBDA acc, k : IF Contains(acc, k) THEN acc ELSE Append(acc, k), old, cs), <)

\* What a follower has not printed yet: the chunks above the last one printed.
Unprinted(c, chunks) == SelectSeq(chunks, LAMBDA k : printed[c] = <<>> \/ k > Last(printed[c]))

\* Merge into the buffer and return it; a follower prints and stops at the final chunk.
Merge(c) ==
    /\ pc[c] = "merge"
    /\ buffer' = MergeChunks(buffer, new[c])
    /\ new' = [new EXCEPT ![c] = <<>>]
    /\ printed' = IF c \in Followers
                  THEN [printed EXCEPT ![c] = @ \o Unprinted(c, buffer')]
                  ELSE printed
    /\ pc' = [pc EXCEPT ![c] = IF c \in Followers /\ Contains(buffer', N - 1)
                               THEN "stopped" ELSE "idle"]
    /\ UNCHANGED <<sending, network, subscribed, rx, arrived, overlap>>

\* Mutant: the text is returned before the final chunk is there.
ReassembledEarly == buffer

\* Mutant: the wrong index is taken for the final one.
ReassembledNever == IF Contains(buffer, N) THEN buffer ELSE <<>>

\* reassemble_stream: the chunks it joins, or the empty sequence for None.
Reassembled == IF Contains(buffer, N - 1) THEN buffer ELSE <<>>

------------------------------------------------------------------------------

Poll(c) == Lock(c) \/ Drain(c) \/ Merge(c)

Next ==
    \/ PublishChunk \/ PublishError \/ CallAgain
    \/ Arrive \/ Lose \/ Duplicate
    \/ \E c \in Callers : Poll(c)

Spec == Init /\ [][Next]_vars

------------------------------------------------------------------------------
(* Properties *)

\* Types of the stream's state.
TypeOK ==
    /\ sender \in {"sending", "done", "failed"} /\ next \in 0..N
    /\ net \in Seq(Chunks) /\ lost \subseteq Chunks /\ faults \in 0..MaxFaults
    /\ subscribed \in BOOLEAN
    /\ rx \in Seq(Chunks) /\ new \in [Callers -> Seq(Chunks)]
    /\ pc \in [Callers -> {"idle", "locked", "merge", "stopped"}]
    /\ buffer \in Seq(Chunks) /\ printed \in [Callers -> Seq(Chunks)]
    /\ arrived \subseteq Chunks
    /\ ordered \in BOOLEAN /\ replays \in BOOLEAN /\ overlap \in BOOLEAN

Whole == [i \in 1..N |-> i - 1]

\* Whatever order the chunks arrive in: reassemble_stream returns a text only when it is the whole
\* text, of a stream no chunk of which is lost.
ReassembledIsWhole == lost = {} /\ Reassembled # <<>> => Reassembled = Whole

\* Nothing was reordered or lost, and no two callers were between the two locks at once.
Smooth == ordered /\ lost = {} /\ ~overlap

\* What the readers of a stream can rely on.  poll_stream_chunks returns chunks sorted by chunk_index
\* and none twice, whatever the network reorders or duplicates, whichever caller merges first and
\* however often respond_stream is called.  A chunk that has reached the node is in the queue, in the
\* hands of a caller or in the buffer: no interleaving of callers between the two locks loses one.
\* And as long as the transport keeps the order and loses nothing and calls do not overlap, a
\* follower that stops has printed every chunk of the stream, each once and in order.
ReadersSeeStream ==
    /\ \A i, j \in DOMAIN buffer : i < j => buffer[i] < buffer[j]
    /\ arrived \subseteq ToSet(rx) \cup ToSet(buffer) \cup UNION {ToSet(new[c]) : c \in Callers}
    /\ Smooth => \A c \in Callers : pc[c] = "stopped" => printed[c] = Whole

StreamView == INSTANCE StreamPromise WITH
    published <- arrived \cup ToSet(net) \cup lost,
    visible <- ToSet(buffer),
    complete <- Reassembled # <<>>

\* Whatever the network and the callers do, the reader sees a growing set of published chunks,
\* and a stream that is reported complete has its final chunk and stays complete.
KeepsPromise == StreamView!Promise

\* Once all chunks are published and none was lost, the stream is reassembled at last.
\* What was lost stays lost and a reassembled stream stays one, so this is a state reached for good.
StreamCompletes == <>[](sender = "done" => Reassembled # <<>> \/ lost # {})
==============================================================================
