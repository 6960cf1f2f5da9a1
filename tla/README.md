# Formal model of LMAO

LMAO lets agents discover each other and exchange A2A tasks over Logos Messaging
(Waku), a fire-and-forget publish/subscribe network.  This directory holds a TLA+
model of the parts of it that are stateful or concurrent, TLC configurations that
check the model on small instances, and TLAPS proofs of the properties that matter
most, for instances of any size.  `PROJECT.json` maps every definition to the source
lines it stands for and lists runs, mutants, findings, hazards and theorems.

## The system

| part | source | module | what makes it hard |
|---|---|---|---|
| SDS bloom filter, message channel | `transport/src/sds/` | `SdsBloom`, `SdsChannel` | `send` takes its timestamp, reads the history and awaits the transport one after the other; duplicated and reordered messages; bounded buffers; a filter that lies and forgets; restarts lose all state |
| reliable sending | `send_reliable` in `channel.rs`; `node/src/retry.rs`, `tasks/send.rs` | `ReliableSend` | lost messages and acknowledgements, late answers, errors after the message went out |
| delegation | `node/src/delegation.rs` | `Delegation` | deadline against a late answer; callers that take each other's answers |
| task intake | `tasks/poll.rs`, `tasks/payment.rs` | `TaskIntake` | several callers at once; checks and their use separated by awaits; one failure ends a batch |
| task envelopes, encryption, sealed load | `tasks/helpers.rs`, `crypto/`, `core/src/presence.rs` | `Envelope` | each side acts on what it knows of the other, which may have started again |
| presence | `node/src/presence.rs`, `discovery.rs` | `Presence` | replayed, late and lost announcements; an expiry that counts from the poll |
| discovery and registry | `node/src/discovery.rs`, `core/src/registry.rs`, MCP and Qt caches | `Discovery` | each call drains what the others wait for |
| agent and its executor | `cli/src/agent.rs` | `Executor` | two pipes of bounded size, a load counter, every step may fail |
| streaming | `node/src/streaming.rs` | `Streaming`, `StreamPromise` | loss, duplication and reordering of chunks, two locks |
| sessions | `node/src/session.rs`, `lib.rs` | `Sessions` | update after an await, eviction in between |
| trust list | `core/src/trust.rs`, `cli/src/trust.rs`, daemon handlers | `TrustStore` | daemon and CLI write one file, truncated before it is written |
| task history | `node/src/history.rs` | `HistoryLog` | a crash in the middle of a line |
| identity files | `node/src/lib.rs`, `cli/src/common.rs` | `KeyFile` | several processes start for the first time |
| daemon and CLI | `cli/src/daemon/`, `cli/src/main.rs` and its handlers | `Daemon`, `Cli` | two probes and an act; a daemon that starts, takes over the socket, crashes or stops between any two steps |
| MCP server | `mcp/src/server.rs` | `McpBridge`, `Discovery` | tool calls that share one inbox |
| C interfaces | `lmao-ffi`, `logos-messaging-a2a-ffi` | `FfiNode` | one node for all threads of a host, made, replaced and dropped |
| Basecamp agent module | `basecamp/agent-module/` | `AgentModule` | a child process, a wait thread and detached workers at destruction |
| transports | `transport/src/` | `Transports`, `TransportPromise`, `Base64` | remote and local half of a subscription, full channels, polls that repeat themselves |
| storage | `storage/src/` | `Storage` | chunked operations whose every call may fail, events of other operations |
| Logos Core bindings | `logos-core-bindings/shim/shim.cpp` | `Shim` | one thread for all calls, calls that are given up and run later, destruction |
| metrics | `node/src/metrics.rs` and the methods that count | `Metrics` | counters that are read one by one while calls go on |
| execution backends | `execution/src/status_network.rs`, `tasks/payment.rs` | `Chain` | amounts wider than 64 bits, hashes that repeat or are spelt in two ways |

The parts meet on the node.  A task goes out through `Envelope`, `ReliableSend` and a
transport, comes in through `SdsChannel` and `TaskIntake`, is executed by the loop of
`Executor` and comes back as an answer to `Delegation`, `McpBridge` or a command of
`Cli`.  Where one part relies on another, its module has an abstraction of the other: the
network of `SdsChannel` and `ReliableSend` (which also repeats, reorders or loses), a
fetch in `TaskIntake` that succeeds with the right bytes or fails, a child in
`AgentModule` that boots, serves and stops.  `TransportPromise` and `StorageIsFaithful`
say under which exceptions the backends justify the first two; only `Cli` with
`Daemon`, `Streaming` with `StreamPromise` and `Transports` with `TransportPromise` are
connected by a check.

## Modules

### `SdsBloom` and `SdsChannel`

`SdsBloom` models the filter: a set of bits, the bits of an id given by the constant
`BitsOf` (disjoint sets make the filter exact, shared bits give false positives), an
insertion counter, and the reset at capacity.

`SdsChannel` models a group of peers on one channel, each with the state of a
`MessageChannel`.  `send` is three actions because other threads may use the channel
between its accesses and while it awaits the transport: `NextTimestamp` takes the
timestamp, `SendPublish` reads history and filter and publishes the message,
`SendComplete` sets the filter, records and buffers it; `SendError` and `SendFail` are
the error return with and without the message being out.  `send_sync` and
`send_repair_request` take their timestamp in the same way.  `MaxStamped` bounds the
calls of a peer that have a timestamp and no history yet.  `receive` is
one action per branch, and `resolve_buffered` is a scan whose steps exclude other
receives of that peer but not its sends.  `net` holds copies addressed to peers, taken
in any order; it may duplicate them.  `Restart` starts a peer afresh with any clock
of `InitialClocks` (the wall clock in the code).  `delivered`, `ownSent`, `acked`,
`forgot` and `between` (entries recorded between the timestamp and the history of a
message) are history variables.
`Retained` is the `retain` of `check_outgoing_acks`, stated as the one sequence that keeps
the other messages in their order.

### `ReliableSend`

One node runs a call of `send_task` per task: the RetryLayer around `send_reliable`
around the transport, and the receivers' `poll_tasks`, which acknowledges what
`receive` delivers.  All calls share the local history of the node.  A timeout may
fire at any time or, in behaviours where `prompt` was chosen at the start, only when
nothing of the task is on its way.  Losses of messages and acknowledgements, errors
of `publish` and `subscribe` are bounded by constants.  A subscription to the
acknowledgement topic replays what the transport has kept of it (`Kept`), so a further
attempt may find an acknowledgement of an earlier one.  That a failed attempt, or an
`unsubscribe` whose error is ignored, leaves a subscription behind is not modelled: its
receiver is dropped and nobody reads it.  The delays of `RetryConfig` are
added up, so that what a call slept can be compared with its attempts.

### `Sessions`

The session map of a node.  `send_in_session` is two actions, before and after the
await of `send_task` (`SendBegin`, `SendEnd` or `SendError`), so that tasks are
received, sessions created and idle ones evicted in between.  Time is a counter.

### `TaskIntake`

`poll_tasks` as several callers execute it: the inbox loop and every delegation in
progress poll the same node.  A call is split where the code releases a lock or
awaits: draining the queue, asking the filter, delivering or buffering the message,
resolving the buffer, extracting (with
a fetch from storage that may fail and ends the call), the two reads of the trust
list in `accept_or_drop`, looking up a payment and recording it after its
verification.  The trust list changes in between.  The payment configuration is
chosen at the start.  Whether a message has to wait for its dependencies, and when it
no longer does, is left open; `SdsChannel` has the rules, the cap of the buffer and
the false positives of the filter.  The filter may be emptied at any insertion.  A
payment is named by the string in the task, and `verify_transfer` adds a missing `0x`
to it: `Tx` gives the string of a task, `Normalised` the transaction it stands for.

### `Delegation`

Calls of `delegate_task`, `delegate_direct` and `delegate_broadcast` on one node, and
agents that run the inbox loop of `lmao agent run`.  The request of the
CLI becomes a strategy (`BuildStrategy`), which works on any view of the peer map and
trust list; the choice is checked against a separate statement of what
the strategy promises (`GoodChoice`, `GoodRefusal`).  The poll loop drains the queue
of the node and drops what is not its own answer; its deadline may pass at any moment,
also when its answer has arrived since the last poll.  The agents take batches, answer what
exceeds their capacity, run one task at a time and answer it, and a publish may fail.
The delegating node may run the inbox loop as well (`myInbox`), as a daemon does.

### `Streaming` and `StreamPromise`

`Streaming` models one streamed answer from `respond_stream` to `poll_stream_chunks`,
`reassemble_stream` and the loop of `lmao task stream`; the receive queue and the
chunk buffer have separate locks, and a call is split between them.  `StreamPromise`
is the abstract specification: a reader sees more and more of what was published, and
a text from the moment the final chunk is there.  The kind of transport (ordered,
replaying to late subscribers) is chosen at the start.

### `Presence`

One agent that announces itself when it starts and at every tick of its interval, and
one observer that polls the presence topic, looks the agent up and evicts; entries of
different agents do not touch each other.  An announcement carries when it was made,
which stands for the load sealed in it.  An entry counts from the poll that found it
(`last_seen` is the observer's clock).  The lifetime, whether delays are bounded
(`timely`), whether the transport keeps the order and whether it replays what it has to
a new subscription, as the in-memory and the REST transport do, are chosen at the start; the agent
may fail to announce, stop and start again, the observer may start again, and messages
are lost, damaged so that their signature does not fit, or duplicated.  The wall clock
does not go backwards in the model.

### `Discovery`

The cards on the discovery topic, drained by `discover` under one lock, the registry
with `register`, `update` and `deregister`, and three users: `discover_agents` of the MCP bridge, which merges into a cache under
a lock of its own, the list of the Qt module, which is replaced, and `discover_all`,
which reads the registry after the drain.  A card is its version.

### `Envelope`

Two nodes that exchange a task and its answer.  What a node knows of the other (a card,
a pasted key) was true once: either may start again with new keys, without encryption
or without storage.  `prepare_payload` encrypts for the known card and leaves a payload
above the threshold in storage; `poll_tasks` opens, fetches and surfaces it.  In other
behaviours one node announces its sealed load and the other opens it.

### `Executor` and `AgentModule`

`Executor` is the inbox loop of `lmao agent run` around `run_exec`: the executor
process is fed through a pipe and read through another, both bounded, and answers
while it reads, after the end of its input, or exits without reading.  Its stderr is
left out.  `AgentModule` is the module of Basecamp that starts
such an agent: constructor, wait thread, requests on the host's thread and on detached
workers, events, and the steps of the destructor.

### `Daemon` and `Cli`

`Daemon` has incarnations of `lmao agent run` with one socket path: start-up, removal
of the old socket, binding, one request per connection, the request to stop, crashes.
`Cli` has the one-shot commands of the binary (those about trust are in `TrustStore`),
from the first probe in `main` to the exit status; a daemon may come and go between the
probe of `main`, the probe of the handler, the connection and the answer.  `sent` is
what a command has handed to the transport of a node, its own or the daemon's, or to
the placeholder that `main` builds when it has found a daemon; the retransmissions of one
call are those of `ReliableSend`.  An error may come after the publish, from a
retransmission or from the poll for the answer.  What a command prints is left out.

### `TrustStore`, `HistoryLog`, `KeyFile`

The files of a host.  `TrustStore`: the list behind its lock, the handlers of the
daemon, one lock per access, the commands that edit the file when no daemon listens,
and a save that truncates before it writes.  `HistoryLog`: rows and line feeds with an
append that ends between the two or inside a row, also inside a character of several
bytes (`Cut`), and what `list` and `get` with their filters read back.  `KeyFile`: looking, reading, creating and writing of
the two secrets by several processes.

### `McpBridge`, `FfiNode` and `Metrics`

`McpBridge` has the start of the MCP server and its tools as concurrent calls of a host:
`discover_agents`, which merges cards into the cache, and `send_to_agent`, which looks a
name up in it and polls the one inbox.
`FfiNode` has the two C libraries: a `OnceLock` and a `Mutex<Option<..>>` around the
node, and the strings a host must free.  `Metrics` has the counters: a method is the
script of what it counts, and a snapshot loads the counters one at a time.

### `Transports`, `TransportPromise`, `Base64`

`Transports` has five backends, one per behaviour: in memory, REST, liblogosdelivery,
the delivery module through the shim and through the C API of the host.  Remote and
local halves of `subscribe` and `unsubscribe` are separate steps, in each backend's
order; the event path is split where a lock is released.  `TransportPromise` is what
the trait promises: messages of the topic, each at most once, in order.  The network
under the backends is assumed not to reorder or repeat.  `Base64`
states the two functions of `nwaku_rest.rs` over bytes.

### `Storage`, `Shim`, `Chain`

`Storage` has the four storage backends with their chunks, sessions and events; each
call may fail, and the storage module answers errors in two shapes, of which some calls
look for one only.  `Shim` has the Qt thread, the closures posted to it, and callers that may give
up at any moment.  There is no time in it: a deadline counts from the posting of a call,
the SDK's own timeouts only from when the Qt thread reaches it, and a Qt thread that is
wedged may not go on at all.  `Chain` has the receipts `verify_transfer` may meet, with
several logs and wide amounts, a backend with and without a token contract, tasks that
spell the hash with and without `0x`, a payer whose `auto_pay` attaches hashes, and
`balance`.

### Instances

Modules of parts that share no state are instantiated together (`MCExchange`,
`MCInbox`, `MCAgents`, `MCHostState`, `MCBackends`): a variable that never changes picks
the part a behaviour exercises, and the others rest in one initial state.  One run then
explores the sum of their state spaces.  `MCCli` composes `Cli` with `Daemon`, which do
interact.

## Runs

Deadlock is not checked: in every instance the system may rest, with all calls returned
and all bounds used up.

| run | what it shows | bounds |
|---|---|---|
| `sds_channel` | Lamport condition, causal delivery and progress of the incoming buffer, implicit acknowledgements, caps of all buffers, with a filter that is exact | two peers, three messages, one duplication, failed publish or restart, two calls of a peer between timestamp and history; buffers of one and two elements, so that every cap is hit |
| `sds_channel_lossy_filter` | what `receive` returns directly is new, also when ids share bits and the filter is emptied by the third insertion; a peer also receives its own messages, even before `send` has recorded them, and there are ephemeral messages | two peers, two messages and an ephemeral one, two duplications, failures or restarts: before the filter is emptied there is room for two deliveries, so that a copy of the first meets a filter that knows it |
| `exchange` | `SendResultIsTrue`: what `send_reliable` returns, through both loops, is what happened. `DelegationIsRight`, `TimeoutIsJustified`: the choice of a peer, and what success and timeout mean. Every call returns | two tasks, one retransmission, two attempts, two faults in all (errors, of one call only, lost messages, a lost acknowledgement), delays of one unit; a delegation to one or all of two peers beside one to a single peer, capacity one, so that batches of two are partly rejected |
| `inbox` | tasks are surfaced once, but for the named exceptions, and paid in full, none vanishes, trust is respected at the moment of admission; the presence map is neither late nor early, also after a replay; caches of cards never go back | two callers, three arrivals of five kinds of message, two spellings of one transaction, the filter emptied once, one change of the trust list; interval 2, delay and pause 1, ttl 0, 3 (too short) and 4 (just enough), time up to 7; two calls of a discovery, two versions of a card |
| `agents` | a destroyed agent module leaves nothing behind, events tell what the daemon answered and every accepted request is reported; the load counter is exact and an execution ends if the executor does; readers see the stream, `Streaming` implements `StreamPromise` and a stream that lost nothing completes | two requests; two tasks, pipes of one unit, texts of none, two and three units: two fit into both pipes together, three do not; three chunks, two callers, one fault |
| `cli` | a command publishes its task at most once, its claim of success is right but for a broadcast, the task goes to the placeholder only when the daemon has gone, every command ends, `daemon stop` stops | every one-shot command of `Cli` beside a `daemon stop`, two incarnations of the daemon, so that one takes over from the other |
| `host_state` | trust list and file agree and enforcement is never lost; a torn append costs at most one more row; all processes have the identity of the files; what `send_to_agent` says is so; a call uses the node that is in place; a snapshot of the counters adds up; sessions are kept and bounded | three commands, two peers, two daemons; three rows, two tears; three processes; two tool calls; three threads, two nodes; two methods that count; three session ids, clock up to 3 |
| `backends` | uploads and downloads are faithful, late calls of the shim are harmless, receipts and amounts are read right, base64 is standard, envelopes are transparent, the sealed load is true, and every transport implements `TransportPromise` and loses nothing while a subscription stands | two callers, two topics, two messages, channels of one; two workers, two blobs of two chunks; two threads with two calls each; two spellings of a hash, amounts around 2^2 for the 64 bits; payloads up to five bytes from six values; two nodes, one task, one restart |
| `sds_at_most_once`, `reliable_lost_ack`, `delegation_stolen_answer`, `streaming_reordered` | violations, see below | those of `sds_channel`; two retransmissions, one attempt and one lost acknowledgement; those of `exchange`; two chunks and one caller |

The bounds are chosen so that the cases the properties are about occur: two actors for
a race, losses beyond what `max_retries` masks, buffers that a second or third message
overfills, a second incarnation beside the first.  That they do occur is what the
mutants show; what needs more actors or longer behaviours is not covered.

Every property of a passing run has a mutant in `PROJECT.json`: a version of one
definition with a plausible bug, kept before it in the module under a comment that
begins with `Mutant`, under which TLC refutes the property.

The modules' type invariants (`TypeOK`, `PresenceTypeOK`, ...) are not among the runs'
properties; each holds on its run's instance when it is added to the configuration as
an invariant.  That of the channel is proved (`ChannelTypeOK`).

**Fairness.**  `exchange`: weak fairness of the steps of a call, as the runtime polls a
future that is ready and every wait has a timeout that `tokio::time` wakes, and of the
steps of the transport and the receivers of `ReliableSend`, without which a prompt
timeout would wait for ever.  `agents`: the workers of the agent module run and their
requests have timeouts; the loop goes on when it can; the transport goes on delivering
and the callers polling, which `lmao task stream` does in a loop.  `cli`: the steps of
a command, a daemon that handles a connection it has accepted, and the exit it has
scheduled; a daemon may crash at any time instead.

One fairness assumption is not justified by the code: that the executor process goes
on.  `run_exec` has no timeout, so `ExecutionEnds` is a statement about executors that
end, and one that hangs holds the inbox loop for ever.

## Where the code and its documentation disagree

Four disagreements have a run that shows them, listed under `findings`:

- a message that arrives twice while it waits for its dependencies is delivered twice
  (`sds_at_most_once`): `resolve_buffered` does not ask the filter;
- one lost acknowledgement is never made good (`reliable_lost_ack`): the receiver
  takes retransmissions for duplicates and does not acknowledge them;
- of two delegations on one node one takes the other's answer
  (`delegation_stolen_answer`), which then reports a timeout;
- the final chunk of a stream that overtakes another one yields a text with a gap
  (`streaming_reordered`).

Others were met while modelling and are written into the modules as the code has them,
and into the properties as exceptions:

- `send`, `send_sync` and `send_repair_request` take the timestamp and read the causal
  history in two accesses: what another thread records in between is in the history with
  a timestamp that is as late as the message's own or later (`LamportCondition` excepts
  those entries);
- after a reset of the bloom filter (`bloom.rs:50`) old messages are delivered again
  (`DirectDeliveryIsFresh` asks for a filter that was not emptied);
- a peer that receives its own sync messages counts its own filter as that of another
  peer (`AckedIsSeenElsewhere` is checked without self-delivery);
- a task sent to a second receiver depends on the one sent to the first, which the
  second never gets, and waits in its buffer for ever (`ReliableSend` is run with one
  receiver);
- `send_in_session` pushes task ids without the bound of `push_task` and without
  refreshing `last_seen` (`SessionsAreKept`), and a session first seen in a received
  task is stored under an id other than the one it carries (`poll.rs:96`);
- a task is returned twice by overlapping calls of `poll_tasks` that hold copies of its
  message, when two copies wait in the incoming buffer side by side, and when a copy
  comes after the filter was emptied (`SurfacedOnce` excepts all three, `PaidInFull` the
  overlap of two tasks with one payment);
- `verify_payment` looks up and records the hash as the task spells it, and only then a
  missing `0x` is added: one transaction in two spellings pays for two tasks
  (`PaidInFull` and `ChainIsReadRight` are about spellings);
- a subscription that replays old announcements makes an agent that is long gone look
  live once more, for its lifetime from the poll that finds the announcement
  (`PresenceIsTrue` has a bound of its own for such entries);
- an agent at capacity answers with a task in state Completed, and RoundRobin gives up
  although a trusted peer of a worse load tier is live (`DelegationIsRight`);
- the inbox loop executes whatever task it polls, late answers to delegations of its
  own node included;
- a comment in `daemon/server.rs:62` says that `bind` fails when another daemon runs;
  the old socket has been removed by then, and the second daemon takes over (`Daemon`);
- a comment in `main.rs:108-110` says that no handler touches the placeholder transport;
  when the daemon goes between the probe of `main` and that of the handler, the task is
  published on it, and the command reports success (`TaskIsSentOnce` says that it
  happens only then);
- `delegate_broadcast` returns `Ok` also when every publish has failed, with the errors
  among the results, and a command reports success (`TaskIsSentOnce` leaves
  `--broadcast` out of what success means);
- `metrics.rs:24` describes `messages_published` as "Messages published to transport
  (all topics)"; the code counts a send before it knows whether it succeeded
  (`tasks/send.rs:45`), and does not count the subtasks of delegations, acknowledgements
  and retransmissions (`MetricsAddUp` asks only that what other counters report as sent
  is among the messages published);
- a daemon that ends between a change of the trust list and its save loses the change,
  and a direct edit of the file beside a daemon is overwritten (`TrustListIsKept`);
- a row appended after a torn one is lost with it (`OneRowPerTear`); when the tear cuts a
  character of several bytes, `next_line` fails on the line and with it every later
  `list` and `get`, where `history.rs:8-10` says that a partial line "is just discarded
  on read" (`OneRowPerTear` leaves files with such a line out); two first starts
  may end with one process whose key is not in the file (`SameIdentity`);
- `send_to_agent` loses an answer that arrives before its first poll subscribes, that
  another call's poll takes, or that comes in one batch behind another state
  (`SendToAgentTellsTrue`);
- two calls of `discover_agents` that merge at the same time may leave the older card
  (`DiscoveryKeepsUp`), and the list of the Qt module forgets agents that announced
  themselves before the previous call;
- a worker of the agent module may emit its event after the module was destroyed: it
  reads `shuttingDown` and then emits (`agent_impl.cpp:361-364` says otherwise);
- a text that the two pipes cannot hold may block the agent and its executor for ever
  (`ExecutionEnds`), and so may a long log on stderr; the preview of an answer, cut at a byte, may end the agent
  (`RespondTo`);
- the transports drop messages when the channel of a receiver is full, and nothing is
  said of topics with overlapping calls of `subscribe` and `unsubscribe`
  (`NothingLost`);
- the storage module's answer `{"error"}` passes for success in `uploadChunk` and
  `downloadFile`; concurrent operations of the Logos Core backend take each other's
  events, also when the caller of one has left, and those of libstorage share a file
  (`StorageIsFaithful`);
- a call of the shim whose caller gave up is executed all the same, later
  (`LateCallsAreHarmless`: into a slot of its own); when the Qt thread is wedged,
  `logos_shim_destroy` waits for it for ever, for it joins the thread;
- two payments of one amount have one hash, and the second is refused as a replay
  (`ChainIsReadRight`); without a token contract `parse_transfer_log` takes a Transfer
  of any token, as its tests say.

## Proofs

TLAPS checks the following for every value of the constants.  Each theorem is listed in
`PROJECT.json`; most state a property that a run checks on its instance.

| module | theorems | about |
|---|---|---|
| `SdsChannelProofs` | `TypeCorrect`, `LamportConditionHolds` | `SdsChannel` |
| `SdsDeliveryProofs` | `DirectDeliveryIsFreshHolds`, `CausalDeliveryHolds`, `AckedIsSeenElsewhereHolds`, `BuffersBoundedHolds`, `ChannelTypeOK` | `SdsChannel` |
| `TaskIntakeProofs` | `AdmissionRespectsTrustHolds`, `NothingVanishesHolds`, `PaidInFullHolds`, `SurfacedOnceHolds` | `TaskIntake` |
| `HostStateProofs` | `SameIdentityHolds`, `NodeInUseIsCurrentHolds`, `TrustListIsKeptHolds`, `SessionsAreKeptHolds` | `KeyFile`, `FfiNode`, `TrustStore`, `Sessions` |
| `AgentsBackendsProofs` | `LoadIsExactHolds`, `NothingLeftBehindHolds`, `EventTellsReplyHolds`, `LateCallsAreHarmlessHolds`, `ChainIsReadRightHolds` | `Executor`, `AgentModule`, `Shim`, `Chain` |
| `TransportProofs` | `BackendsRefinePromise`, `NothingLostHolds`, `KeepsTransportPromiseHolds` | `Transports` implements `TransportPromise`, and what it loses |
| `DelegationProofs` | `DelegationIsRightHolds`, `TimeoutIsJustifiedHolds` | `Delegation` |
| `CliStorageProofs` | `TaskIsSentOnceHolds`, `StorageIsFaithfulHolds` | `Cli` with `Daemon`, `Storage` |

Where a module has no specification of its own, because its run instantiates it together
with others, the proof module states it (`KeySpec`, `TransportSpec`, ...).  It is the
initial predicate and the next-state relation, without the bounds that the instance adds.

Modules with many actions are proved in two moves.  A few kinds of steps say what an
action may do to the variables the invariant is about, and a lemma shows that every
step is of one of these kinds; each conjunct of the invariant is then shown to survive
each kind.

**The channel.**  None of the properties is inductive by itself.

- `LamportCondition`: a peer's next message takes its timestamp from the clock and its
  history, later, from `localHistory`.  `StampsAhead` says that the timestamp a call holds
  is later than every entry it knew when it took it, and `ClockAhead` adds that the clock is at least as late as
  every entry of the local history, every message being sent and every message in the
  incoming buffer.  The buffer belongs in it because a message that leaves the buffer
  enters the history without touching the clock.
- `DirectDeliveryIsFresh`: `RecognisesDelivered` adds that a filter that was not emptied
  has the bits of everything the peer handed over.  Any hash functions will do.
- `CausalDelivery`: `FilterIsExact` says that a filter holds an id with all of its bits or
  with none of its own, and holds only content that was sent or handed over; `ScanKeepsUp`
  says of a scan in progress that what it has passed without a delivery still waits.
- `AckedIsSeenElsewhere`: `SentFilters` carries the same over to the filters in messages.
- `BuffersBounded` needs the types of all buffers, so `BoundInv` is `TypeOK` and the bounds.

`CausalDeliveryHolds` and `AckedIsSeenElsewhereHolds` have hypotheses, all true of the
instance of `sds_channel`.  `ExactFilter`: every id has a bit of its own.  With false
positives both fail, for the code takes "probably seen" for seen.  `DistinctPayloads`: no
ephemeral message has the payload, and with it the id, of a content message.
`~SelfDelivery`, for acknowledgements only: see the disagreements above.

**Task intake.**  `NothingVanishes` is strengthened to follow a task through the phases
of a call.  `PaidInFull` needs that whatever has passed `verify_payment` has paid, and,
without overlap, that its hash is in `seen_tx_hashes` and passed with one task.
`SurfacedOnce` needs that without overlap, and with a filter that was not emptied, a
task of which no copy was let in beside a waiting one is in one place only (`Singly`):
the buffer, what `receive` has delivered, the tasks found, the verified ones, or
returned; and that one that has left the buffer is known to the filter.  `AdmissionRespectsTrust` is an action
property.

**Host state.**  `KeyInv`: what a start knows of a file at each place in its code, and
that nobody who looked before a secret was there is left to overwrite it.  `FfiInv`:
which node a thread may hold where, and that the `OnceLock` is set once.  `TrustInv`: the
daemon's list differs from its file only while a handler has yet to save, and a handler
about to add finds the list enforced unless somebody asked otherwise.  `SessionInv`: the
`last_seen` of a session in the map is when a task of it was last received.

**Agents and backends.**  `LoadIsExact` needs that the loop has at most one task in hand,
and where.  `LateCallsAreHarmless` needs `OwnResults`, that a slot holds what the module
answered to the call it belongs to, and `QuitIsLast`.  `ChainIsReadRight`: what
`parse_transfer_log` gives is backed by a log of the receipt, cutting an amount to the
width of an integer never makes it larger, and the spelling of an accepted task is
among those used.

**Transports.**  The refinement mapping is the identity on the variables of
`TransportPromise`.  A step that hands a message to a receiver must show that it is of the
topic, later than all it got, and so new.  `OrderInv` says that of everything between the
network and the receiver: channel, answer of a poll, unbounded channel, queue of events,
events in hand outside the lock, each part later than the one before it, and for REST that
the poll task has seen the payloads it passed.  `NothingLost` needs `StandInv` on top:
calls for a topic follow each other unless `raced` says otherwise, a receiver that
stands is the registered sender of its topic, and what was published since is on
its way to this very receiver.

**Delegation.**  `DelegationInv` follows a subtask from the call to the agent and its answer
back: a task is where it was sent (`Addressed`), what reaches the node is an answer, and one
that claims success is of a subtask that was run or turned away (`AnswersTrue`,
`ResultsTrue`), nothing is known of a subtask that was not sent (`AsksOnce`), and the
answer a call waits for is in the queue if it has come and nobody took it (`Awaited`, which
`TimeoutIsJustified`, an action property, needs).  That the choice of a peer is right is a lemma
about `Choices`, for every view of the peers.

**Commands.**  `CliInv` says of each place in a command what its connection and its task
are: a command has a connection exactly where it waits, its request is the one of its
command, and the daemon's answer is a payload only after it has published the task
(`Served`).  A daemon that crashes closes its connections, and a command does not ask again.
`AstrayInv` follows a command with the placeholder: it has found a daemon, that daemon had
bound the socket, and it gets to its own node only when the daemon cannot be reached; an
incarnation that has lost the socket never gets it back.

**Storage.**  `OpRight` says what an operation that met no hazard holds at each place: the
session of an upload has the first chunks in order, the channels of a download of the
Logos Core backend hold the chunks between those collected and those emitted.  `Alone` is
why: nobody else listens to the same events or uses the same file.  The proof showed that a
second caller is not the only hazard.  An operation that has left with the event of another
is still due its own, and the next listener gets that one; `Clash` names it.  It takes three
workers, so the run, which has two, had not shown it.

**Assumptions.**  Each is an `ASSUME` of the module of its constants, evaluated by TLC in
the run of that module: bounds and capacities are natural numbers, a capacity
is not zero where the code has a positive constant, the value that stands for
nobody, nothing or no topic is not one of the others (`KeyAssumption`, `ShimAssumption`,
`TransportAssumption`), the kinds of storage are the four backends (`StorageAssumption`), the payloads of a channel are a finite set, and `2 ^ Width` is a
positive number, which the provers do not compute.

**Model-checked only.**

- Liveness (`EverySendReturns`, `EveryCallReturns`, `StreamCompletes`,
  `AcceptedIsReported`, `ExecutionEnds`, `EveryCommandEnds`): fairness and `ENABLED` are
  beyond TLAPS.
- What a recursive definition or a fold computes: `ReadersSeeStream` and `KeepsPromise`
  (`SortSeq`, `FoldLeft`), `Base64IsStandard`, `MetricsAddUp` (sums), `OneRowPerTear` (the
  lines of a file), `PresenceIsTrue` (a batch folded into the map), `SendToAgentTellsTrue`
  (`MergeCard` folded over cards), `SendResultIsTrue` (the fixed point of
  `resolve_buffered`).
- `DiscoveryKeepsUp`, `EnvelopeIsTransparent`, `SealedLoadIsTrue`: no proof has been
  attempted.

## Not modelled

- Text: what commands print, JSON and TOML layout, log messages; the length prefix of
  the daemon's frames.
- Cryptography: a cipher is a record that only the right key opens, a signature fits or
  does not.
- `register_agent` (a dry run that changes nothing) and `lez.rs` (a stub that returns
  errors).
- The QML user interfaces, examples, demos and scripts.
- The request `Discover` of the daemon, which no client in the repository sends; the
  registration of the Logos Core plugin.
- Threads that interleave inside one `receive` of a channel.
