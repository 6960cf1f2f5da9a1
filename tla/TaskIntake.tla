------------------------------ MODULE TaskIntake ------------------------------
(***************************************************************************)
(* How a node takes in tasks: poll_tasks with extract_task,                *)
(* accept_or_drop and maybe_fetch_offloaded (tasks/poll.rs), and           *)
(* verify_payment (tasks/payment.rs), called by several callers at once    *)
(* (the inbox loop and every delegation in progress), while the trust list *)
(* changes.                                                                *)
(*                                                                         *)
(* A message on the wire is named by the task in it; the constants say how *)
(* each is wrapped and what it claims.  Which SDS messages have to wait    *)
(* for others, and for how long, is SdsChannel's matter: here any of them  *)
(* may have to, and any receive may release any that wait.  The filter is  *)
(* the set of ids it was told since it was emptied last; it is emptied     *)
(* when it has been told enough of them, those of other messages of the    *)
(* channel included, so at any time.  A caller runs on its own thread:     *)
(* other callers step in between where the code releases a lock or awaits. *)
(* Sessions are modelled in module Sessions.                               *)
(***************************************************************************)
EXTENDS Integers, Sequences, FiniteSets, Functions

CONSTANTS
    Callers,         \* callers of poll_tasks
    Tasks, Senders,
    Txs, NoTx,       \* hashes of payments, as strings
    Transactions,    \* of the chain
    From,            \* sender of a task
    Wrap,            \* "sds" or "raw"
    Body,            \* "plain", "cid" (offloaded to storage) or "other" (no task in it)
    Tx,              \* payment_tx of a task, NoTx if it has none
    Claimed,         \* payment_amount of a task
    Requirements,    \* amounts a node may require
    Normalised,      \* the transaction that a hash names once verify_transfer has put 0x in front
    OnChain,         \* what the chain has of it: the amount transferred to the receiving account
    MaxCopies,       \* bound: messages that arrive
    MaxResets,       \* bound: times the filter is emptied
    MaxTrustChanges  \* bound: changes of the trust list

ASSUME IntakeAssumption ==
    /\ NoTx \notin Txs
    /\ From \in [Tasks -> Senders]
    /\ Wrap \in [Tasks -> {"sds", "raw"}]
    /\ Body \in [Tasks -> {"plain", "cid", "other"}]
    /\ Tx \in [Tasks -> Txs \cup {NoTx}]
    /\ Claimed \in [Tasks -> Nat]
    /\ Requirements \subseteq Nat
    /\ Normalised \in [Txs -> Transactions]
    /\ OnChain \in [Transactions -> Nat]
    /\ MaxCopies \in Nat /\ MaxResets \in Nat
    /\ MaxTrustChanges \in Nat

VARIABLES
    subscribed,  \* task_rx is Some
    queue,       \* messages waiting in task_rx
    seen,        \* ids in the filter of the channel
    waiting,     \* incoming_buffer of the channel: how many copies of a message wait in it
    pc,          \* where a caller is in poll_tasks
    batch,       \* raw_messages a caller has still to process
    content,     \* what receive delivered and the caller has still to look at, or a raw envelope
    tasks,       \* tasks a caller has accepted, later has still to verify
    verified,    \* verified_tasks of a caller
    mode,        \* enforcement mode of the trust list
    trusted,     \* senders on the trust list
    required,    \* PaymentConfig.required_amount; 0 also stands for no PaymentConfig
    verifyOnChain,  \* PaymentConfig.verify_on_chain
    seenTx,      \* seen_tx_hashes
    arrived, trustChanges, fetchErrors,
    resets,      \* how often the filter was emptied
    surfaced,    \* history: how often poll_tasks returned a task
    refused,     \* history: tasks turned away, by trust, payment or content
    doubled,     \* history: tasks of which a copy was let in while another waited in the buffer
    overlap      \* history: a call of poll_tasks began while another was in progress

caller == <<pc, batch, content, tasks, verified>>
channel == <<seen, waiting, resets, doubled>>
payment == <<required, verifyOnChain>>
config == <<mode, trusted, trustChanges, payment>>
traffic == <<arrived, overlap>>
vars == <<subscribed, queue, channel, caller, config, seenTx, traffic, fetchErrors,
          surfaced, refused>>

Modes == {"off", "log", "enforce"}
Places == {"idle", "messages", "receive", "resolve", "contents", "accept", "mode", "verify", "pay"}

Init ==
    /\ subscribed = FALSE
    /\ queue = <<>>
    /\ seen = {} /\ waiting = [t \in Tasks |-> 0] /\ resets = 0 /\ doubled = {}
    /\ pc = [p \in Callers |-> "idle"]
    /\ batch = [p \in Callers |-> <<>>]
    /\ content = [p \in Callers |-> <<>>]
    /\ tasks = [p \in Callers |-> <<>>]
    /\ verified = [p \in Callers |-> <<>>]
    /\ mode \in Modes
    /\ trusted \in SUBSET Senders
    /\ required \in Requirements
    /\ verifyOnChain \in IF required = 0 THEN {FALSE} ELSE BOOLEAN
    /\ seenTx = {}
    /\ arrived = 0 /\ trustChanges = 0 /\ fetchErrors = 0
    /\ surfaced = [t \in Tasks |-> 0]
    /\ refused = {}
    /\ overlap = FALSE

-------------------------------------------------------------------------------
(* Messages *)

Goto(p, place) == pc' = [pc EXCEPT ![p] = place]

\* The message a caller is at, and the content it is at.
Message(p) == Head(batch[p])
Current(p) == Head(content[p])

\* Where a caller goes with that much content to look at.
With(s) == IF s = <<>> THEN "messages" ELSE "contents"

NextContent(p) ==
    /\ content' = [content EXCEPT ![p] = Tail(@)]
    /\ Goto(p, With(content'[p]))

\* The transport puts a message in the queue of the subscription, possibly a second time.
Arrive(t) ==
    /\ subscribed
    /\ arrived < MaxCopies
    /\ arrived' = arrived + 1
    /\ queue' = Append(queue, t)
    /\ UNCHANGED <<subscribed, channel, caller, config, seenTx, fetchErrors, surfaced, refused,
                   overlap>>

\* Subscribe on the first call, then drain the queue, under the lock of task_rx.
Drain(p) ==
    /\ pc[p] = "idle"
    /\ subscribed' = TRUE
    /\ batch' = [batch EXCEPT ![p] = queue]
    /\ queue' = <<>>
    /\ Goto(p, "messages")
    /\ overlap' = (overlap \/ \E q \in Callers : pc[q] # "idle")
    /\ UNCHANGED <<channel, content, tasks, verified, config, seenTx, arrived, fetchErrors, surfaced,
                   refused>>

\* The filter is asked: receive for an SDS message, is_duplicate for a raw envelope.
CheckDuplicate(p) ==
    /\ pc[p] = "messages"
    /\ batch[p] # <<>>
    /\ IF Message(p) \in seen THEN batch' = [batch EXCEPT ![p] = Tail(@)] /\ UNCHANGED pc
       ELSE Goto(p, "receive") /\ UNCHANGED batch
    /\ UNCHANGED <<subscribed, queue, channel, content, tasks, verified, config, seenTx, traffic,
                   fetchErrors, surfaced, refused>>

\* The filter is told an id; the one that fills it up empties it.
SetInFilter(t) ==
    \/ seen' = seen \cup {t} /\ UNCHANGED resets
    \/ seen' = {} /\ resets < MaxResets /\ resets' = resets + 1

\* The filter is emptied by another message of the channel, sent or received.
OtherMessage ==
    /\ resets < MaxResets /\ resets' = resets + 1
    /\ seen' = {}
    /\ UNCHANGED <<subscribed, queue, waiting, doubled, caller, config, seenTx, traffic, fetchErrors,
                   surfaced, refused>>

LetIn(t) == doubled' = IF waiting[t] > 0 THEN doubled \cup {t} ELSE doubled

\* Mutant: the filter is not told about raw envelopes.
DeliverNowSdsOnly(p) ==
    /\ pc[p] = "receive"
    /\ IF Wrap[Message(p)] = "sds" THEN SetInFilter(Message(p)) ELSE UNCHANGED <<seen, resets>>
    /\ LetIn(Message(p))
    /\ content' = [content EXCEPT ![p] = <<Message(p)>>]
    /\ batch' = [batch EXCEPT ![p] = Tail(@)]
    /\ Goto(p, IF Wrap[Message(p)] = "sds" THEN "resolve" ELSE "contents")
    /\ UNCHANGED <<subscribed, queue, waiting, tasks, verified, config, seenTx, traffic, fetchErrors,
                   surfaced, refused>>

\* A raw envelope, and an SDS message that waits for nothing: the filter is told.
DeliverNow(p) ==
    /\ pc[p] = "receive"
    /\ SetInFilter(Message(p))
    /\ LetIn(Message(p))
    /\ content' = [content EXCEPT ![p] = <<Message(p)>>]
    /\ batch' = [batch EXCEPT ![p] = Tail(@)]
    /\ Goto(p, IF Wrap[Message(p)] = "sds" THEN "resolve" ELSE "contents")
    /\ UNCHANGED <<subscribed, queue, waiting, tasks, verified, config, seenTx, traffic, fetchErrors,
                   surfaced, refused>>

\* An SDS message that has to wait is put in the buffer; the filter is not told.
Buffer(p) ==
    /\ pc[p] = "receive"
    /\ Wrap[Message(p)] = "sds"
    /\ LetIn(Message(p))
    /\ waiting' = [waiting EXCEPT ![Message(p)] = @ + 1]
    /\ batch' = [batch EXCEPT ![p] = Tail(@)]
    /\ Goto(p, "resolve")
    /\ UNCHANGED <<subscribed, queue, seen, resets, content, tasks, verified, config, seenTx, traffic,
                   fetchErrors, surfaced, refused>>

\* resolve_buffered: messages that wait no longer are delivered, and the filter told.  It is not
\* asked: a second copy in the buffer is delivered like the first.
Release(p, t) ==
    /\ pc[p] = "resolve"
    /\ waiting[t] > 0
    /\ waiting' = [waiting EXCEPT ![t] = @ - 1]
    /\ SetInFilter(t)
    /\ content' = [content EXCEPT ![p] = Append(@, t)]
    /\ UNCHANGED <<subscribed, queue, doubled, pc, batch, tasks, verified, config, seenTx, traffic,
                   fetchErrors, surfaced, refused>>

\* receive returns what it delivered.
Received(p) ==
    /\ pc[p] = "resolve"
    /\ Goto(p, With(content[p]))
    /\ UNCHANGED <<subscribed, queue, channel, batch, content, tasks, verified, config, seenTx,
                   traffic, fetchErrors, surfaced, refused>>

\* Mutant: offloaded tasks are skipped like content that is no task.
ExtractPlainOnly(p) ==
    /\ pc[p] = "contents"
    /\ IF Body[Current(p)] = "plain" THEN Goto(p, "accept") /\ UNCHANGED content ELSE NextContent(p)
    /\ refused' = IF Body[Current(p)] = "other" THEN refused \cup {Current(p)} ELSE refused
    /\ UNCHANGED <<subscribed, queue, channel, batch, tasks, verified, config, seenTx, traffic,
                   fetchErrors, surfaced>>

\* An SDS message is acknowledged (ReliableSend).  extract_task: content that is no task is skipped,
\* an offloaded one is fetched.
Extract(p) ==
    /\ pc[p] = "contents"
    /\ IF Body[Current(p)] = "other"
       THEN NextContent(p) /\ refused' = refused \cup {Current(p)}
       ELSE Goto(p, "accept") /\ UNCHANGED <<content, refused>>
    /\ UNCHANGED <<subscribed, queue, channel, batch, tasks, verified, config, seenTx, traffic,
                   fetchErrors, surfaced>>

\* The fetch fails: poll_tasks returns the error, and with it go the rest of what was delivered, the
\* rest of the batch and what was accepted of it.
FetchError(p) ==
    /\ pc[p] = "contents"
    /\ Body[Current(p)] = "cid"
    /\ fetchErrors' = fetchErrors + 1
    /\ batch' = [batch EXCEPT ![p] = <<>>]
    /\ content' = [content EXCEPT ![p] = <<>>]
    /\ tasks' = [tasks EXCEPT ![p] = <<>>]
    /\ Goto(p, "idle")
    /\ UNCHANGED <<subscribed, queue, channel, verified, config, seenTx, traffic, surfaced,
                   refused>>

-------------------------------------------------------------------------------
(* Trust: accept_or_drop *)

\* Mutant: an empty trust list lets everyone in.
IsTrustedOrEmpty(t) == mode = "off" \/ trusted = {} \/ From[t] \in trusted

IsTrusted(t) == mode = "off" \/ From[t] \in trusted

Admit(p) ==
    /\ tasks' = [tasks EXCEPT ![p] = Append(@, Current(p))]
    /\ NextContent(p)
    /\ UNCHANGED refused

\* The first read of the trust list.
Accept(p) ==
    /\ pc[p] = "accept"
    /\ IF IsTrusted(Current(p)) THEN Admit(p)
       ELSE Goto(p, "mode") /\ UNCHANGED <<content, tasks, refused>>
    /\ UNCHANGED <<subscribed, queue, channel, batch, verified, config, seenTx, traffic, fetchErrors,
                   surfaced>>

\* The second read, of the mode alone: only Enforce drops.
AcceptByMode(p) ==
    /\ pc[p] = "mode"
    /\ IF mode = "enforce"
       THEN /\ refused' = refused \cup {Current(p)}
            /\ NextContent(p)
            /\ UNCHANGED tasks
       ELSE Admit(p)
    /\ UNCHANGED <<subscribed, queue, channel, batch, verified, config, seenTx, traffic, fetchErrors,
                   surfaced>>

\* trust_set_mode, trust_add and trust_remove, by the daemon.
ChangeTrust ==
    /\ trustChanges < MaxTrustChanges
    /\ trustChanges' = trustChanges + 1
    /\ \/ mode' \in Modes \ {mode} /\ UNCHANGED trusted
       \/ \E f \in Senders \ trusted : trusted' = trusted \cup {f} /\ UNCHANGED mode
       \/ \E f \in trusted : trusted' = trusted \ {f} /\ UNCHANGED mode
    /\ UNCHANGED <<subscribed, queue, channel, caller, seenTx, traffic, fetchErrors, surfaced,
                   refused, payment>>

-------------------------------------------------------------------------------
(* Payment: verify_payment *)

\* All messages are processed: verify what was accepted.
StartVerify(p) ==
    /\ pc[p] = "messages"
    /\ batch[p] = <<>>
    /\ Goto(p, "verify")
    /\ UNCHANGED <<subscribed, queue, channel, batch, content, tasks, verified, config, seenTx, traffic,
                   fetchErrors, surfaced, refused>>

\* verify_payment returns for the first task.
Verified(p, ok) ==
    LET t == Head(tasks[p]) IN
    /\ tasks' = [tasks EXCEPT ![p] = Tail(@)]
    /\ verified' = IF ok THEN [verified EXCEPT ![p] = Append(@, t)] ELSE verified
    /\ refused' = IF ok THEN refused ELSE refused \cup {t}
    /\ Goto(p, "verify")

\* Mutant: replayed payments are not looked up.
CheckUnseen(t) == Tx[t] # NoTx

\* A task with a payment that was not seen before goes on to have the amount checked.  The hash is
\* looked up as the task spells it.
CheckSeen(t) == Tx[t] # NoTx /\ Tx[t] \notin seenTx

VerifyPayment(p) ==
    /\ pc[p] = "verify"
    /\ tasks[p] # <<>>
    /\ LET t == Head(tasks[p]) IN
       CASE required = 0 -> Verified(p, TRUE)
         [] required > 0 /\ CheckSeen(t) ->
                Goto(p, "pay") /\ UNCHANGED <<tasks, verified, refused>>
         [] OTHER -> Verified(p, FALSE)
    /\ UNCHANGED <<subscribed, queue, channel, batch, content, config, seenTx, traffic, fetchErrors,
                   surfaced>>

\* The amount is what the task claims or, on chain, what verify_transfer finds.
AmountSuffices(t) ==
    IF verifyOnChain THEN OnChain[Normalised[Tx[t]]] >= required ELSE Claimed[t] >= required

\* After the await: the payment is marked as seen and the task passes, or it is rejected,
\* also when verify_transfer fails.
Pay(p) ==
    /\ pc[p] = "pay"
    /\ LET t == Head(tasks[p]) IN
       \/ /\ AmountSuffices(t)
          /\ seenTx' = seenTx \cup {Tx[t]}
          /\ Verified(p, TRUE)
       \/ /\ ~AmountSuffices(t) \/ verifyOnChain
          /\ UNCHANGED seenTx
          /\ Verified(p, FALSE)
    /\ UNCHANGED <<subscribed, queue, channel, batch, content, config, traffic, fetchErrors, surfaced>>

\* poll_tasks returns the verified tasks.
ReturnTasks(p) ==
    /\ pc[p] = "verify"
    /\ tasks[p] = <<>>
    /\ surfaced' = [t \in Tasks |->
                      surfaced[t] + Cardinality({i \in DOMAIN verified[p] : verified[p][i] = t})]
    /\ verified' = [verified EXCEPT ![p] = <<>>]
    /\ Goto(p, "idle")
    /\ UNCHANGED <<subscribed, queue, channel, batch, content, tasks, config, seenTx, traffic, fetchErrors,
                   refused>>

-------------------------------------------------------------------------------

PollTasks(p) ==
    \/ Drain(p) \/ CheckDuplicate(p) \/ DeliverNow(p) \/ Buffer(p) \/ Received(p)
    \/ \E t \in Tasks : Release(p, t)
    \/ Extract(p) \/ FetchError(p)
    \/ Accept(p) \/ AcceptByMode(p) \/ StartVerify(p) \/ VerifyPayment(p) \/ Pay(p)
    \/ ReturnTasks(p)

Next ==
    \/ \E p \in Callers : PollTasks(p)
    \/ \E t \in Tasks : Arrive(t)
    \/ ChangeTrust \/ OtherMessage

Spec == Init /\ [][Next]_vars

-------------------------------------------------------------------------------
(* Properties *)

\* Types of the queue, of the callers' progress and of the trust list.
TypeOK ==
    /\ subscribed \in BOOLEAN
    /\ queue \in Seq(Tasks)
    /\ seen \subseteq Tasks
    /\ waiting \in [Tasks -> 0..MaxCopies] /\ resets \in 0..MaxResets /\ doubled \subseteq Tasks
    /\ pc \in [Callers -> Places]
    /\ batch \in [Callers -> Seq(Tasks)]
    /\ content \in [Callers -> Seq(Tasks)]
    /\ tasks \in [Callers -> Seq(Tasks)]
    /\ verified \in [Callers -> Seq(Tasks)]
    /\ \A p \in Callers : pc[p] = "receive" => batch[p] # <<>>
    /\ \A p \in Callers : pc[p] \in {"contents", "accept", "mode"} => content[p] # <<>>
    /\ \A p \in Callers : pc[p] = "pay" => tasks[p] # <<>>
    /\ mode \in Modes /\ trusted \subseteq Senders
    /\ seenTx \subseteq Txs
    /\ arrived \in 0..MaxCopies /\ fetchErrors \in 0..MaxCopies
    /\ trustChanges \in 0..MaxTrustChanges
    /\ surfaced \in [Tasks -> 0..MaxCopies]
    /\ refused \subseteq Tasks
    /\ required \in Requirements /\ verifyOnChain \in BOOLEAN /\ overlap \in BOOLEAN

\* The tasks a caller holds between draining the queue and returning.
InHand(p) == Range(content[p]) \cup Range(tasks[p]) \cup Range(verified[p])

\* No task disappears inside poll_tasks: once the filter knows it, so that it will never be
\* processed again, it is in the hands of a caller, was returned, or was refused for its
\* content, its sender or its payment.  A failed fetch is the one exception.
NothingVanishes ==
    fetchErrors = 0 =>
        \A t \in seen : surfaced[t] > 0 \/ t \in refused \/ \E p \in Callers : t \in InHand(p)

\* As long as calls of poll_tasks follow each other and the filter is not emptied, a task is returned
\* once, however often its message arrives and whether it had to wait or not; but for a task of which
\* a copy comes while another waits in the buffer: the filter knows neither.
SurfacedOnce == ~overlap /\ resets = 0 => \A t \in Tasks \ doubled : surfaced[t] <= 1

\* A task returned under a payment requirement has paid at least the required amount, as claimed or,
\* with verification, on chain; and as long as calls follow each other, no two tasks name the same
\* hash.  (A hash is the string in the task: with and without 0x it names one transaction.)
PaidInFull ==
    required > 0 =>
        /\ \A t \in Tasks : surfaced[t] > 0 =>
               /\ Tx[t] # NoTx
               /\ IF verifyOnChain THEN OnChain[Normalised[Tx[t]]] >= required
                  ELSE Claimed[t] >= required
        /\ ~overlap =>
               \A t, u \in Tasks : t # u /\ surfaced[t] > 0 /\ surfaced[u] > 0 => Tx[t] # Tx[u]

\* A caller takes up a task only while its sender is on the trust list or the mode does not
\* enforce it, whatever changes between the two reads of accept_or_drop.
AdmissionRespectsTrust ==
    [][\A p \in Callers :
           Len(tasks'[p]) > Len(tasks[p]) => mode # "enforce" \/ From[Current(p)] \in trusted]_vars
===============================================================================
