------------------------------ MODULE SdsChannel ------------------------------
(***************************************************************************)
(* The SDS MessageChannel (sds/channel.rs): peers that share one channel   *)
(* exchange content, sync and ephemeral messages over a transport that     *)
(* may delay, reorder, duplicate and lose them.  Each peer keeps a Lamport *)
(* clock, a bloom filter of the ids it has seen, a bounded local history   *)
(* from which the causal history of its next message is built, a buffer of *)
(* incoming messages with missing dependencies and a buffer of outgoing    *)
(* messages that wait for implicit acknowledgement.                        *)
(*                                                                         *)
(* Payloads stand for themselves; a message id is the hash of the payload, *)
(* or of the timestamp for a sync message, and hashes do not collide.  A   *)
(* call of send is split where it takes its timestamp, where it reads the  *)
(* history and the filter, and at its await (the publish);                 *)
(* resolve_buffered is split at every buffered message: calls of the same  *)
(* peer run beside them.  A peer runs one receive at a time.               *)
(***************************************************************************)
EXTENDS SdsBloom, Sequences, FiniteSets, Functions

CONSTANTS
    Peers,
    Payloads,        \* payloads of content messages
    Ephemerals,      \* payloads of ephemeral messages
    InitialClocks,   \* wall clock readings a channel may start from
    HistorySize,     \* causal_history_size
    AcksThreshold,   \* possible_acks_threshold
    IncomingMax,     \* INCOMING_BUFFER_MAX
    OutgoingMax,     \* OUTGOING_BUFFER_MAX
    PossibleAcksMax, \* POSSIBLE_ACKS_MAX
    SelfDelivery,    \* does the transport hand a peer its own messages?
    MaxStamped,      \* bound: sends between next_timestamp and build_causal_history
    MaxTs,           \* bound: no message is sent with a later timestamp
    MaxMessages,     \* bound: messages published
    MaxFaults        \* bound: duplications, restarts and publishes that fail outright

ASSUME ChannelAssumption ==
    /\ IsFiniteSet(Payloads)
    /\ InitialClocks \subseteq Nat
    /\ HistorySize \in Nat
    /\ AcksThreshold \in Nat
    /\ IncomingMax \in Nat \ {0}
    /\ OutgoingMax \in Nat \ {0}
    /\ PossibleAcksMax \in Nat
    /\ SelfDelivery \in BOOLEAN
    /\ MaxStamped \in Nat
    /\ MaxTs \in Nat
    /\ MaxMessages \in Nat
    /\ MaxFaults \in Nat

ContentId(payload) == <<"payload", payload>>
SyncId(ts) == <<"timestamp", ts>>

ContentIds == {ContentId(x) : x \in Payloads}
OtherIds == {ContentId(x) : x \in Ephemerals} \cup {SyncId(t) : t \in 1..MaxTs}
MessageId == ContentIds \cup OtherIds

ASSUME BitsAssumption == \A id \in MessageId : BitsOf(id) \subseteq Bits

\* HistoryEntry without its retrieval hint, which is never set.
Entry == [id : ContentIds, ts : Nat]

Content == [type : {"content"}, id : ContentIds, sender : Peers, ts : Nat,
            history : Seq(Entry), bloom : SUBSET Bits, repair : {{}}]
Sync == [type : {"sync"}, id : OtherIds, sender : Peers, ts : Nat,
         history : Seq(Entry), bloom : SUBSET Bits, repair : SUBSET ContentIds]
Ephemeral == [type : {"ephemeral"}, id : OtherIds, sender : Peers, ts : {0},
              history : {<<>>}, bloom : {{}}, repair : {{}}]
SdsMessage == Content \cup Sync \cup Ephemeral

\* A send that has its timestamp; known is what was in the history then, for the properties.
Stamp == [ts : 1..MaxTs, known : SUBSET Entry]

\* What receive returned: a message that was in order at once, or one from the buffer.
Delivery == [msg : Content, via : {"receive", "buffer"}]

VARIABLES
    \* --- MessageChannel, one per peer
    lamport,       \* lamport_timestamp
    bloom,         \* bloom
    localHistory,  \* local_history, oldest first
    outgoing,      \* outgoing_buffer
    incoming,      \* incoming_buffer
    possibleAcks,  \* possible_acks; 0 stands for an absent entry
    scan,          \* where resolve_buffered is in the buffer; pos 0 when it is not running
    stamped,       \* calls of send, send_sync and send_repair_request that have their timestamp only
    sending,       \* messages of the calls of send that wait for publish to return
    \* --- the transport
    published,     \* every message ever published
    net,           \* copies in flight, <<addressee, message>>
    faults,        \* duplications, restarts and failed publishes so far
    \* --- what happened, for the properties only
    delivered,     \* what receive returned, in order, and whether directly or from the buffer
    ownSent,       \* ids recorded by send
    acked,         \* ids that check_outgoing_acks took for acknowledged
    forgot,        \* what has emptied the filter so far: "reset", "restart"
    between        \* <<m, e>>: e was recorded after m got its timestamp and before its history was built

chanVars == <<lamport, bloom, localHistory, outgoing, incoming, possibleAcks, scan, stamped, sending>>
netVars == <<published, net, faults>>
ghostVars == <<delivered, ownSent, acked, forgot, between>>
vars == <<chanVars, netVars, ghostVars>>

\* The state of resolve_buffered: its position and made_progress.
ScanState == [pos : Nat, progress : BOOLEAN]
Idle == [pos |-> 0, progress |-> FALSE]
Ids(s) == {s[i].id : i \in DOMAIN s}
DeliveredIds(p) == {delivered[p][i].msg.id : i \in DOMAIN delivered[p]}

-------------------------------------------------------------------------------
(* Helpers of the channel *)

\* build_causal_history: the last entries of the history, newest first.
BuildCausalHistory(h) ==
    LET n == IF Len(h) < HistorySize THEN Len(h) ELSE HistorySize
    IN  [i \in 1..n |-> h[Len(h) + 1 - i]]

\* Mutant: the history is never shortened.
RecordUnbounded(h, id, ts) == Append(h, [id |-> id, ts |-> ts])

\* record_in_history: at most one entry is over the bound.
RecordInHistory(h, id, ts) ==
    LET g == Append(h, [id |-> id, ts |-> ts])
    IN  IF Len(g) > 2 * HistorySize THEN Tail(g) ELSE g

\* Mutant: the remote timestamp is ignored.
TickOnly(clock, ts) == clock + 1

UpdateTimestamp(clock, ts) == (IF clock > ts THEN clock ELSE ts) + 1

\* Mutant: the newest dependency is skipped.
OlderDependenciesSatisfied(b, history) ==
    \A i \in 2..Len(history) : BloomCheck(b, history[i].id)

DependenciesSatisfied(b, history) ==
    \A i \in DOMAIN history : BloomCheck(b, history[i].id)

\* The push of a capped Vec: the oldest element makes room.
PushCapped(s, e, max) == Append(IF Len(s) >= max THEN Tail(s) ELSE s, e)

RemoveNth(s, i) == SubSeq(s, 1, i - 1) \o SubSeq(s, i + 1, Len(s))

\* retain: what is left of a Vec without the given ids, in its order.  (The set has one element.)
Retained(s, ids) ==
    LET left == {i \in DOMAIN s : s[i].id \notin ids}
        n == Cardinality(left)
    IN  {[k \in 1..n |-> s[at[k]]] : at \in {f \in [1..n -> left] :
                                            \A j, k \in 1..n : j < k => f[j] < f[k]}}

\* bloom.set, and whether it emptied the filter.
Remember(p, id) ==
    /\ bloom' = [bloom EXCEPT ![p] = BloomSet(@, id)]
    /\ forgot' = [forgot EXCEPT ![p] = IF BloomResets(bloom[p]) THEN @ \cup {"reset"} ELSE @]

Copies(m) == {<<q, m>> : q \in {r \in Peers : SelfDelivery \/ r # m.sender}}

Publish(m) ==
    /\ Cardinality(published) < MaxMessages
    /\ published' = published \cup {m}
    /\ net' = net \cup Copies(m)
    /\ UNCHANGED faults

-------------------------------------------------------------------------------
Init ==
    /\ lamport \in [Peers -> InitialClocks]
    /\ bloom = [p \in Peers |-> BloomNew]
    /\ localHistory = [p \in Peers |-> <<>>]
    /\ outgoing = [p \in Peers |-> <<>>]
    /\ incoming = [p \in Peers |-> <<>>]
    /\ possibleAcks = [p \in Peers |-> [id \in ContentIds |-> 0]]
    /\ scan = [p \in Peers |-> Idle]
    /\ stamped = [p \in Peers |-> {}]
    /\ sending = [p \in Peers |-> {}]
    /\ published = {}
    /\ net = {}
    /\ faults = 0
    /\ delivered = [p \in Peers |-> <<>>]
    /\ ownSent = [p \in Peers |-> {}]
    /\ acked = [p \in Peers |-> {}]
    /\ forgot = [p \in Peers |-> {}]
    /\ between = {}

-------------------------------------------------------------------------------
(* Sending *)

ContentMessage(p, payload, ts) ==
    [type |-> "content", id |-> ContentId(payload), sender |-> p, ts |-> ts,
     history |-> BuildCausalHistory(localHistory[p]), bloom |-> BloomToBytes(bloom[p]),
     repair |-> {}]

SyncMessage(p, missing, ts) ==
    [type |-> "sync", id |-> SyncId(ts), sender |-> p, ts |-> ts,
     history |-> BuildCausalHistory(localHistory[p]), bloom |-> BloomToBytes(bloom[p]),
     repair |-> missing]

\* The calls that have their timestamp only; a call is begun only if it may still publish.
Stamped == {c \in Peers \X UNION Range(stamped) : c[2] \in stamped[c[1]]}
MayBegin ==
    /\ Cardinality(Stamped) < MaxStamped
    /\ Cardinality(published) + Cardinality(Stamped) < MaxMessages

\* next_timestamp, the first step of send, send_sync and send_repair_request.
NextTimestamp(p) ==
    /\ lamport[p] < MaxTs
    /\ MayBegin
    /\ lamport' = [lamport EXCEPT ![p] = @ + 1]
    /\ stamped' = [stamped EXCEPT ![p] =
                      @ \cup {[ts |-> lamport[p] + 1, known |-> Range(localHistory[p])]}]
    /\ UNCHANGED <<bloom, localHistory, outgoing, incoming, possibleAcks, scan, sending, netVars,
                   ghostVars>>

Unstamp(p, s) == s \in stamped[p] /\ stamped' = [stamped EXCEPT ![p] = @ \ {s}]

Note(m, s) == between' = between \cup {<<m, e>> : e \in Range(m.history) \ s.known}

\* send from build_causal_history to the await: the message is out, its own sender does not know it
\* yet.  Payloads carry fresh task ids, so no other copy of this one is pending.
SendPublish(p, payload, s) ==
    LET m == ContentMessage(p, payload, s.ts)
    IN  /\ m.id \notin Ids(outgoing[p]) \cup {x.id : x \in sending[p]}
        /\ Unstamp(p, s)
        /\ sending' = [sending EXCEPT ![p] = @ \cup {m}]
        /\ Publish(m)
        /\ Note(m, s)
        /\ UNCHANGED <<lamport, bloom, localHistory, outgoing, incoming, possibleAcks, scan,
                       delivered, ownSent, acked, forgot>>

\* send after the await: record the message and keep it for retransmission.
SendComplete(p, m) ==
    /\ m \in sending[p]
    /\ sending' = [sending EXCEPT ![p] = @ \ {m}]
    /\ Remember(p, m.id)
    /\ localHistory' = [localHistory EXCEPT ![p] = RecordInHistory(@, m.id, m.ts)]
    /\ outgoing' = [outgoing EXCEPT ![p] = PushCapped(@, m, OutgoingMax)]
    /\ ownSent' = [ownSent EXCEPT ![p] = @ \cup {m.id}]
    /\ UNCHANGED <<lamport, incoming, possibleAcks, scan, stamped, netVars, delivered, acked, between>>

\* publish reports an error although the message went out: send returns early.
SendError(p, m) ==
    /\ m \in sending[p]
    /\ sending' = [sending EXCEPT ![p] = @ \ {m}]
    /\ UNCHANGED <<lamport, bloom, localHistory, outgoing, incoming, possibleAcks, scan, stamped,
                   netVars, ghostVars>>

\* publish reports an error and nothing went out: only the timestamp is consumed.
\* The same holds of a failed send_sync and send_repair_request.
SendFail(p, s) ==
    /\ faults < MaxFaults
    /\ faults' = faults + 1
    /\ Unstamp(p, s)
    /\ UNCHANGED <<lamport, bloom, localHistory, outgoing, incoming, possibleAcks, scan, sending,
                   published, net, ghostVars>>

\* A sync message from build_causal_history on; the sender does not record its id.
PublishSync(p, missing, s) ==
    LET m == SyncMessage(p, missing, s.ts)
    IN  /\ Unstamp(p, s)
        /\ Publish(m)
        /\ Note(m, s)
        /\ UNCHANGED <<lamport, bloom, localHistory, outgoing, incoming, possibleAcks, scan, sending,
                       delivered, ownSent, acked, forgot>>

\* send_sync and send_batch_ack ask for nothing.
SendSync(p, s) == PublishSync(p, {}, s)

\* build_repair_requests for a buffered message, and send_repair_request.
SendRepairRequest(p, m, s) ==
    LET missing == {id \in Ids(m.history) : ~BloomCheck(bloom[p], id)}
    IN  m \in Range(incoming[p]) /\ PublishSync(p, missing, s)

\* Fire and forget: nothing is recorded.
SendEphemeral(p, payload) ==
    /\ Publish([type |-> "ephemeral", id |-> ContentId(payload), sender |-> p, ts |-> 0,
                history |-> <<>>, bloom |-> {}, repair |-> {}])
    /\ UNCHANGED <<chanVars, ghostVars>>

-------------------------------------------------------------------------------
(* Receiving *)

\* Mutant: the remote filter is not consulted.
AnyAckHits(p, m) == {id \in ContentIds : id \in Ids(outgoing[p])}

AckHits(p, m) ==
    {id \in ContentIds : id \in Ids(outgoing[p]) /\ BloomCheck(BloomFromBytes(m.bloom), id)}

\* check_outgoing_acks: one more hit for every outgoing message whose id the sender's
\* filter contains; at the threshold the message counts as acknowledged.
CheckOutgoingAcks(p, m) ==
    LET hits == AckHits(p, m)
        done == {id \in hits : possibleAcks[p][id] + 1 >= AcksThreshold}
        count == [id \in ContentIds |->
                    IF id \in done THEN 0
                    ELSE possibleAcks[p][id] + (IF id \in hits THEN 1 ELSE 0)]
        tracked == {id \in ContentIds : count[id] > 0}
    IN  /\ \E kept \in Retained(outgoing[p], done) : outgoing' = [outgoing EXCEPT ![p] = kept]
        /\ possibleAcks' = [possibleAcks EXCEPT ![p] =
                IF Cardinality(tracked) > PossibleAcksMax
                THEN [id \in ContentIds |-> 0]
                ELSE count]
        /\ acked' = [acked EXCEPT ![p] = @ \cup done]

\* resolve_buffered starts with the first message of the buffer, if there is one.
StartResolve(p, buffer) ==
    scan' = [scan EXCEPT ![p] = IF buffer = <<>> THEN Idle ELSE [pos |-> 1, progress |-> FALSE]]

\* Mutant: the delivered message is not put in the filter.
DeliverUnrecorded(p, m, via) ==
    /\ localHistory' = [localHistory EXCEPT ![p] = RecordInHistory(@, m.id, m.ts)]
    /\ delivered' = [delivered EXCEPT ![p] = Append(@, [msg |-> m, via |-> via])]
    /\ UNCHANGED <<bloom, forgot>>

Deliver(p, m, via) ==
    /\ Remember(p, m.id)
    /\ localHistory' = [localHistory EXCEPT ![p] = RecordInHistory(@, m.id, m.ts)]
    /\ delivered' = [delivered EXCEPT ![p] = Append(@, [msg |-> m, via |-> via])]

\* receive: the id was seen before.
ReceiveDuplicate(p, m) ==
    /\ BloomCheck(bloom[p], m.id)
    /\ UNCHANGED <<chanVars, ghostVars>>

\* receive: content whose dependencies are satisfied.
ReceiveInOrder(p, m) ==
    /\ m.type = "content"
    /\ ~BloomCheck(bloom[p], m.id)
    /\ DependenciesSatisfied(bloom[p], m.history)
    /\ CheckOutgoingAcks(p, m)
    /\ lamport' = [lamport EXCEPT ![p] = UpdateTimestamp(@, m.ts)]
    /\ Deliver(p, m, "receive")
    /\ StartResolve(p, incoming[p])
    /\ UNCHANGED <<incoming, stamped, sending, ownSent, between>>

\* receive: content that has to wait for its dependencies.
ReceiveOutOfOrder(p, m) ==
    /\ m.type = "content"
    /\ ~BloomCheck(bloom[p], m.id)
    /\ ~DependenciesSatisfied(bloom[p], m.history)
    /\ CheckOutgoingAcks(p, m)
    /\ lamport' = [lamport EXCEPT ![p] = UpdateTimestamp(@, m.ts)]
    /\ incoming' = [incoming EXCEPT ![p] = PushCapped(@, m, IncomingMax)]
    /\ StartResolve(p, incoming'[p])
    /\ UNCHANGED <<bloom, localHistory, stamped, sending, delivered, ownSent, forgot, between>>

ReceiveSync(p, m) ==
    /\ m.type = "sync"
    /\ ~BloomCheck(bloom[p], m.id)
    /\ CheckOutgoingAcks(p, m)
    /\ Remember(p, m.id)
    /\ lamport' = [lamport EXCEPT ![p] = UpdateTimestamp(@, m.ts)]
    /\ StartResolve(p, incoming[p])
    /\ UNCHANGED <<localHistory, incoming, stamped, sending, delivered, ownSent, between>>

ReceiveEphemeral(p, m) ==
    /\ m.type = "ephemeral"
    /\ ~BloomCheck(bloom[p], m.id)
    /\ Remember(p, m.id)
    /\ UNCHANGED <<lamport, localHistory, outgoing, incoming, possibleAcks, scan, stamped, sending,
                   delivered, ownSent, acked, between>>

Handle(p, m) ==
    \/ ReceiveDuplicate(p, m)
    \/ ReceiveInOrder(p, m)
    \/ ReceiveOutOfOrder(p, m)
    \/ ReceiveSync(p, m)
    \/ ReceiveEphemeral(p, m)

\* The transport hands over a copy, and may keep it to hand it over again.
Take(p, m, again, resent) ==
    /\ <<p, m>> \in net
    /\ scan[p] = Idle
    /\ again => faults < MaxFaults
    /\ faults' = IF again THEN faults + 1 ELSE faults
    /\ net' = (IF again THEN net ELSE net \ {<<p, m>>}) \cup UNION {Copies(x) : x \in resent}
    /\ UNCHANGED published

Receive(p, m, again) == Take(p, m, again, {}) /\ Handle(p, m)

\* What handle_repair_requests publishes again: requested messages still in the buffer.
ToResend(p, m) == {x \in published : x \in Range(outgoing[p]) /\ x.id \in m.repair}

\* receive_and_repair: the requests of the message first, then receive.
ReceiveAndRepair(p, m, again) ==
    /\ m.repair # {}
    /\ Take(p, m, again, ToResend(p, m))
    /\ Handle(p, m)

\* receive_and_repair: a publish fails, what follows it is skipped, receive included.
RepairError(p, m, again) ==
    \E resent \in SUBSET ToResend(p, m) :
        /\ resent # ToResend(p, m)
        /\ Take(p, m, again, resent)
        /\ UNCHANGED <<chanVars, ghostVars>>

\* resolve_buffered: the message at the scan position can be delivered.
ResolveDeliver(p) ==
    LET m == incoming[p][scan[p].pos]
    IN  /\ scan[p].pos \in DOMAIN incoming[p]
        /\ DependenciesSatisfied(bloom[p], m.history)
        /\ Deliver(p, m, "buffer")
        /\ incoming' = [incoming EXCEPT ![p] = RemoveNth(@, scan[p].pos)]
        /\ scan' = [scan EXCEPT ![p].progress = TRUE]
        /\ UNCHANGED <<lamport, outgoing, possibleAcks, stamped, sending, netVars, ownSent, acked,
                       between>>

\* resolve_buffered: the message at the scan position stays in the buffer.
ResolveKeep(p) ==
    /\ scan[p].pos \in DOMAIN incoming[p]
    /\ ~DependenciesSatisfied(bloom[p], incoming[p][scan[p].pos].history)
    /\ scan' = [scan EXCEPT ![p].pos = @ + 1]
    /\ UNCHANGED <<lamport, bloom, localHistory, outgoing, incoming, possibleAcks, stamped, sending,
                   netVars, ghostVars>>

\* resolve_buffered: the end of a pass; another one follows if this one delivered anything.
ResolvePassEnd(p) ==
    /\ scan[p].pos > Len(incoming[p])
    /\ IF scan[p].progress THEN StartResolve(p, incoming[p])
                           ELSE scan' = [scan EXCEPT ![p] = Idle]
    /\ UNCHANGED <<lamport, bloom, localHistory, outgoing, incoming, possibleAcks, stamped, sending,
                   netVars, ghostVars>>

Resolve(p) == ResolveDeliver(p) \/ ResolveKeep(p) \/ ResolvePassEnd(p)

-------------------------------------------------------------------------------
\* The process dies and starts again with a new channel (with_config): nothing is persisted.
Restart(p) ==
    /\ faults < MaxFaults
    /\ faults' = faults + 1
    /\ \E clock \in InitialClocks : lamport' = [lamport EXCEPT ![p] = clock]
    /\ bloom' = [bloom EXCEPT ![p] = BloomNew]
    /\ localHistory' = [localHistory EXCEPT ![p] = <<>>]
    /\ outgoing' = [outgoing EXCEPT ![p] = <<>>]
    /\ incoming' = [incoming EXCEPT ![p] = <<>>]
    /\ possibleAcks' = [possibleAcks EXCEPT ![p] = [id \in ContentIds |-> 0]]
    /\ scan' = [scan EXCEPT ![p] = Idle]
    /\ stamped' = [stamped EXCEPT ![p] = {}]
    /\ sending' = [sending EXCEPT ![p] = {}]
    /\ forgot' = [forgot EXCEPT ![p] = @ \cup {"restart"}]
    /\ UNCHANGED <<published, net, delivered, ownSent, acked, between>>

Next ==
    \E p \in Peers :
        \/ NextTimestamp(p)
        \/ \E s \in stamped[p] :
              \/ \E payload \in Payloads : SendPublish(p, payload, s)
              \/ SendSync(p, s)
              \/ \E m \in Range(incoming[p]) : SendRepairRequest(p, m, s)
              \/ SendFail(p, s)
        \/ \E m \in sending[p] : SendComplete(p, m) \/ SendError(p, m)
        \/ \E payload \in Ephemerals : SendEphemeral(p, payload)
        \/ \E c \in net, again \in BOOLEAN :
              /\ c[1] = p
              /\ \/ Receive(p, c[2], again)
                 \/ ReceiveAndRepair(p, c[2], again)
                 \/ RepairError(p, c[2], again)
        \/ Resolve(p)
        \/ Restart(p)

Spec == Init /\ [][Next]_vars

-------------------------------------------------------------------------------
(* Properties *)

ChannelTypes ==
    /\ lamport \in [Peers -> Nat]
    /\ bloom \in [Peers -> Filter]
    /\ localHistory \in [Peers -> Seq(Entry)]
    /\ incoming \in [Peers -> Seq(Content)]
    /\ possibleAcks \in [Peers -> [ContentIds -> Nat]]
    /\ scan \in [Peers -> ScanState]
    /\ stamped \in [Peers -> SUBSET Stamp]
    /\ sending \in [Peers -> SUBSET Content]
    /\ published \subseteq SdsMessage
    /\ net \subseteq Peers \X published
    /\ faults \in Nat
    /\ delivered \in [Peers -> Seq(Delivery)]
    /\ ownSent \in [Peers -> SUBSET ContentIds]
    /\ acked \in [Peers -> SUBSET ContentIds]
    /\ forgot \in [Peers -> SUBSET {"reset", "restart"}]
    /\ between \subseteq published \X Entry

\* The types of the state of the channels and of the transport.
TypeOK == ChannelTypes /\ outgoing \in [Peers -> Seq(Content)]

\* Every entry of the causal history that send, send_sync or send_repair_request puts in a
\* message has a smaller Lamport timestamp than the message, whatever was received, buffered
\* or lost in between: next_timestamp and update_timestamp keep the clock ahead of the history.
\* An entry that another call recorded after next_timestamp and before build_causal_history is the
\* exception: it may be as late as the message or later.
LamportCondition ==
    \A m \in published : \A i \in DOMAIN m.history :
        m.history[i].ts < m.ts \/ <<m, m.history[i]>> \in between

\* receive and resolve_buffered hand a message to the application only after everything in its causal
\* history was handed over too, or was sent by the peer itself; and then they do.  Between two calls of
\* receive, a buffered message whose dependencies are satisfied depends on one that the peer itself has
\* sent: only send adds to the filter without resolving.  (It needs a filter without false positives.)
CausalDelivery ==
    \A p \in Peers :
        /\ \A i \in DOMAIN delivered[p] : \A id \in Ids(delivered[p][i].msg.history) :
            id \in ownSent[p] \/ \E j \in 1..(i - 1) : delivered[p][j].msg.id = id
        /\ scan[p] = Idle => \A m \in Range(incoming[p]) :
            DependenciesSatisfied(bloom[p], m.history) => Ids(m.history) \cap ownSent[p] # {}

\* While the filter has not been emptied, receive never returns directly a message whose id
\* was already returned: what arrives again after its delivery is dropped.
DirectDeliveryIsFresh ==
    \A p \in Peers : \A j \in DOMAIN delivered[p] :
        forgot[p] = {} /\ delivered[p][j].via = "receive" =>
            \A i \in 1..(j - 1) : delivered[p][i].msg.id # delivered[p][j].msg.id

\* check_outgoing_acks drops a message from the outgoing buffer only when some other peer has
\* it.  (It needs a filter without false positives.)
AckedIsSeenElsewhere ==
    \A p \in Peers : \A id \in acked[p] :
        \E q \in Peers \ {p} : id \in DeliveredIds(q) \cup ownSent[q]

\* The caps of the channel hold at every moment: no peer, whatever it sends or never
\* acknowledges, makes a buffer or the local history grow beyond its bound.
BuffersBounded ==
    \A p \in Peers :
        /\ Len(incoming[p]) <= IncomingMax
        /\ Len(outgoing[p]) <= OutgoingMax
        /\ Len(localHistory[p]) <= 2 * HistorySize
        /\ Cardinality({id \in ContentIds : possibleAcks[p][id] > 0}) <= PossibleAcksMax

\* What the documentation of receive calls deduplication: while the filter has not been
\* emptied, no id is returned twice.
AtMostOnce ==
    \A p \in Peers : forgot[p] = {} =>
        \A i, j \in DOMAIN delivered[p] :
            delivered[p][i].msg.id = delivered[p][j].msg.id => i = j
===============================================================================
