--------------------------- MODULE SdsChannelProofs ---------------------------
(***************************************************************************)
(* What holds of SdsChannel for every number of peers, payloads and        *)
(* messages and every size of its buffers, checked by TLAPS.               *)
(***************************************************************************)
EXTENDS SdsChannel, SequenceTheorems, TLAPS

-------------------------------------------------------------------------------
(* The helpers of the channel *)

\* build_causal_history copies entries of the local history.
LEMMA BuildLemma ==
    ASSUME NEW h \in Seq(Entry)
    PROVE  /\ BuildCausalHistory(h) \in Seq(Entry)
           /\ \A i \in DOMAIN BuildCausalHistory(h) :
                 \E j \in DOMAIN h : BuildCausalHistory(h)[i] = h[j]
<1> DEFINE n == IF Len(h) < HistorySize THEN Len(h) ELSE HistorySize
           f == [i \in 1..n |-> h[Len(h) + 1 - i]]
<1>1. n \in Nat /\ n <= Len(h)
  BY ChannelAssumption, LenProperties
<1>2. \A i \in 1..n : Len(h) + 1 - i \in 1..Len(h)
  BY <1>1, LenProperties
<1>3. \A i \in 1..n : f[i] = h[Len(h) + 1 - i] /\ f[i] \in Entry
  BY <1>2, ElementOfSeq
<1>4. f \in Seq(Entry)
  BY <1>1, <1>3, IsASeq
<1> QED
  BY <1>1, <1>2, <1>3, <1>4, LenProperties DEF BuildCausalHistory

\* record_in_history keeps old entries and adds the new one.
LEMMA RecordLemma ==
    ASSUME NEW h \in Seq(Entry), NEW id \in ContentIds, NEW ts \in Nat
    PROVE  /\ RecordInHistory(h, id, ts) \in Seq(Entry)
           /\ \A i \in DOMAIN RecordInHistory(h, id, ts) :
                 \/ RecordInHistory(h, id, ts)[i] = [id |-> id, ts |-> ts]
                 \/ \E j \in DOMAIN h : RecordInHistory(h, id, ts)[i] = h[j]
<1> DEFINE e == [id |-> id, ts |-> ts]
           g == Append(h, e)
<1>1. e \in Entry
  BY DEF Entry
<1>2. /\ g \in Seq(Entry)
      /\ g # <<>>
      /\ \A i \in DOMAIN g : g[i] = e \/ \E j \in DOMAIN h : g[i] = h[j]
  BY <1>1, AppendProperties
<1> HIDE DEF e, g
<1>3. /\ Tail(g) \in Seq(Entry)
      /\ \A i \in DOMAIN Tail(g) : i + 1 \in DOMAIN g /\ Tail(g)[i] = g[i + 1]
  BY <1>2
<1>4. RecordInHistory(h, id, ts) = g \/ RecordInHistory(h, id, ts) = Tail(g)
  BY DEF RecordInHistory, g, e
<1>5. \A i \in DOMAIN Tail(g) : Tail(g)[i] = e \/ \E j \in DOMAIN h : Tail(g)[i] = h[j]
  BY <1>2, <1>3, Zenon
<1>6. CASE RecordInHistory(h, id, ts) = g
  BY <1>2, <1>6, Zenon DEF e
<1>7. CASE RecordInHistory(h, id, ts) = Tail(g)
  BY <1>3, <1>5, <1>7, Zenon DEF e
<1> QED
  BY <1>4, <1>6, <1>7, Zenon

\* A capped push keeps old elements and adds the new one.
LEMMA PushLemma ==
    ASSUME NEW s \in Seq(Content), NEW e \in Content, NEW max \in Nat \ {0}
    PROVE  /\ PushCapped(s, e, max) \in Seq(Content)
           /\ \A i \in DOMAIN PushCapped(s, e, max) :
                 PushCapped(s, e, max)[i] = e \/ \E j \in DOMAIN s : PushCapped(s, e, max)[i] = s[j]
<1>1. CASE Len(s) < max
  BY <1>1, AppendProperties DEF PushCapped
<1>2. CASE Len(s) >= max
  <2>1. s # <<>>
    BY <1>2
  <2>2. /\ Tail(s) \in Seq(Content)
        /\ \A i \in DOMAIN Tail(s) : i + 1 \in DOMAIN s /\ Tail(s)[i] = s[i + 1]
    BY <2>1
  <2>3. PushCapped(s, e, max) = Append(Tail(s), e)
    BY <1>2 DEF PushCapped
  <2>4. \A i \in DOMAIN Append(Tail(s), e) :
           Append(Tail(s), e)[i] = e \/ (i \in DOMAIN Tail(s) /\ Append(Tail(s), e)[i] = Tail(s)[i])
    BY <2>2, AppendProperties
  <2> QED
    BY <2>2, <2>3, <2>4, AppendProperties
<1> QED
  BY <1>1, <1>2, LenProperties

\* Removing one element keeps the others.
LEMMA RemoveLemma ==
    ASSUME NEW S, NEW s \in Seq(S), NEW n \in DOMAIN s
    PROVE  /\ RemoveNth(s, n) \in Seq(S)
           /\ \A i \in DOMAIN RemoveNth(s, n) :
                 \E j \in DOMAIN s : RemoveNth(s, n)[i] = s[j]
<1> DEFINE l == SubSeq(s, 1, n - 1)
           r == SubSeq(s, n + 1, Len(s))
<1>1. n \in 1..Len(s)
  BY LenProperties
<1>2. /\ l \in Seq(S)
      /\ \A i \in DOMAIN l : i \in DOMAIN s /\ l[i] = s[i]
  BY <1>1
<1>3. /\ r \in Seq(S)
      /\ \A i \in DOMAIN r : i + n \in DOMAIN s /\ r[i] = s[i + n]
  BY <1>1
<1> HIDE DEF l, r
<1>4. /\ l \o r \in Seq(S)
      /\ \A i \in DOMAIN (l \o r) :
            \/ i \in DOMAIN l /\ (l \o r)[i] = l[i]
            \/ i - Len(l) \in DOMAIN r /\ (l \o r)[i] = r[i - Len(l)]
  BY <1>2, <1>3, ConcatProperties, LenProperties
<1> QED
  BY <1>2, <1>3, <1>4, Zenon DEF RemoveNth, l, r

\* bloom.set: a filter stays a filter, and grows only by the bits of the id.
LEMMA BloomLemma ==
    ASSUME NEW b \in Filter, NEW id, BitsOf(id) \subseteq Bits
    PROVE  /\ BloomSet(b, id) \in Filter
           /\ BloomSet(b, id).bits \subseteq b.bits \cup BitsOf(id)
           /\ ~BloomResets(b) => BloomSet(b, id).bits = b.bits \cup BitsOf(id)
  BY CapacityAssumption DEF Filter, BloomSet, BloomNew, BloomResets

-------------------------------------------------------------------------------
(* Type correctness *)

\* A message in flight to a peer is a published message, and its type field tells its kind.
LEMMA InFlightLemma ==
    ASSUME ChannelTypes, NEW p, NEW m, <<p, m>> \in net
    PROVE  /\ p \in Peers
           /\ m \in published /\ m \in SdsMessage
           /\ m.type = "content" => m \in Content
           /\ m.type = "sync" => m \in Sync
           /\ m.type = "ephemeral" => m \in Ephemeral
           /\ m.id \in MessageId
           /\ m.repair \subseteq ContentIds
<1>1. p \in Peers /\ m \in published /\ m \in SdsMessage
  BY DEF ChannelTypes
<1>2. CASE m \in Content
  <2>1. m.type = "content" /\ m.id \in ContentIds /\ m.repair = {}
    BY <1>2 DEF Content
  <2> QED
    BY <1>1, <1>2, <2>1 DEF MessageId
<1>3. CASE m \in Sync
  <2>1. m.type = "sync" /\ m.id \in OtherIds /\ m.repair \subseteq ContentIds
    BY <1>3 DEF Sync
  <2> QED
    BY <1>1, <1>3, <2>1 DEF MessageId
<1>4. CASE m \in Ephemeral
  <2>1. m.type = "ephemeral" /\ m.id \in OtherIds /\ m.repair = {}
    BY <1>4 DEF Ephemeral
  <2> QED
    BY <1>1, <1>4, <2>1 DEF MessageId
<1> QED
  BY <1>1, <1>2, <1>3, <1>4 DEF SdsMessage

\* The causal history of a content message names content messages.
LEMMA HistoryIds ==
    ASSUME NEW m \in Content
    PROVE  /\ m.history \in Seq(Entry)
           /\ \A i \in DOMAIN m.history : m.history[i] \in Entry /\ m.history[i].id \in ContentIds
           /\ Ids(m.history) \subseteq ContentIds
<1>1. m.history \in Seq(Entry)
  BY DEF Content
<1>2. \A i \in DOMAIN m.history : m.history[i] \in Entry
  BY <1>1, ElementOfSeq, LenProperties
<1>3. \A e \in Entry : e.id \in ContentIds
  BY DEF Entry
<1> QED
  BY <1>1, <1>2, <1>3 DEF Ids

\* bloom.set on a known id keeps the types of the filters.
LEMMA RememberTypes ==
    ASSUME ChannelTypes, NEW p \in Peers, NEW id \in MessageId, Remember(p, id)
    PROVE  /\ bloom' \in [Peers -> Filter]
           /\ forgot' \in [Peers -> SUBSET {"reset", "restart"}]
<1>1. BloomSet(bloom[p], id) \in Filter
  BY BloomLemma, BitsAssumption DEF ChannelTypes
<1> QED
  BY <1>1 DEF Remember, ChannelTypes

\* Delivering a content message keeps the types.
LEMMA DeliverTypes ==
    ASSUME ChannelTypes, NEW p \in Peers, NEW m \in Content, NEW via \in {"receive", "buffer"},
           Deliver(p, m, via)
    PROVE  /\ bloom' \in [Peers -> Filter]
           /\ forgot' \in [Peers -> SUBSET {"reset", "restart"}]
           /\ localHistory' \in [Peers -> Seq(Entry)]
           /\ delivered' \in [Peers -> Seq(Delivery)]
<1>1. m.id \in ContentIds /\ m.id \in MessageId /\ m.ts \in Nat
  BY DEF Content, MessageId
<1>2. RecordInHistory(localHistory[p], m.id, m.ts) \in Seq(Entry)
  BY <1>1, RecordLemma DEF ChannelTypes
<1>3. [msg |-> m, via |-> via] \in Delivery
  BY DEF Delivery
<1>4. bloom' \in [Peers -> Filter] /\ forgot' \in [Peers -> SUBSET {"reset", "restart"}]
  BY <1>1, RememberTypes DEF Deliver
<1>5. Append(delivered[p], [msg |-> m, via |-> via]) \in Seq(Delivery)
  BY <1>3, AppendProperties DEF ChannelTypes
<1> QED
  BY <1>2, <1>4, <1>5, Zenon DEF Deliver, ChannelTypes

\* check_outgoing_acks keeps the types of the counters.
LEMMA AcksTypes ==
    ASSUME ChannelTypes, NEW p \in Peers, NEW m, CheckOutgoingAcks(p, m)
    PROVE  /\ possibleAcks' \in [Peers -> [ContentIds -> Nat]]
           /\ acked' \in [Peers -> SUBSET ContentIds]
<1> DEFINE hits == AckHits(p, m)
           done == {id \in hits : possibleAcks[p][id] + 1 >= AcksThreshold}
           count == [id \in ContentIds |->
                       IF id \in done THEN 0
                       ELSE possibleAcks[p][id] + (IF id \in hits THEN 1 ELSE 0)]
           new == IF Cardinality({id \in ContentIds : count[id] > 0}) > PossibleAcksMax
                  THEN [id \in ContentIds |-> 0]
                  ELSE count
<1>1. possibleAcks[p] \in [ContentIds -> Nat]
  BY DEF ChannelTypes
<1>2. done \subseteq ContentIds
  BY DEF AckHits
<1>3. count \in [ContentIds -> Nat]
  BY <1>1
<1>4. new \in [ContentIds -> Nat]
  BY <1>3
<1>5. /\ possibleAcks' = [possibleAcks EXCEPT ![p] = new]
      /\ acked' = [acked EXCEPT ![p] = @ \cup done]
  BY DEF CheckOutgoingAcks
<1> HIDE DEF hits, done, count, new
<1> QED
  BY <1>2, <1>4, <1>5 DEF ChannelTypes

\* Publishing a message keeps the types of the transport.
LEMMA PublishTypes ==
    ASSUME ChannelTypes, NEW m \in SdsMessage, Publish(m)
    PROVE  /\ published' \subseteq SdsMessage
           /\ net' \subseteq Peers \X published'
           /\ faults' \in Nat
  BY DEF ChannelTypes, Publish, Copies

\* The message that send builds is a content message, and the one of send_sync a sync message.
LEMMA NewMessageTypes ==
    ASSUME ChannelTypes, NEW p \in Peers, NEW ts \in 1..MaxTs
    PROVE  /\ \A payload \in Payloads : ContentMessage(p, payload, ts) \in Content
           /\ \A missing \in SUBSET ContentIds : SyncMessage(p, missing, ts) \in Sync
<1>1. ts \in Nat
  BY ChannelAssumption
<1>2. BuildCausalHistory(localHistory[p]) \in Seq(Entry)
  BY BuildLemma DEF ChannelTypes
<1>3. BloomToBytes(bloom[p]) \in SUBSET Bits
  BY DEF ChannelTypes, Filter, BloomToBytes
<1>4. \A payload \in Payloads : ContentId(payload) \in ContentIds
  BY DEF ContentIds
<1>5. SyncId(ts) \in OtherIds
  BY DEF OtherIds
<1>6. ASSUME NEW payload \in Payloads PROVE ContentMessage(p, payload, ts) \in Content
  BY <1>1, <1>2, <1>3, <1>4 DEF ContentMessage, Content
<1>7. ASSUME NEW missing \in SUBSET ContentIds PROVE SyncMessage(p, missing, ts) \in Sync
  BY <1>1, <1>2, <1>3, <1>5 DEF SyncMessage, Sync
<1> QED
  BY <1>6, <1>7

\* A pending call has a timestamp within the bound.
LEMMA StampFacts ==
    ASSUME ChannelTypes, NEW p \in Peers, NEW s \in stamped[p]
    PROVE  s.ts \in 1..MaxTs /\ s.known \subseteq Entry
<1>1. s \in Stamp
  BY DEF ChannelTypes
<1> QED
  BY <1>1 DEF Stamp

LEMMA TimestampTypes ==
    ASSUME ChannelTypes, NEW p \in Peers, NextTimestamp(p)
    PROVE  ChannelTypes'
<1> DEFINE s == [ts |-> lamport[p] + 1, known |-> Range(localHistory[p])]
<1>1. lamport[p] + 1 \in 1..MaxTs
  BY ChannelAssumption DEF ChannelTypes, NextTimestamp
<1>2. Range(localHistory[p]) \in SUBSET Entry
  BY RangeOfSeq DEF ChannelTypes
<1>3. s \in Stamp
  BY <1>1, <1>2 DEF Stamp
<1>4. stamped' = [stamped EXCEPT ![p] = @ \cup {s}]
  BY DEF NextTimestamp
<1> HIDE DEF s
<1>5. stamped' \in [Peers -> SUBSET Stamp] /\ lamport' \in [Peers -> Nat]
  BY <1>3, <1>4 DEF ChannelTypes, NextTimestamp
<1> QED
  BY <1>5 DEF ChannelTypes, NextTimestamp, netVars, ghostVars

\* A call that publishes what it built gives up its timestamp and notes what came in between.
LEMMA PublishStampTypes ==
    ASSUME ChannelTypes, NEW p \in Peers, NEW s \in stamped[p], NEW m \in SdsMessage,
           m.history \in Seq(Entry), Unstamp(p, s), Publish(m), Note(m, s)
    PROVE  /\ published' \subseteq SdsMessage
           /\ net' \subseteq Peers \X published'
           /\ faults' \in Nat
           /\ stamped' \in [Peers -> SUBSET Stamp]
           /\ between' \subseteq published' \X Entry
<1>1. published' \subseteq SdsMessage /\ net' \subseteq Peers \X published' /\ faults' \in Nat
  BY PublishTypes
<1>2. stamped' \in [Peers -> SUBSET Stamp]
  BY DEF Unstamp, ChannelTypes
<1>3. Range(m.history) \subseteq Entry
  BY RangeOfSeq
<1>4. m \in published' /\ published \subseteq published'
  BY DEF Publish
<1>5. between' \subseteq published' \X Entry
  BY <1>3, <1>4 DEF Note, ChannelTypes
<1> QED
  BY <1>1, <1>2, <1>5

LEMMA SendTypes ==
    ASSUME ChannelTypes, NEW p \in Peers
    PROVE  /\ \A s \in stamped[p] :
                 /\ \A payload \in Payloads : SendPublish(p, payload, s) => ChannelTypes'
                 /\ SendSync(p, s) => ChannelTypes'
                 /\ \A m \in Range(incoming[p]) : SendRepairRequest(p, m, s) => ChannelTypes'
                 /\ SendFail(p, s) => ChannelTypes'
           /\ \A m \in sending[p] : SendComplete(p, m) \/ SendError(p, m) => ChannelTypes'
           /\ \A payload \in Ephemerals : SendEphemeral(p, payload) => ChannelTypes'
<1>1. ASSUME NEW s \in stamped[p], NEW payload \in Payloads, SendPublish(p, payload, s)
      PROVE  ChannelTypes'
  <2> DEFINE m == ContentMessage(p, payload, s.ts)
  <2>1. m \in Content
    BY NewMessageTypes, StampFacts
  <2>2. /\ sending' = [sending EXCEPT ![p] = @ \cup {m}]
        /\ Publish(m) /\ Unstamp(p, s) /\ Note(m, s)
        /\ UNCHANGED <<lamport, bloom, localHistory, outgoing, incoming, possibleAcks, scan,
                       delivered, ownSent, acked, forgot>>
    BY <1>1, Zenon DEF SendPublish
  <2> HIDE DEF m
  <2>3. m \in SdsMessage /\ m.history \in Seq(Entry)
    BY <2>1 DEF SdsMessage, Content
  <2>4. /\ published' \subseteq SdsMessage /\ net' \subseteq Peers \X published' /\ faults' \in Nat
        /\ stamped' \in [Peers -> SUBSET Stamp] /\ between' \subseteq published' \X Entry
    BY <2>2, <2>3, PublishStampTypes
  <2>5. sending' \in [Peers -> SUBSET Content]
    BY <2>1, <2>2 DEF ChannelTypes
  <2> QED
    BY <2>2, <2>4, <2>5 DEF ChannelTypes
<1>2. ASSUME NEW m \in sending[p], SendComplete(p, m) PROVE ChannelTypes'
  <2>1. m \in Content /\ m.id \in ContentIds /\ m.id \in MessageId /\ m.ts \in Nat
    <3>1. sending \in [Peers -> SUBSET Content]
      BY Zenon DEF ChannelTypes
    <3>2. m \in Content
      BY <3>1
    <3> QED
      BY <3>2 DEF Content, MessageId
  <2>2. bloom' \in [Peers -> Filter] /\ forgot' \in [Peers -> SUBSET {"reset", "restart"}]
    BY <1>2, <2>1, RememberTypes DEF SendComplete
  <2>3. RecordInHistory(localHistory[p], m.id, m.ts) \in Seq(Entry)
    BY <2>1, RecordLemma DEF ChannelTypes
  <2>4. localHistory' \in [Peers -> Seq(Entry)] /\ sending' \in [Peers -> SUBSET Content]
        /\ ownSent' \in [Peers -> SUBSET ContentIds]
    BY <1>2, <2>1, <2>3 DEF ChannelTypes, SendComplete
  <2> QED
    BY <1>2, <2>2, <2>4 DEF ChannelTypes, SendComplete, netVars
<1>3. ASSUME NEW m \in sending[p], SendError(p, m) PROVE ChannelTypes'
  BY <1>3 DEF ChannelTypes, SendError, netVars, ghostVars
<1>4. ASSUME NEW s \in stamped[p], SendFail(p, s) PROVE ChannelTypes'
  <2>1. stamped' \in [Peers -> SUBSET Stamp]
    BY <1>4 DEF SendFail, Unstamp, ChannelTypes
  <2> QED
    BY <1>4, <2>1 DEF ChannelTypes, SendFail, ghostVars
<1>5. ASSUME NEW s \in stamped[p], NEW missing \in SUBSET ContentIds, PublishSync(p, missing, s)
      PROVE  ChannelTypes'
  <2> DEFINE m == SyncMessage(p, missing, s.ts)
  <2>1. m \in Sync
    BY NewMessageTypes, StampFacts
  <2>2. /\ Publish(m) /\ Unstamp(p, s) /\ Note(m, s)
        /\ UNCHANGED <<lamport, bloom, localHistory, outgoing, incoming, possibleAcks, scan, sending,
                       delivered, ownSent, acked, forgot>>
    BY <1>5, Zenon DEF PublishSync
  <2> HIDE DEF m
  <2>3. m \in SdsMessage /\ m.history \in Seq(Entry)
    BY <2>1 DEF SdsMessage, Sync
  <2>4. /\ published' \subseteq SdsMessage /\ net' \subseteq Peers \X published' /\ faults' \in Nat
        /\ stamped' \in [Peers -> SUBSET Stamp] /\ between' \subseteq published' \X Entry
    BY <2>2, <2>3, PublishStampTypes
  <2> QED
    BY <2>2, <2>4 DEF ChannelTypes
<1>6. ASSUME NEW s \in stamped[p], SendSync(p, s) PROVE ChannelTypes'
  BY <1>5, <1>6 DEF SendSync
<1>7. ASSUME NEW s \in stamped[p], NEW m \in Range(incoming[p]), SendRepairRequest(p, m, s)
      PROVE  ChannelTypes'
  <2>1. m \in Content
    BY <1>7, RangeOfSeq DEF ChannelTypes
  <2>2. Ids(m.history) \subseteq ContentIds
    BY <2>1, HistoryIds
  <2>3. {id \in Ids(m.history) : ~BloomCheck(bloom[p], id)} \in SUBSET ContentIds
    BY <2>2
  <2> QED
    BY <1>5, <1>7, <2>3, Zenon DEF SendRepairRequest
<1>8. ASSUME NEW payload \in Ephemerals, SendEphemeral(p, payload) PROVE ChannelTypes'
  <2> DEFINE m == [type |-> "ephemeral", id |-> ContentId(payload), sender |-> p, ts |-> 0,
                   history |-> <<>>, bloom |-> {}, repair |-> {}]
  <2>1. ContentId(payload) \in OtherIds
    BY DEF OtherIds
  <2>2. m \in SdsMessage
    BY <2>1 DEF SdsMessage, Ephemeral
  <2>3. Publish(m)
    BY <1>8 DEF SendEphemeral
  <2> HIDE DEF m
  <2>4. published' \subseteq SdsMessage /\ net' \subseteq Peers \X published' /\ faults' \in Nat
    BY <2>2, <2>3, PublishTypes
  <2>5. between' \subseteq published' \X Entry
    BY <1>8, <2>3 DEF ChannelTypes, SendEphemeral, Publish, ghostVars
  <2> QED
    BY <1>8, <2>4, <2>5 DEF ChannelTypes, SendEphemeral, chanVars, ghostVars
<1> QED
  BY <1>1, <1>2, <1>3, <1>4, <1>6, <1>7, <1>8

\* Whatever receive does with a message, the state of the channels keeps its types.
LEMMA HandleTypes ==
    ASSUME ChannelTypes, NEW p \in Peers, NEW m, <<p, m>> \in net, Handle(p, m),
           published' = published, net' \subseteq Peers \X published', faults' \in Nat
    PROVE  ChannelTypes'
<1>1. CASE ReceiveDuplicate(p, m)
  BY <1>1 DEF ChannelTypes, ReceiveDuplicate, chanVars, ghostVars
<1>2. CASE ReceiveInOrder(p, m)
  <2>1. m \in Content /\ m.ts \in Nat
    <3>1. m.type = "content"
      BY <1>2 DEF ReceiveInOrder
    <3>2. m \in Content
      BY <3>1, InFlightLemma
    <3> QED
      BY <3>2 DEF Content
  <2>2. /\ bloom' \in [Peers -> Filter]
        /\ forgot' \in [Peers -> SUBSET {"reset", "restart"}]
        /\ localHistory' \in [Peers -> Seq(Entry)]
        /\ delivered' \in [Peers -> Seq(Delivery)]
    BY <1>2, <2>1, DeliverTypes DEF ReceiveInOrder
  <2>3. possibleAcks' \in [Peers -> [ContentIds -> Nat]] /\ acked' \in [Peers -> SUBSET ContentIds]
    BY <1>2, AcksTypes DEF ReceiveInOrder
  <2>4. lamport' \in [Peers -> Nat] /\ scan' \in [Peers -> ScanState]
    BY <1>2, <2>1 DEF ChannelTypes, ReceiveInOrder, UpdateTimestamp, StartResolve, Idle, ScanState
  <2> QED
    BY <1>2, <2>2, <2>3, <2>4 DEF ChannelTypes, ReceiveInOrder
<1>3. CASE ReceiveOutOfOrder(p, m)
  <2>1. m \in Content /\ m.ts \in Nat
    <3>1. m.type = "content"
      BY <1>3 DEF ReceiveOutOfOrder
    <3>2. m \in Content
      BY <3>1, InFlightLemma
    <3> QED
      BY <3>2 DEF Content
  <2>2. PushCapped(incoming[p], m, IncomingMax) \in Seq(Content)
    BY <2>1, PushLemma, ChannelAssumption, Zenon DEF ChannelTypes
  <2>3. possibleAcks' \in [Peers -> [ContentIds -> Nat]] /\ acked' \in [Peers -> SUBSET ContentIds]
    BY <1>3, AcksTypes DEF ReceiveOutOfOrder
  <2>4. lamport' \in [Peers -> Nat] /\ scan' \in [Peers -> ScanState]
    BY <1>3, <2>1 DEF ChannelTypes, ReceiveOutOfOrder, UpdateTimestamp, StartResolve, Idle, ScanState
  <2>5. incoming' \in [Peers -> Seq(Content)]
    BY <1>3, <2>2 DEF ChannelTypes, ReceiveOutOfOrder
  <2> QED
    BY <1>3, <2>3, <2>4, <2>5 DEF ChannelTypes, ReceiveOutOfOrder
<1>4. CASE ReceiveSync(p, m)
  <2>1. m.id \in MessageId /\ m.ts \in Nat
    <3>1. m.type = "sync"
      BY <1>4 DEF ReceiveSync
    <3>2. m \in Sync
      BY <3>1, InFlightLemma
    <3> QED
      BY <3>2, InFlightLemma DEF Sync
  <2>2. /\ bloom' \in [Peers -> Filter]
        /\ forgot' \in [Peers -> SUBSET {"reset", "restart"}]
    BY <1>4, <2>1, RememberTypes DEF ReceiveSync
  <2>3. possibleAcks' \in [Peers -> [ContentIds -> Nat]] /\ acked' \in [Peers -> SUBSET ContentIds]
    BY <1>4, AcksTypes DEF ReceiveSync
  <2>4. lamport' \in [Peers -> Nat] /\ scan' \in [Peers -> ScanState]
    <3>1. lamport \in [Peers -> Nat] /\ scan \in [Peers -> ScanState]
      BY Zenon DEF ChannelTypes
    <3>2. lamport' = [lamport EXCEPT ![p] = UpdateTimestamp(@, m.ts)] /\ StartResolve(p, incoming[p])
      BY <1>4, Zenon DEF ReceiveSync
    <3>3. lamport' \in [Peers -> Nat]
      BY <2>1, <3>1, <3>2 DEF UpdateTimestamp
    <3>4. scan' \in [Peers -> ScanState]
      BY <3>1, <3>2 DEF StartResolve, Idle, ScanState
    <3> QED
      BY <3>3, <3>4
  <2> QED
    BY <1>4, <2>2, <2>3, <2>4 DEF ChannelTypes, ReceiveSync
<1>5. CASE ReceiveEphemeral(p, m)
  <2>1. m.id \in MessageId
    BY InFlightLemma
  <2>2. /\ bloom' \in [Peers -> Filter]
        /\ forgot' \in [Peers -> SUBSET {"reset", "restart"}]
    BY <1>5, <2>1, RememberTypes DEF ReceiveEphemeral
  <2> QED
    BY <1>5, <2>2 DEF ChannelTypes, ReceiveEphemeral
<1> QED
  BY <1>1, <1>2, <1>3, <1>4, <1>5 DEF Handle

\* Handing over a copy, with or without resending, keeps the types of the transport.
LEMMA TakeTypes ==
    ASSUME ChannelTypes, NEW p \in Peers, NEW m, NEW again \in BOOLEAN,
           NEW resent \in SUBSET published, Take(p, m, again, resent)
    PROVE  published' = published /\ net' \subseteq Peers \X published' /\ faults' \in Nat
<1>1. \A x \in resent : Copies(x) \subseteq Peers \X published
  BY DEF Copies
<1>2. UNION {Copies(x) : x \in resent} \subseteq Peers \X published
  BY <1>1
<1> QED
  BY <1>2 DEF ChannelTypes, Take

LEMMA ReceiveTypes ==
    ASSUME ChannelTypes, NEW p \in Peers, NEW m, NEW again \in BOOLEAN,
           Receive(p, m, again) \/ ReceiveAndRepair(p, m, again) \/ RepairError(p, m, again)
    PROVE  ChannelTypes'
<1>1. CASE Receive(p, m, again)
  <2>1. Take(p, m, again, {}) /\ Handle(p, m) /\ {} \in SUBSET published
    BY <1>1 DEF Receive
  <2>2. <<p, m>> \in net
    BY <2>1 DEF Take
  <2>3. published' = published /\ net' \subseteq Peers \X published' /\ faults' \in Nat
    BY <2>1, TakeTypes
  <2> QED
    BY <2>1, <2>2, <2>3, HandleTypes
<1>2. CASE ReceiveAndRepair(p, m, again)
  <2>1. Take(p, m, again, ToResend(p, m)) /\ Handle(p, m) /\ ToResend(p, m) \in SUBSET published
    BY <1>2 DEF ReceiveAndRepair, ToResend
  <2>2. <<p, m>> \in net
    BY <2>1 DEF Take
  <2>3. published' = published /\ net' \subseteq Peers \X published' /\ faults' \in Nat
    BY <2>1, TakeTypes
  <2> QED
    BY <2>1, <2>2, <2>3, HandleTypes
<1>3. CASE RepairError(p, m, again)
  <2>1. PICK resent \in SUBSET ToResend(p, m) : Take(p, m, again, resent)
    BY <1>3 DEF RepairError
  <2>2. published' = published /\ net' \subseteq Peers \X published' /\ faults' \in Nat
    BY <2>1, TakeTypes DEF ToResend
  <2> QED
    BY <1>3, <2>2 DEF ChannelTypes, RepairError, chanVars, ghostVars
<1> QED
  BY <1>1, <1>2, <1>3

\* Moving the scan position keeps the type of the scan state.
LEMMA ScanStep ==
    ASSUME NEW sc \in ScanState
    PROVE  [sc EXCEPT !.pos = @ + 1] \in ScanState
<1>1. sc.pos + 1 \in Nat
  BY DEF ScanState
<1>2. \A n \in Nat : [sc EXCEPT !.pos = n] \in ScanState
  BY Zenon DEF ScanState
<1> QED
  BY <1>1, <1>2

LEMMA ResolveTypes ==
    ASSUME ChannelTypes, NEW p \in Peers, Resolve(p)
    PROVE  ChannelTypes'
<1>1. CASE ResolveDeliver(p)
  <2> DEFINE m == incoming[p][scan[p].pos]
  <2>1. scan[p].pos \in DOMAIN incoming[p] /\ incoming[p] \in Seq(Content)
    BY <1>1 DEF ResolveDeliver, ChannelTypes
  <2>2. m \in Content
    BY <2>1, ElementOfSeq, LenProperties
  <2>3. RemoveNth(incoming[p], scan[p].pos) \in Seq(Content)
    BY <2>1, RemoveLemma
  <2>4. Deliver(p, m, "buffer")
    BY <1>1 DEF ResolveDeliver
  <2> HIDE DEF m
  <2>5. /\ bloom' \in [Peers -> Filter]
        /\ forgot' \in [Peers -> SUBSET {"reset", "restart"}]
        /\ localHistory' \in [Peers -> Seq(Entry)]
        /\ delivered' \in [Peers -> Seq(Delivery)]
    BY <2>2, <2>4, DeliverTypes
  <2>6. incoming' \in [Peers -> Seq(Content)]
    BY <1>1, <2>3 DEF ResolveDeliver, ChannelTypes
  <2>7. scan' \in [Peers -> ScanState]
    BY <1>1, Zenon DEF ResolveDeliver, ChannelTypes, ScanState
  <2> QED
    BY <1>1, <2>5, <2>6, <2>7, Zenon DEF ResolveDeliver, ChannelTypes, netVars
<1>2. CASE ResolveKeep(p)
  <2>1. scan[p] \in ScanState /\ [scan[p] EXCEPT !.pos = @ + 1] \in ScanState
    BY ScanStep DEF ChannelTypes
  <2>2. scan' = [scan EXCEPT ![p] = [scan[p] EXCEPT !.pos = @ + 1]]
    BY <1>2 DEF ResolveKeep
  <2>3. scan' \in [Peers -> ScanState]
    BY <2>1, <2>2 DEF ChannelTypes
  <2> QED
    BY <1>2, <2>3 DEF ResolveKeep, ChannelTypes, netVars, ghostVars
<1>3. CASE ResolvePassEnd(p)
  <2>1. scan' \in [Peers -> ScanState]
    <3>1. Idle \in ScanState /\ [pos |-> 1, progress |-> FALSE] \in ScanState
      BY DEF Idle, ScanState
    <3>2. \/ scan' = [scan EXCEPT ![p] = Idle]
          \/ scan' = [scan EXCEPT ![p] = [pos |-> 1, progress |-> FALSE]]
      BY <1>3 DEF ResolvePassEnd, StartResolve
    <3> QED
      BY <3>1, <3>2, Zenon DEF ChannelTypes
  <2> QED
    BY <1>3, <2>1 DEF ResolvePassEnd, ChannelTypes, netVars, ghostVars
<1> QED
  BY <1>1, <1>2, <1>3 DEF Resolve

LEMMA RestartTypes ==
    ASSUME ChannelTypes, NEW p \in Peers, Restart(p)
    PROVE  ChannelTypes'
<1>1. BloomNew \in Filter /\ <<>> \in Seq(Entry) /\ <<>> \in Seq(Content)
      /\ Idle \in ScanState
  <2>1. BloomNew \in Filter
    BY DEF BloomNew, Filter
  <2>2. Idle \in ScanState
    BY DEF Idle, ScanState
  <2>3. <<>> \in Seq(Entry) /\ <<>> \in Seq(Content)
    OBVIOUS
  <2> QED
    BY <2>1, <2>2, <2>3, Zenon
<1>2. bloom' \in [Peers -> Filter] /\ scan' \in [Peers -> ScanState]
  BY <1>1 DEF Restart, ChannelTypes
<1>3. lamport' \in [Peers -> Nat] /\ faults' \in Nat
  <2>1. lamport \in [Peers -> Nat] /\ faults \in Nat
    BY Zenon DEF ChannelTypes
  <2>2. PICK clock \in InitialClocks : lamport' = [lamport EXCEPT ![p] = clock]
    BY Zenon DEF Restart
  <2>3. clock \in Nat
    BY ChannelAssumption, Zenon
  <2>4. faults' = faults + 1
    BY Zenon DEF Restart
  <2> QED
    BY <2>1, <2>2, <2>3, <2>4
<1>4. /\ localHistory' \in [Peers -> Seq(Entry)]
      /\ incoming' \in [Peers -> Seq(Content)]
      /\ possibleAcks' \in [Peers -> [ContentIds -> Nat]]
      /\ stamped' \in [Peers -> SUBSET Stamp]
      /\ sending' \in [Peers -> SUBSET Content]
      /\ forgot' \in [Peers -> SUBSET {"reset", "restart"}]
  BY <1>1 DEF Restart, ChannelTypes
<1> QED
  BY <1>2, <1>3, <1>4 DEF Restart, ChannelTypes

LEMMA InitTypes == Init => ChannelTypes
<1>1. BloomNew \in Filter /\ Idle \in ScanState
  BY DEF BloomNew, Filter, Idle, ScanState
<1> SUFFICES ASSUME Init PROVE ChannelTypes
  OBVIOUS
<1>2. lamport \in [Peers -> Nat] /\ possibleAcks \in [Peers -> [ContentIds -> Nat]]
  BY ChannelAssumption, Zenon DEF Init
<1>3. bloom \in [Peers -> Filter] /\ scan \in [Peers -> ScanState]
  BY <1>1 DEF Init
<1> QED
  BY <1>2, <1>3 DEF Init, ChannelTypes

LEMMA StepTypes == ChannelTypes /\ [Next]_vars => ChannelTypes'
<1> SUFFICES ASSUME ChannelTypes, [Next]_vars PROVE ChannelTypes'
  OBVIOUS
<1>1. CASE UNCHANGED vars
  BY <1>1 DEF ChannelTypes, vars, chanVars, netVars, ghostVars
<1>2. CASE Next
  BY <1>2, TimestampTypes, SendTypes, ReceiveTypes, ResolveTypes, RestartTypes, Zenon DEF Next
<1> QED
  BY <1>1, <1>2

\* The state of the channels and of the transport keeps its types through every call, error,
\* duplication and restart.  (SdsDeliveryProofs types the outgoing buffer too.)
THEOREM TypeCorrect == Spec => []ChannelTypes
  BY InitTypes, StepTypes, PTL DEF Spec

-------------------------------------------------------------------------------
(* Lamport timestamps *)

\* The clock of a peer is at or ahead of everything the peer may still put in a causal
\* history: what is recorded, what is buffered and what is being sent.
ClockAhead ==
    \A p \in Peers :
        /\ \A i \in DOMAIN localHistory[p] : localHistory[p][i].ts <= lamport[p]
        /\ \A i \in DOMAIN incoming[p] : incoming[p][i].ts <= lamport[p]
        /\ \A m \in sending[p] : m.ts <= lamport[p]

\* A call that has its timestamp got it from the clock, which was then ahead of the history.
StampsAhead ==
    \A p \in Peers : \A s \in stamped[p] :
        s.ts <= lamport[p] /\ \A e \in s.known : e.ts < s.ts

ClockInv == ChannelTypes /\ ClockAhead /\ StampsAhead /\ LamportCondition

LEMMA BufferedLemma ==
    ASSUME NEW s \in Seq(Content), NEW m \in Content
    PROVE  LET buffer == PushCapped(s, m, IncomingMax)
           IN  /\ buffer \in Seq(Content)
               /\ \A i \in DOMAIN buffer : buffer[i] = m \/ \E j \in DOMAIN s : buffer[i] = s[j]
<1>1. IncomingMax \in Nat \ {0}
  BY ChannelAssumption
<1> QED
  BY <1>1, PushLemma, Zenon

LEMMA ClockFacts ==
    ASSUME ClockInv, NEW q \in Peers
    PROVE  /\ localHistory[q] \in Seq(Entry) /\ incoming[q] \in Seq(Content) /\ lamport[q] \in Nat
           /\ \A m \in sending[q] : m \in Content
           /\ \A i \in DOMAIN localHistory[q] : localHistory[q][i].ts <= lamport[q]
           /\ \A i \in DOMAIN incoming[q] : incoming[q][i].ts <= lamport[q]
           /\ \A m \in sending[q] : m.ts <= lamport[q]
<1>1. /\ localHistory[q] \in Seq(Entry) /\ incoming[q] \in Seq(Content) /\ lamport[q] \in Nat
      /\ \A m \in sending[q] : m \in Content
  BY Zenon DEF ClockInv, ChannelTypes
<1> QED
  BY <1>1, Zenon DEF ClockInv, ClockAhead

LEMMA ContentFacts == ASSUME NEW m \in Content PROVE m.id \in ContentIds /\ m.ts \in Nat
  BY DEF Content

\* What a recorded history holds, by timestamps.
LEMMA RecordStamps ==
    ASSUME NEW h \in Seq(Entry), NEW m \in Content
    PROVE  \A i \in DOMAIN RecordInHistory(h, m.id, m.ts) :
                 \/ RecordInHistory(h, m.id, m.ts)[i].ts = m.ts
                 \/ \E j \in DOMAIN h : RecordInHistory(h, m.id, m.ts)[i] = h[j]
<1>1. m.id \in ContentIds /\ m.ts \in Nat
  BY ContentFacts, Zenon
<1>2. [id |-> m.id, ts |-> m.ts].ts = m.ts
  OBVIOUS
<1>3. \A i \in DOMAIN RecordInHistory(h, m.id, m.ts) :
                 \/ RecordInHistory(h, m.id, m.ts)[i] = [id |-> m.id, ts |-> m.ts]
                 \/ \E j \in DOMAIN h : RecordInHistory(h, m.id, m.ts)[i] = h[j]
  BY <1>1, RecordLemma, Zenon
<1> QED
  BY <1>2, <1>3, Zenon

\* A new message is later than every entry of its causal history that the history held when the
\* message got its timestamp; the others are noted.
LEMMA NewMessageIsLater ==
    ASSUME ClockInv, NEW p \in Peers, NEW s \in stamped[p], NEW m, m.ts = s.ts, Note(m, s),
           published' = published \cup {m}
    PROVE  LamportCondition'
<1>1. \A e \in s.known : e.ts < m.ts
  BY DEF ClockInv, StampsAhead
<1>2. between \subseteq between' /\ \A e \in Range(m.history) \ s.known : <<m, e>> \in between'
  BY DEF Note
<1>3. \A i \in DOMAIN m.history : m.history[i] \in Range(m.history)
  BY DEF Range
<1>4. \A i \in DOMAIN m.history : m.history[i].ts < m.ts \/ <<m, m.history[i]>> \in between'
  BY <1>1, <1>2, <1>3, Zenon
<1>5. \A x \in published : \A i \in DOMAIN x.history :
         x.history[i].ts < x.ts \/ <<x, x.history[i]>> \in between'
  BY <1>2, Zenon DEF ClockInv, LamportCondition
<1> QED
  BY <1>4, <1>5, Zenon DEF LamportCondition

\* While nothing is published the condition stays as it is.
LEMMA NothingNew ==
    ASSUME ClockInv, UNCHANGED <<published, between>>
    PROVE  LamportCondition'
  BY DEF ClockInv, LamportCondition

\* Everything recorded is at or behind the clock.
LEMMA RecordedFacts ==
    ASSUME ClockInv, NEW p \in Peers
    PROVE  \A e \in Range(localHistory[p]) : e.ts \in Nat /\ e.ts <= lamport[p]
<1>1. localHistory[p] \in Seq(Entry)
  BY ClockFacts, Zenon
<1>2. \A i \in DOMAIN localHistory[p] : localHistory[p][i] \in Entry
  BY <1>1, ElementOfSeq, LenProperties
<1>3. \A e \in Entry : e.ts \in Nat
  BY DEF Entry
<1>4. \A i \in DOMAIN localHistory[p] :
         localHistory[p][i].ts \in Nat /\ localHistory[p][i].ts <= lamport[p]
  BY <1>2, <1>3, ClockFacts, Zenon
<1> QED
  BY <1>4, Zenon DEF Range

\* While no call takes a timestamp and no clock goes back, the pending timestamps stay behind it.
LEMMA KeptStamps ==
    ASSUME ClockInv,
           \A q \in Peers : stamped'[q] \subseteq stamped[q],
           \A q \in Peers : (lamport'[q] \in Nat /\ lamport[q] <= lamport'[q]) \/ stamped'[q] = {}
    PROVE  StampsAhead'
<1> SUFFICES ASSUME NEW q \in Peers, NEW s \in stamped'[q]
             PROVE  s.ts <= lamport'[q] /\ \A e \in s.known : e.ts < s.ts
  BY Zenon DEF StampsAhead
<1>1. s \in stamped[q] /\ lamport'[q] \in Nat /\ lamport[q] <= lamport'[q]
  BY Zenon
<1>2. s.ts <= lamport[q] /\ \A e \in s.known : e.ts < s.ts
  BY <1>1, Zenon DEF ClockInv, StampsAhead
<1>3. s.ts \in Nat /\ lamport[q] \in Nat
  <2>1. s.ts \in 1..MaxTs
    BY <1>1, StampFacts, Zenon DEF ClockInv
  <2> QED
    BY <2>1, ClockFacts, ChannelAssumption
<1>4. \A a, b, c \in Nat : a <= b /\ b <= c => a <= c
  OBVIOUS
<1> QED
  BY <1>1, <1>2, <1>3, <1>4, Zenon

\* next_timestamp: the clock advances, and the new timestamp is later than everything recorded.
LEMMA TickClocks ==
    ASSUME ClockInv, NEW p \in Peers, NextTimestamp(p)
    PROVE  ClockAhead' /\ StampsAhead' /\ LamportCondition'
<1>1. /\ \A q \in Peers : lamport[q] \in Nat /\ lamport'[q] \in Nat /\ lamport[q] <= lamport'[q]
      /\ lamport'[p] = lamport[p] + 1
  <2>1. lamport \in [Peers -> Nat]
    BY Zenon DEF ClockInv, ChannelTypes
  <2> QED
    BY <2>1 DEF NextTimestamp
<1>2. UNCHANGED <<localHistory, incoming, sending, published, between>>
  BY DEF NextTimestamp, netVars, ghostVars
<1>3. \A a, b, c \in Nat : a <= b /\ b <= c => a <= c
  OBVIOUS
<1>4. ASSUME NEW q \in Peers
      PROVE  /\ \A i \in DOMAIN localHistory[q] : localHistory[q][i].ts <= lamport'[q]
             /\ \A i \in DOMAIN incoming[q] : incoming[q][i].ts <= lamport'[q]
             /\ \A m \in sending[q] : m.ts <= lamport'[q]
  <2>1. \A i \in DOMAIN localHistory[q] : localHistory[q][i].ts \in Nat
    BY RecordedFacts, Zenon DEF Range
  <2>2. \A i \in DOMAIN incoming[q] : incoming[q][i] \in Content
    BY ClockFacts, ElementOfSeq, LenProperties
  <2>3. /\ \A i \in DOMAIN localHistory[q] : localHistory[q][i].ts <= lamport[q]
        /\ \A i \in DOMAIN incoming[q] : incoming[q][i].ts <= lamport[q]
        /\ \A m \in sending[q] : m.ts <= lamport[q] /\ m \in Content
    BY ClockFacts, Zenon
  <2>4. lamport[q] \in Nat /\ lamport'[q] \in Nat /\ lamport[q] <= lamport'[q]
    BY <1>1, Zenon
  <2>5. \A i \in DOMAIN localHistory[q] : localHistory[q][i].ts <= lamport'[q]
    BY <1>3, <2>1, <2>3, <2>4, Zenon
  <2>6. \A i \in DOMAIN incoming[q] : incoming[q][i].ts <= lamport'[q]
    BY <1>3, <2>2, <2>3, <2>4, ContentFacts, Zenon
  <2>7. \A m \in sending[q] : m.ts <= lamport'[q]
    BY <1>3, <2>3, <2>4, ContentFacts, Zenon
  <2> QED
    BY <2>5, <2>6, <2>7
<1>5. ClockAhead'
  BY <1>2, <1>4, Zenon DEF ClockAhead
<1>6. StampsAhead'
  <2> DEFINE new == [ts |-> lamport[p] + 1, known |-> Range(localHistory[p])]
  <2>1. \A q \in Peers : \A s \in stamped'[q] : s \in stamped[q] \/ (q = p /\ s = new)
    <3>1. stamped' = [stamped EXCEPT ![p] = @ \cup {new}]
      BY DEF NextTimestamp
    <3>2. stamped \in [Peers -> SUBSET Stamp]
      BY Zenon DEF ClockInv, ChannelTypes
    <3> HIDE DEF new
    <3> QED
      BY <3>1, <3>2
  <2>2. new.ts = lamport[p] + 1 /\ new.known = Range(localHistory[p])
    OBVIOUS
  <2> HIDE DEF new
  <2>3. new.ts <= lamport'[p] /\ \A e \in new.known : e.ts < new.ts
    <3>1. \A e \in Range(localHistory[p]) : e.ts \in Nat /\ e.ts <= lamport[p]
      BY RecordedFacts, Zenon
    <3>2. \A a, b \in Nat : a <= a /\ (a <= b => a < b + 1)
      OBVIOUS
    <3> QED
      BY <1>1, <2>2, <3>1, <3>2, Zenon
  <2>4. ASSUME NEW q \in Peers, NEW s \in stamped[q]
        PROVE  s.ts <= lamport'[q] /\ \A e \in s.known : e.ts < s.ts
    <3>1. s.ts <= lamport[q] /\ \A e \in s.known : e.ts < s.ts
      BY Zenon DEF ClockInv, StampsAhead
    <3>2. s.ts \in Nat
      <4>1. s.ts \in 1..MaxTs
        BY StampFacts, Zenon DEF ClockInv
      <4> QED
        BY <4>1, ChannelAssumption
    <3> QED
      BY <1>1, <1>3, <3>1, <3>2, Zenon
  <2> QED
    BY <2>1, <2>3, <2>4, Zenon DEF StampsAhead
<1> QED
  BY <1>2, <1>5, <1>6, NothingNew, Zenon

\* The calls that only give up a timestamp leave the others as they are.
LEMMA UnstampClocks ==
    ASSUME ClockInv, NEW p \in Peers, NEW s, Unstamp(p, s), UNCHANGED lamport
    PROVE  StampsAhead'
<1>1. \A q \in Peers : stamped'[q] \subseteq stamped[q]
  <2>1. stamped \in [Peers -> SUBSET Stamp]
    BY Zenon DEF ClockInv, ChannelTypes
  <2> QED
    BY <2>1 DEF Unstamp
<1>2. \A q \in Peers : lamport'[q] \in Nat /\ lamport[q] <= lamport'[q]
  <2>1. \A n \in Nat : n <= n
    OBVIOUS
  <2> QED
    BY <2>1, ClockFacts, Zenon
<1> QED
  BY <1>1, <1>2, KeptStamps, Zenon

\* Nothing about timestamps changes.
LEMMA SameStamps ==
    ASSUME ClockInv, UNCHANGED <<lamport, stamped>>
    PROVE  StampsAhead'
  BY DEF ClockInv, StampsAhead

LEMMA SendClocks ==
    ASSUME ClockInv, NEW p \in Peers
    PROVE  /\ \A s \in stamped[p] :
                 /\ \A payload \in Payloads :
                       SendPublish(p, payload, s) => ClockAhead' /\ StampsAhead' /\ LamportCondition'
                 /\ SendSync(p, s) => ClockAhead' /\ StampsAhead' /\ LamportCondition'
                 /\ \A m \in Range(incoming[p]) :
                       SendRepairRequest(p, m, s) => ClockAhead' /\ StampsAhead' /\ LamportCondition'
                 /\ SendFail(p, s) => ClockAhead' /\ StampsAhead' /\ LamportCondition'
           /\ \A m \in sending[p] :
                 SendComplete(p, m) \/ SendError(p, m) => ClockAhead' /\ StampsAhead' /\ LamportCondition'
           /\ \A payload \in Ephemerals :
                 SendEphemeral(p, payload) => ClockAhead' /\ StampsAhead' /\ LamportCondition'
<1>1. ASSUME NEW s \in stamped[p], NEW payload \in Payloads, SendPublish(p, payload, s)
      PROVE  ClockAhead' /\ StampsAhead' /\ LamportCondition'
  <2> DEFINE m == ContentMessage(p, payload, s.ts)
  <2>1. m.ts = s.ts
    BY DEF ContentMessage
  <2>2. /\ published' = published \cup {m} /\ Unstamp(p, s) /\ Note(m, s)
        /\ sending' = [sending EXCEPT ![p] = @ \cup {m}]
        /\ UNCHANGED <<lamport, localHistory, incoming>>
    BY <1>1 DEF SendPublish, Publish
  <2> HIDE DEF m
  <2>3. LamportCondition'
    BY <2>1, <2>2, NewMessageIsLater, Zenon
  <2>4. StampsAhead'
    BY <2>2, UnstampClocks, Zenon
  <2>5. m.ts <= lamport[p]
    BY <2>1, Zenon DEF ClockInv, StampsAhead
  <2>6. \A q \in Peers : \A x \in sending'[q] : x \in sending[q] \/ (q = p /\ x = m)
    BY <2>2 DEF ClockInv, ChannelTypes
  <2>7. ClockAhead'
    BY <2>2, <2>5, <2>6, Zenon DEF ClockInv, ClockAhead
  <2> QED
    BY <2>3, <2>4, <2>7
<1>2. ASSUME NEW m \in sending[p], SendComplete(p, m)
      PROVE  ClockAhead' /\ StampsAhead' /\ LamportCondition'
  <2>1. m \in Content /\ m.id \in ContentIds /\ m.ts \in Nat /\ localHistory[p] \in Seq(Entry)
    BY ClockFacts, ContentFacts, Zenon
  <2> DEFINE h == RecordInHistory(localHistory[p], m.id, m.ts)
  <2>2. \A i \in DOMAIN h : h[i].ts = m.ts \/ \E j \in DOMAIN localHistory[p] : h[i] = localHistory[p][j]
    BY <2>1, RecordStamps, Zenon
  <2>3. /\ localHistory' = [localHistory EXCEPT ![p] = h]
        /\ UNCHANGED <<lamport, incoming, stamped, published, between>>
        /\ sending' = [sending EXCEPT ![p] = @ \ {m}]
    BY <1>2 DEF SendComplete, netVars
  <2> HIDE DEF h
  <2>4. \A i \in DOMAIN h : h[i].ts <= lamport[p]
    BY <2>2 DEF ClockInv, ClockAhead
  <2>5. ClockAhead'
    BY <2>3, <2>4 DEF ClockInv, ClockAhead, ChannelTypes
  <2> QED
    BY <2>3, <2>5, SameStamps, NothingNew, Zenon
<1>3. ASSUME NEW m \in sending[p], SendError(p, m)
      PROVE  ClockAhead' /\ StampsAhead' /\ LamportCondition'
  <2>1. ClockAhead'
    BY <1>3 DEF ClockInv, ClockAhead, ChannelTypes, SendError
  <2>2. UNCHANGED <<lamport, stamped, published, between>>
    BY <1>3 DEF SendError, netVars, ghostVars
  <2> QED
    BY <2>1, <2>2, SameStamps, NothingNew, Zenon
<1>4. ASSUME NEW s \in stamped[p], SendFail(p, s)
      PROVE  ClockAhead' /\ StampsAhead' /\ LamportCondition'
  <2>1. Unstamp(p, s) /\ UNCHANGED <<lamport, localHistory, incoming, sending, published, between>>
    BY <1>4 DEF SendFail, ghostVars
  <2>2. ClockAhead'
    BY <2>1, Zenon DEF ClockInv, ClockAhead
  <2> QED
    BY <2>1, <2>2, UnstampClocks, NothingNew, Zenon
<1>5. ASSUME NEW s \in stamped[p], NEW missing, PublishSync(p, missing, s)
      PROVE  ClockAhead' /\ StampsAhead' /\ LamportCondition'
  <2> DEFINE m == SyncMessage(p, missing, s.ts)
  <2>1. m.ts = s.ts
    BY DEF SyncMessage
  <2>2. /\ published' = published \cup {m} /\ Unstamp(p, s) /\ Note(m, s)
        /\ UNCHANGED <<lamport, localHistory, incoming, sending>>
    BY <1>5 DEF PublishSync, Publish
  <2> HIDE DEF m
  <2>3. LamportCondition'
    BY <2>1, <2>2, NewMessageIsLater, Zenon
  <2>4. ClockAhead'
    BY <2>2, Zenon DEF ClockInv, ClockAhead
  <2> QED
    BY <2>2, <2>3, <2>4, UnstampClocks, Zenon
<1>6. ASSUME NEW s \in stamped[p], SendSync(p, s)
      PROVE  ClockAhead' /\ StampsAhead' /\ LamportCondition'
  BY <1>5, <1>6, Zenon DEF SendSync
<1>7. ASSUME NEW s \in stamped[p], NEW m \in Range(incoming[p]), SendRepairRequest(p, m, s)
      PROVE  ClockAhead' /\ StampsAhead' /\ LamportCondition'
  BY <1>5, <1>7, Zenon DEF SendRepairRequest
<1>8. ASSUME NEW payload \in Ephemerals, SendEphemeral(p, payload)
      PROVE  ClockAhead' /\ StampsAhead' /\ LamportCondition'
  <2> DEFINE m == [type |-> "ephemeral", id |-> ContentId(payload), sender |-> p, ts |-> 0,
                   history |-> <<>>, bloom |-> {}, repair |-> {}]
  <2>1. /\ published' = published \cup {m}
        /\ UNCHANGED <<lamport, localHistory, incoming, stamped, sending, between>>
    BY <1>8 DEF SendEphemeral, Publish, chanVars, ghostVars
  <2>2. DOMAIN m.history = {}
    OBVIOUS
  <2> HIDE DEF m
  <2>3. LamportCondition'
    BY <2>1, <2>2 DEF ClockInv, LamportCondition
  <2>4. ClockAhead'
    BY <2>1, Zenon DEF ClockInv, ClockAhead
  <2> QED
    BY <2>1, <2>3, <2>4, SameStamps, Zenon
<1> QED
  BY <1>1, <1>2, <1>3, <1>4, <1>6, <1>7, <1>8

\* update_timestamp moves the clock beyond its old value and beyond the timestamp received.
LEMMA UpdateLemma ==
    ASSUME NEW clock \in Nat, NEW ts \in Nat
    PROVE  /\ UpdateTimestamp(clock, ts) \in Nat
           /\ clock <= UpdateTimestamp(clock, ts)
           /\ ts <= UpdateTimestamp(clock, ts)
  BY DEF UpdateTimestamp

\* The part of the type invariant that the clocks depend on.
LEMMA ClockTypes ==
    ASSUME ClockInv
    PROVE  /\ ChannelTypes
           /\ lamport \in [Peers -> Nat]
           /\ DOMAIN localHistory = Peers /\ DOMAIN incoming = Peers /\ DOMAIN sending = Peers
           /\ \A q \in Peers : \A m \in sending[q] : m.ts \in Nat
<1>1. ChannelTypes
  BY DEF ClockInv
<1>2. sending \in [Peers -> SUBSET Content]
  BY <1>1 DEF ChannelTypes
<1>3. \A m \in Content : m.ts \in Nat
  BY DEF Content
<1>4. /\ lamport \in [Peers -> Nat]
      /\ DOMAIN localHistory = Peers /\ DOMAIN incoming = Peers /\ DOMAIN sending = Peers
  BY <1>1 DEF ChannelTypes
<1> QED
  BY <1>1, <1>2, <1>3, <1>4

\* If a clock moves forward and what is new in the histories and buffers is not ahead of it,
\* the clocks stay ahead.
LEMMA ForwardClocks ==
    ASSUME ClockInv, NEW p \in Peers, NEW clock \in Nat, lamport[p] <= clock,
           lamport' = [lamport EXCEPT ![p] = clock],
           NEW h, NEW buffer, UNCHANGED sending,
           localHistory' = [localHistory EXCEPT ![p] = h],
           incoming' = [incoming EXCEPT ![p] = buffer],
           \A i \in DOMAIN h : h[i].ts <= clock,
           \A i \in DOMAIN buffer : buffer[i].ts <= clock
    PROVE  ClockAhead'
<1>1. ASSUME NEW m \in sending[p] PROVE m.ts <= clock
  <2>1. m.ts \in Nat /\ m.ts <= lamport[p] /\ lamport[p] \in Nat
    BY ClockTypes DEF ClockInv, ClockAhead
  <2>2. \A a, b, c \in Nat : a <= b /\ b <= c => a <= c
    OBVIOUS
  <2> QED
    BY <2>1, <2>2, Zenon
<1> QED
  BY <1>1, ClockTypes DEF ClockInv, ClockAhead

\* A recorded history is not ahead of a clock that is ahead of the message and of the history.
LEMMA RecordClock ==
    ASSUME ClockInv, NEW p \in Peers, NEW m \in Content,
           NEW clock \in Nat, lamport[p] <= clock, m.ts <= clock
    PROVE  LET h == RecordInHistory(localHistory[p], m.id, m.ts)
           IN  \A i \in DOMAIN h : h[i].ts <= clock
<1> DEFINE h == RecordInHistory(localHistory[p], m.id, m.ts)
<1>1. m.id \in ContentIds /\ m.ts \in Nat /\ localHistory[p] \in Seq(Entry) /\ lamport[p] \in Nat
  BY ClockFacts, ContentFacts, Zenon
<1>2. \A i \in DOMAIN h : h[i].ts = m.ts \/ \E j \in DOMAIN localHistory[p] : h[i] = localHistory[p][j]
  BY <1>1, RecordStamps, Zenon
<1>3. \A j \in DOMAIN localHistory[p] : localHistory[p][j] \in Entry /\ localHistory[p][j].ts <= lamport[p]
  BY <1>1, ElementOfSeq, LenProperties DEF ClockInv, ClockAhead
<1>4. \A e \in Entry : e.ts \in Nat
  BY DEF Entry
<1> HIDE DEF h
<1>5. \A i \in DOMAIN h : h[i].ts <= clock
  BY <1>1, <1>2, <1>3, <1>4
<1> QED
  BY <1>5 DEF h

\* What is buffered is not ahead of a later clock.
LEMMA BufferClock ==
    ASSUME ClockInv, NEW p \in Peers, NEW clock \in Nat, lamport[p] <= clock
    PROVE  /\ incoming[p] \in Seq(Content)
           /\ \A i \in DOMAIN incoming[p] : incoming[p][i] \in Content /\ incoming[p][i].ts <= clock
<1>1. incoming[p] \in Seq(Content) /\ lamport[p] \in Nat
  BY DEF ClockInv, ChannelTypes
<1>2. \A i \in DOMAIN incoming[p] : incoming[p][i] \in Content /\ incoming[p][i].ts <= lamport[p]
  BY <1>1, ElementOfSeq, LenProperties DEF ClockInv, ClockAhead
<1>3. \A m \in Content : m.ts \in Nat
  BY DEF Content
<1> QED
  BY <1>1, <1>2, <1>3

LEMMA HandleClocks ==
    ASSUME ClockInv, NEW p \in Peers, NEW m, <<p, m>> \in net, Handle(p, m)
    PROVE  ClockAhead'
<1> DEFINE clock == UpdateTimestamp(lamport[p], m.ts)
<1>1. lamport[p] \in Nat /\ ChannelTypes
  BY DEF ClockInv, ChannelTypes
<1>2. CASE ReceiveDuplicate(p, m)
  BY <1>2, Zenon DEF ClockInv, ClockAhead, ReceiveDuplicate, chanVars
<1>3. CASE ReceiveInOrder(p, m)
  <2>1. m \in Content /\ m.ts \in Nat
    <3>1. m.type = "content"
      BY <1>3, Zenon DEF ReceiveInOrder
    <3>2. m \in Content
      BY <1>1, <3>1, InFlightLemma, Zenon
    <3> QED
      BY <3>2 DEF Content
  <2>2. clock \in Nat /\ lamport[p] <= clock /\ m.ts <= clock
    BY <1>1, <2>1, UpdateLemma, Zenon
  <2> DEFINE h == RecordInHistory(localHistory[p], m.id, m.ts)
  <2>3. /\ lamport' = [lamport EXCEPT ![p] = clock]
        /\ localHistory' = [localHistory EXCEPT ![p] = h]
        /\ incoming' = [incoming EXCEPT ![p] = incoming[p]]
        /\ UNCHANGED sending
    BY <1>1, <1>3 DEF ReceiveInOrder, Deliver, ChannelTypes
  <2> HIDE DEF clock
  <2>4. \A i \in DOMAIN h : h[i].ts <= clock
    BY <2>1, <2>2, RecordClock
  <2>5. \A i \in DOMAIN incoming[p] : incoming[p][i].ts <= clock
    BY <2>2, BufferClock
  <2> QED
    BY <2>2, <2>3, <2>4, <2>5, ForwardClocks, Zenon
<1>4. CASE ReceiveOutOfOrder(p, m)
  <2>1. m \in Content /\ m.ts \in Nat
    <3>1. m.type = "content"
      BY <1>4 DEF ReceiveOutOfOrder
    <3>2. m \in Content
      BY <1>1, <3>1, InFlightLemma
    <3> QED
      BY <3>2 DEF Content
  <2>2. clock \in Nat /\ lamport[p] <= clock /\ m.ts <= clock
    BY <1>1, <2>1, UpdateLemma, Zenon
  <2> DEFINE buffer == PushCapped(incoming[p], m, IncomingMax)
  <2>3. /\ lamport' = [lamport EXCEPT ![p] = clock]
        /\ incoming' = [incoming EXCEPT ![p] = buffer]
        /\ UNCHANGED <<sending, localHistory>>
    BY <1>4 DEF ReceiveOutOfOrder
  <2> HIDE DEF clock
  <2>4. incoming[p] \in Seq(Content) /\ \A i \in DOMAIN incoming[p] : incoming[p][i].ts <= clock
    BY <2>2, BufferClock
  <2>5. \A i \in DOMAIN buffer : buffer[i] = m \/ \E j \in DOMAIN incoming[p] : buffer[i] = incoming[p][j]
    BY <2>1, <2>4, BufferedLemma, Zenon
  <2> HIDE DEF buffer
  <2>6. \A i \in DOMAIN buffer : buffer[i].ts <= clock
    BY <2>2, <2>4, <2>5
  <2>7. \A i \in DOMAIN localHistory[p] : localHistory[p][i].ts <= clock
    <3>1. \A i \in DOMAIN localHistory[p] : localHistory[p][i] \in Entry /\ localHistory[p][i].ts <= lamport[p]
      BY <1>1, ElementOfSeq, LenProperties, Zenon DEF ClockInv, ClockAhead, ChannelTypes
    <3>2. \A e \in Entry : e.ts \in Nat
      BY DEF Entry
    <3> QED
      BY <1>1, <2>2, <3>1, <3>2
  <2>8. localHistory' = [localHistory EXCEPT ![p] = localHistory[p]]
    BY <1>1, <2>3 DEF ChannelTypes
  <2> QED
    BY <2>2, <2>3, <2>6, <2>7, <2>8, ForwardClocks, Zenon
<1>5. CASE ReceiveSync(p, m)
  <2>1. m.ts \in Nat
    <3>1. m.type = "sync"
      BY <1>5 DEF ReceiveSync
    <3>2. m \in Sync
      BY <1>1, <3>1, InFlightLemma
    <3> QED
      BY <3>2 DEF Sync
  <2>2. clock \in Nat /\ lamport[p] <= clock /\ m.ts <= clock
    BY <1>1, <2>1, UpdateLemma, Zenon
  <2>3. /\ lamport' = [lamport EXCEPT ![p] = clock]
        /\ localHistory' = [localHistory EXCEPT ![p] = localHistory[p]]
        /\ incoming' = [incoming EXCEPT ![p] = incoming[p]]
        /\ UNCHANGED sending
    BY <1>1, <1>5 DEF ReceiveSync, ChannelTypes
  <2> HIDE DEF clock
  <2>4. \A i \in DOMAIN localHistory[p] : localHistory[p][i].ts <= clock
    <3>1. \A i \in DOMAIN localHistory[p] : localHistory[p][i] \in Entry /\ localHistory[p][i].ts <= lamport[p]
      BY <1>1, ElementOfSeq, LenProperties DEF ClockInv, ClockAhead, ChannelTypes
    <3>2. \A e \in Entry : e.ts \in Nat
      BY DEF Entry
    <3> QED
      BY <1>1, <2>2, <3>1, <3>2
  <2>5. \A i \in DOMAIN incoming[p] : incoming[p][i].ts <= clock
    BY <2>2, BufferClock
  <2> QED
    BY <2>2, <2>3, <2>4, <2>5, ForwardClocks, Zenon
<1>6. CASE ReceiveEphemeral(p, m)
  BY <1>6, Zenon DEF ClockInv, ClockAhead, ReceiveEphemeral
<1> QED
  BY <1>2, <1>3, <1>4, <1>5, <1>6 DEF Handle

\* receive leaves the pending timestamps alone and never sets the clock back.
LEMMA HandleStamps ==
    ASSUME ClockInv, NEW p \in Peers, NEW m, <<p, m>> \in net, Handle(p, m)
    PROVE  StampsAhead' /\ between' = between
<1>1. UNCHANGED <<stamped, between>>
  BY Zenon DEF Handle, ReceiveDuplicate, ReceiveInOrder, ReceiveOutOfOrder, ReceiveSync,
               ReceiveEphemeral, chanVars, ghostVars
<1>2. \/ UNCHANGED lamport
      \/ lamport' = [lamport EXCEPT ![p] = UpdateTimestamp(@, m.ts)]
  BY Zenon DEF Handle, ReceiveDuplicate, ReceiveInOrder, ReceiveOutOfOrder, ReceiveSync,
               ReceiveEphemeral, chanVars
<1>3. m.ts \in Nat
  <2>1. m \in SdsMessage
    BY InFlightLemma, Zenon DEF ClockInv
  <2>2. m \in Content => m.ts \in Nat
    BY ContentFacts, Zenon
  <2>3. m \in Sync => m.ts \in Nat
    BY DEF Sync
  <2>4. m \in Ephemeral => m.ts \in Nat
    BY DEF Ephemeral
  <2> QED
    BY <2>1, <2>2, <2>3, <2>4, Zenon DEF SdsMessage
<1>4. lamport \in [Peers -> Nat]
  BY ClockTypes, Zenon
<1>5. \A n \in Nat : UpdateTimestamp(n, m.ts) \in Nat /\ n <= UpdateTimestamp(n, m.ts)
  BY <1>3, UpdateLemma, Zenon
<1>6. \A q \in Peers : lamport'[q] \in Nat /\ lamport[q] <= lamport'[q]
  BY <1>2, <1>4, <1>5
<1> QED
  BY <1>1, <1>6, KeptStamps, Zenon

LEMMA ResolveClocks ==
    ASSUME ClockInv, NEW p \in Peers, Resolve(p)
    PROVE  ClockAhead' /\ LamportCondition'
<1>1. CASE ResolveDeliver(p)
  <2> DEFINE m == incoming[p][scan[p].pos]
             h == RecordInHistory(localHistory[p], m.id, m.ts)
             buffer == RemoveNth(incoming[p], scan[p].pos)
  <2>1. lamport[p] \in Nat /\ lamport[p] <= lamport[p] /\ lamport' = [lamport EXCEPT ![p] = lamport[p]]
    BY <1>1 DEF ClockInv, ChannelTypes, ResolveDeliver
  <2>2. scan[p].pos \in DOMAIN incoming[p]
    BY <1>1 DEF ResolveDeliver
  <2>3. incoming[p] \in Seq(Content) /\ m \in Content /\ m.ts <= lamport[p]
    BY <2>1, <2>2, BufferClock
  <2>4. /\ localHistory' = [localHistory EXCEPT ![p] = h]
        /\ incoming' = [incoming EXCEPT ![p] = buffer]
        /\ UNCHANGED <<sending, published, between>>
    BY <1>1 DEF ResolveDeliver, Deliver, netVars
  <2>5. \A i \in DOMAIN h : h[i].ts <= lamport[p]
    BY <2>1, <2>3, RecordClock, Zenon
  <2>6. \A i \in DOMAIN buffer : \E j \in DOMAIN incoming[p] : buffer[i] = incoming[p][j]
    BY <2>2, <2>3, RemoveLemma
  <2> HIDE DEF m, h, buffer
  <2>7. \A i \in DOMAIN buffer : buffer[i].ts <= lamport[p]
    BY <2>6 DEF ClockInv, ClockAhead
  <2>8. ClockAhead'
    BY <2>1, <2>4, <2>5, <2>7, ForwardClocks, Zenon
  <2> QED
    BY <2>4, <2>8, NothingNew, Zenon
<1>2. CASE ResolveKeep(p)
  <2>1. UNCHANGED <<lamport, localHistory, incoming, sending, published, between>>
    BY <1>2 DEF ResolveKeep, netVars, ghostVars
  <2> QED
    BY <2>1, NothingNew, Zenon DEF ClockInv, ClockAhead
<1>3. CASE ResolvePassEnd(p)
  <2>1. UNCHANGED <<lamport, localHistory, incoming, sending, published, between>>
    BY <1>3 DEF ResolvePassEnd, netVars, ghostVars
  <2> QED
    BY <2>1, NothingNew, Zenon DEF ClockInv, ClockAhead
<1> QED
  BY <1>1, <1>2, <1>3 DEF Resolve

LEMMA ClockStep == ClockInv /\ [Next]_vars => ClockInv'
<1> SUFFICES ASSUME ClockInv, [Next]_vars PROVE ClockInv'
  OBVIOUS
<1>1. ChannelTypes'
  BY StepTypes DEF ClockInv
<1>2. CASE UNCHANGED vars
  BY <1>1, <1>2, Zenon DEF ClockInv, ClockAhead, StampsAhead, LamportCondition, vars, chanVars,
                           netVars, ghostVars
<1>3. ASSUME NEW p \in Peers, NEW c \in net, NEW again \in BOOLEAN, c[1] = p,
             Receive(p, c[2], again) \/ ReceiveAndRepair(p, c[2], again) \/ RepairError(p, c[2], again)
      PROVE  ClockAhead' /\ StampsAhead' /\ LamportCondition'
  <2>1. published' = published /\ c = <<p, c[2]>>
    <3>1. net \subseteq Peers \X published
      BY ClockTypes DEF ChannelTypes
    <3>2. published' = published
      BY <1>3 DEF Receive, ReceiveAndRepair, RepairError, Take
    <3> QED
      BY <1>3, <3>1, <3>2
  <2>2. CASE Handle(p, c[2])
    BY <2>1, <2>2, HandleClocks, HandleStamps, NothingNew, Zenon
  <2>3. CASE UNCHANGED <<chanVars, ghostVars>>
    <3>1. UNCHANGED <<lamport, localHistory, incoming, stamped, sending, between>>
      BY <2>3, Zenon DEF chanVars, ghostVars
    <3>2. ClockAhead'
      BY <3>1, Zenon DEF ClockInv, ClockAhead
    <3> QED
      BY <2>1, <3>1, <3>2, SameStamps, NothingNew, Zenon
  <2> QED
    BY <1>3, <2>2, <2>3, Zenon DEF Receive, ReceiveAndRepair, RepairError
<1>4. ASSUME NEW p \in Peers, Restart(p) PROVE ClockAhead' /\ StampsAhead' /\ LamportCondition'
  <2>1. \A q \in Peers : /\ q # p => /\ lamport'[q] = lamport[q]
                                     /\ localHistory'[q] = localHistory[q]
                                     /\ incoming'[q] = incoming[q]
                                     /\ sending'[q] = sending[q]
                         /\ q = p => localHistory'[q] = <<>> /\ incoming'[q] = <<>> /\ sending'[q] = {}
    BY <1>4, ClockTypes DEF Restart
  <2>2. ClockAhead'
    <3>1. DOMAIN <<>> = {}
      OBVIOUS
    <3> SUFFICES ASSUME NEW q \in Peers
                 PROVE  /\ \A i \in DOMAIN localHistory'[q] : localHistory'[q][i].ts <= lamport'[q]
                        /\ \A i \in DOMAIN incoming'[q] : incoming'[q][i].ts <= lamport'[q]
                        /\ \A m \in sending'[q] : m.ts <= lamport'[q]
      BY Zenon DEF ClockAhead
    <3>2. CASE q = p
      BY <2>1, <3>1, <3>2, Zenon
    <3>3. CASE q # p
      BY <2>1, <3>3, Zenon DEF ClockInv, ClockAhead
    <3> QED
      BY <3>2, <3>3, Zenon
  <2>3. \A q \in Peers : IF q = p THEN stamped'[q] = {} ELSE stamped'[q] = stamped[q]
    <3>1. stamped \in [Peers -> SUBSET Stamp]
      BY Zenon DEF ClockInv, ChannelTypes
    <3> QED
      BY <1>4, <3>1 DEF Restart
  <2>4. \A q \in Peers : lamport[q] \in Nat /\ lamport[q] <= lamport[q]
    BY ClockTypes
  <2>5. \A q \in Peers : stamped'[q] \subseteq stamped[q]
    BY <2>3, Zenon
  <2>6. \A q \in Peers : (lamport'[q] \in Nat /\ lamport[q] <= lamport'[q]) \/ stamped'[q] = {}
    BY <2>1, <2>3, <2>4, Zenon
  <2>7. StampsAhead'
    BY <2>5, <2>6, KeptStamps, Zenon
  <2>8. UNCHANGED <<published, between>>
    BY <1>4 DEF Restart
  <2> QED
    BY <2>2, <2>7, <2>8, NothingNew, Zenon
<1>5. ASSUME NEW p \in Peers, Resolve(p) PROVE ClockAhead' /\ StampsAhead' /\ LamportCondition'
  <2>1. UNCHANGED <<lamport, stamped>>
    BY <1>5, Zenon DEF Resolve, ResolveDeliver, ResolveKeep, ResolvePassEnd
  <2> QED
    BY <1>5, <2>1, ResolveClocks, SameStamps, Zenon
<1>6. CASE Next
  BY <1>1, <1>3, <1>4, <1>5, <1>6, TickClocks, SendClocks, Zenon DEF Next, ClockInv
<1> QED
  BY <1>2, <1>6

\* The Lamport condition of the channel holds for every number of peers and messages: every
\* message is later than everything in its causal history, but for what another call recorded
\* between its next_timestamp and its build_causal_history.
THEOREM LamportConditionHolds == Spec => []LamportCondition
<1>1. Init => ClockInv
  <2> SUFFICES ASSUME Init PROVE ClockAhead /\ StampsAhead /\ LamportCondition
    BY InitTypes DEF ClockInv
  <2>1. published = {}
    BY DEF Init
  <2>2. ASSUME NEW p \in Peers
        PROVE  localHistory[p] = <<>> /\ incoming[p] = <<>> /\ sending[p] = {}
    BY <2>2 DEF Init
  <2>3. ClockAhead
    <3>1. \A p \in Peers : DOMAIN localHistory[p] = {} /\ DOMAIN incoming[p] = {} /\ sending[p] = {}
      <4>1. DOMAIN <<>> = {}
        OBVIOUS
      <4> QED
        BY <2>2, <4>1, Zenon
    <3> QED
      BY <3>1, Zenon DEF ClockAhead
  <2>4. LamportCondition
    BY <2>1 DEF LamportCondition
  <2>5. StampsAhead
    <3>1. \A p \in Peers : stamped[p] = {}
      BY DEF Init
    <3> QED
      BY <3>1, Zenon DEF StampsAhead
  <2> QED
    BY <2>3, <2>4, <2>5
<1>2. ClockInv => LamportCondition
  BY DEF ClockInv
<1> QED
  BY <1>1, <1>2, ClockStep, PTL DEF Spec
===============================================================================
