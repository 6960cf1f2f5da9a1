--------------------------- MODULE SdsDeliveryProofs --------------------------
(***************************************************************************)
(* What receive hands to the application, what an acknowledgement means    *)
(* and how large the buffers of a channel get, for every number of peers,  *)
(* payloads and messages, checked by TLAPS on the types that               *)
(* SdsChannelProofs establishes.                                           *)
(***************************************************************************)
EXTENDS SdsChannelProofs, FiniteSetTheorems

-------------------------------------------------------------------------------
(* The kinds of steps, as far as what a peer knows is concerned *)

\* Sends up to the await, duplicates, buffered messages and the scan of the buffer.
LearnsNothing == UNCHANGED <<bloom, forgot, delivered, ownSent>>

\* send after the await.
LearnsOwn(p) ==
    \E id \in ContentIds :
        /\ Remember(p, id)
        /\ ownSent' = [ownSent EXCEPT ![p] = @ \cup {id}]
        /\ UNCHANGED delivered

\* receive of a sync or an ephemeral message.
LearnsOther(p) ==
    \E id \in OtherIds : Remember(p, id) /\ UNCHANGED <<delivered, ownSent>>

\* A delivery by receive, which checked the id, or by resolve_buffered, which does not.
HandsOver(p) ==
    \E m \in Content, via \in {"receive", "buffer"} :
        /\ DependenciesSatisfied(bloom[p], m.history)
        /\ via = "receive" => ~BloomCheck(bloom[p], m.id)
        /\ Deliver(p, m, via)
        /\ UNCHANGED ownSent

\* A restart.
Forgets(p) ==
    /\ bloom' = [bloom EXCEPT ![p] = BloomNew]
    /\ forgot' = [forgot EXCEPT ![p] = @ \cup {"restart"}]
    /\ UNCHANGED <<delivered, ownSent>>

\* A receive is one of these.
LEMMA HandleKinds ==
    ASSUME ChannelTypes, NEW p \in Peers, NEW m, <<p, m>> \in net, Handle(p, m)
    PROVE  LearnsNothing \/ LearnsOther(p) \/ HandsOver(p)
<1>1. CASE ReceiveDuplicate(p, m)
  BY <1>1 DEF ReceiveDuplicate, LearnsNothing, chanVars, ghostVars
<1>2. CASE ReceiveInOrder(p, m)
  <2>1. m \in Content
    BY <1>2, InFlightLemma DEF ReceiveInOrder
  <2>2. /\ DependenciesSatisfied(bloom[p], m.history)
        /\ ~BloomCheck(bloom[p], m.id)
        /\ Deliver(p, m, "receive")
        /\ UNCHANGED ownSent
    BY <1>2 DEF ReceiveInOrder
  <2> QED
    BY <2>1, <2>2, Zenon DEF HandsOver
<1>3. CASE ReceiveOutOfOrder(p, m)
  BY <1>3 DEF ReceiveOutOfOrder, LearnsNothing
<1>4. CASE ReceiveSync(p, m)
  <2>1. m \in Sync
    BY <1>4, InFlightLemma DEF ReceiveSync
  <2>2. m.id \in OtherIds
    BY <2>1 DEF Sync
  <2> QED
    BY <1>4, <2>2, Zenon DEF ReceiveSync, LearnsOther
<1>5. CASE ReceiveEphemeral(p, m)
  <2>1. m \in Ephemeral
    BY <1>5, InFlightLemma DEF ReceiveEphemeral
  <2>2. m.id \in OtherIds
    BY <2>1 DEF Ephemeral
  <2> QED
    BY <1>5, <2>2, Zenon DEF ReceiveEphemeral, LearnsOther
<1> QED
  BY <1>1, <1>2, <1>3, <1>4, <1>5 DEF Handle

\* A pass of resolve_buffered is one of these.
LEMMA ResolveKinds ==
    ASSUME ChannelTypes, NEW p \in Peers, Resolve(p)
    PROVE  LearnsNothing \/ HandsOver(p)
<1>1. CASE ResolveDeliver(p)
  <2> DEFINE m == incoming[p][scan[p].pos]
  <2>1. scan[p].pos \in DOMAIN incoming[p] /\ incoming[p] \in Seq(Content)
    BY <1>1 DEF ResolveDeliver, ChannelTypes
  <2>2. m \in Content
    BY <2>1, ElementOfSeq, LenProperties
  <2>3. /\ DependenciesSatisfied(bloom[p], m.history)
        /\ Deliver(p, m, "buffer")
        /\ UNCHANGED ownSent
    BY <1>1 DEF ResolveDeliver
  <2> HIDE DEF m
  <2>4. "buffer" \in {"receive", "buffer"} /\ "buffer" # "receive"
    OBVIOUS
  <2> QED
    BY <2>2, <2>3, <2>4, Zenon DEF HandsOver
<1>2. CASE ResolveKeep(p) \/ ResolvePassEnd(p)
  BY <1>2 DEF ResolveKeep, ResolvePassEnd, LearnsNothing, ghostVars
<1> QED
  BY <1>1, <1>2 DEF Resolve

\* Up to its await, a send changes nothing but the clock, the pending calls and the transport.
LEMMA SendLeaves ==
    ASSUME NEW p, NEW x, NEW s,
           \/ NextTimestamp(p) \/ SendPublish(p, x, s) \/ SendSync(p, s) \/ SendFail(p, s)
           \/ SendRepairRequest(p, x, s) \/ SendEphemeral(p, x)
    PROVE  UNCHANGED <<bloom, localHistory, outgoing, incoming, possibleAcks, scan, delivered,
                       ownSent, forgot>>
<1>1. CASE NextTimestamp(p) \/ SendPublish(p, x, s)
  BY <1>1, Zenon DEF NextTimestamp, SendPublish, ghostVars
<1>2. CASE SendSync(p, s) \/ SendRepairRequest(p, x, s)
  BY <1>2, Zenon DEF SendSync, SendRepairRequest, PublishSync
<1>3. CASE SendFail(p, s) \/ SendEphemeral(p, x)
  BY <1>3, Zenon DEF SendFail, SendEphemeral, chanVars, ghostVars
<1> QED
  BY <1>1, <1>2, <1>3

\* Every step is one of these.
LEMMA StepKinds ==
    ASSUME ChannelTypes, [Next]_vars
    PROVE  \/ LearnsNothing
           \/ \E p \in Peers : LearnsOwn(p) \/ LearnsOther(p) \/ HandsOver(p) \/ Forgets(p)
<1>1. CASE UNCHANGED vars
  BY <1>1 DEF vars, chanVars, ghostVars, LearnsNothing
<1>2. ASSUME NEW p \in Peers, NEW x, NEW s,
             \/ NextTimestamp(p) \/ SendPublish(p, x, s) \/ SendSync(p, s) \/ SendFail(p, s)
             \/ SendRepairRequest(p, x, s) \/ SendEphemeral(p, x)
      PROVE  LearnsNothing
  BY <1>2, SendLeaves, Zenon DEF LearnsNothing
<1>3. ASSUME NEW p \in Peers, NEW m \in sending[p], SendComplete(p, m)
      PROVE  LearnsOwn(p)
  <2>1. m.id \in ContentIds
    BY DEF ChannelTypes, Content
  <2> QED
    BY <1>3, <2>1, Zenon DEF SendComplete, LearnsOwn
<1>4. ASSUME NEW p \in Peers, NEW m, SendError(p, m)
      PROVE  LearnsNothing
  BY <1>4 DEF SendError, ghostVars, LearnsNothing
<1>5. ASSUME NEW p \in Peers, NEW m, NEW again,
             Receive(p, m, again) \/ ReceiveAndRepair(p, m, again) \/ RepairError(p, m, again)
      PROVE  LearnsNothing \/ LearnsOther(p) \/ HandsOver(p)
  <2>1. CASE Receive(p, m, again) \/ ReceiveAndRepair(p, m, again)
    <3>1. <<p, m>> \in net /\ Handle(p, m)
      BY <2>1 DEF Receive, ReceiveAndRepair, Take
    <3> QED
      BY <3>1, HandleKinds
  <2>2. CASE RepairError(p, m, again)
    BY <2>2 DEF RepairError, chanVars, ghostVars, LearnsNothing
  <2> QED
    BY <1>5, <2>1, <2>2
<1>6. ASSUME NEW p \in Peers, Restart(p)
      PROVE  Forgets(p)
  BY <1>6 DEF Restart, Forgets
<1> QED
  BY <1>1, <1>2, <1>3, <1>4, <1>5, <1>6, ResolveKinds, Zenon DEF Next

\* bloom.set adds the bits of the id to the filter, or empties it, which is noted.
LEMMA RememberLemma ==
    ASSUME ChannelTypes, NEW p \in Peers, NEW id \in MessageId, Remember(p, id)
    PROVE  /\ \A q \in Peers : q # p => bloom'[q] = bloom[q] /\ forgot'[q] = forgot[q]
           /\ \/ bloom'[p].bits = bloom[p].bits \cup BitsOf(id) /\ forgot'[p] = forgot[p]
              \/ bloom'[p].bits = {} /\ forgot'[p] = forgot[p] \cup {"reset"}
<1>1. bloom[p] \in Filter /\ DOMAIN bloom = Peers /\ DOMAIN forgot = Peers
  BY DEF ChannelTypes
<1>2. /\ \A q \in Peers : q # p => bloom'[q] = bloom[q] /\ forgot'[q] = forgot[q]
      /\ bloom'[p] = BloomSet(bloom[p], id)
      /\ forgot'[p] = IF BloomResets(bloom[p]) THEN forgot[p] \cup {"reset"} ELSE forgot[p]
  BY <1>1 DEF Remember
<1>3. BloomResets(bloom[p]) => BloomSet(bloom[p], id).bits = {}
  BY DEF BloomSet, BloomNew
<1>4. ~BloomResets(bloom[p]) => BloomSet(bloom[p], id).bits = bloom[p].bits \cup BitsOf(id)
  BY DEF BloomSet
<1> QED
  BY <1>2, <1>3, <1>4

\* A delivery appends to what the peer handed over.
LEMMA DeliverLemma ==
    ASSUME ChannelTypes, NEW p \in Peers, NEW m \in Content, NEW via \in {"receive", "buffer"},
           Deliver(p, m, via)
    PROVE  LET n == Len(delivered[p])
           IN  /\ n \in Nat
               /\ \A q \in Peers : q # p => delivered'[q] = delivered[q]
               /\ DOMAIN delivered[p] = 1..n /\ DOMAIN delivered'[p] = 1..(n + 1)
               /\ \A i \in 1..n : delivered'[p][i] = delivered[p][i]
               /\ delivered'[p][n + 1].msg = m /\ delivered'[p][n + 1].via = via
<1> DEFINE e == [msg |-> m, via |-> via]
           n == Len(delivered[p])
<1>1. delivered[p] \in Seq(Delivery) /\ DOMAIN delivered = Peers
  BY DEF ChannelTypes
<1>2. e \in Delivery
  BY DEF Delivery
<1>3. /\ \A q \in Peers : q # p => delivered'[q] = delivered[q]
      /\ delivered'[p] = Append(delivered[p], e)
  BY <1>1 DEF Deliver
<1>4. e.msg = m /\ e.via = via
  OBVIOUS
<1> HIDE DEF e
<1>5. /\ n \in Nat /\ DOMAIN delivered[p] = 1..n
      /\ Len(delivered'[p]) = n + 1 /\ delivered'[p] \in Seq(Delivery)
      /\ delivered'[p][n + 1] = e
      /\ \A i \in 1..n : delivered'[p][i] = delivered[p][i]
  BY <1>1, <1>2, <1>3, AppendProperties, LenProperties
<1>6. DOMAIN delivered'[p] = 1..(n + 1)
  BY <1>5, LenProperties
<1> QED
  BY <1>3, <1>4, <1>5, <1>6

-------------------------------------------------------------------------------
(* Duplicates *)

\* While its filter has not been emptied, a peer recognises everything it handed over.
RecognisesDelivered ==
    \A p \in Peers : forgot[p] = {} =>
        \A i \in DOMAIN delivered[p] : BloomCheck(bloom[p], delivered[p][i].msg.id)

FreshInv == ChannelTypes /\ RecognisesDelivered /\ DirectDeliveryIsFresh

\* A filter that grows keeps what it recognises.
LEMMA RecognisesMore ==
    ASSUME FreshInv, NEW p \in Peers, NEW id \in MessageId, Remember(p, id), UNCHANGED delivered
    PROVE  RecognisesDelivered' /\ DirectDeliveryIsFresh'
<1>1. /\ \A q \in Peers : q # p => bloom'[q] = bloom[q] /\ forgot'[q] = forgot[q]
      /\ \/ bloom'[p].bits = bloom[p].bits \cup BitsOf(id) /\ forgot'[p] = forgot[p]
         \/ bloom'[p].bits = {} /\ forgot'[p] = forgot[p] \cup {"reset"}
  BY RememberLemma DEF FreshInv
<1>2. \A q \in Peers : forgot'[q] = {} => forgot[q] = {} /\ bloom[q].bits \subseteq bloom'[q].bits
  BY <1>1
<1> QED
  BY <1>2 DEF FreshInv, RecognisesDelivered, DirectDeliveryIsFresh, BloomCheck

LEMMA HandsOverFresh ==
    ASSUME FreshInv, NEW p \in Peers, HandsOver(p)
    PROVE  RecognisesDelivered' /\ DirectDeliveryIsFresh'
<1>1. PICK m \in Content, via \in {"receive", "buffer"} :
          /\ via = "receive" => ~BloomCheck(bloom[p], m.id)
          /\ Deliver(p, m, via)
  BY DEF HandsOver
<1> DEFINE n == Len(delivered[p])
<1>2. /\ n \in Nat
      /\ \A q \in Peers : q # p => delivered'[q] = delivered[q]
      /\ DOMAIN delivered[p] = 1..n /\ DOMAIN delivered'[p] = 1..(n + 1)
      /\ \A i \in 1..n : delivered'[p][i] = delivered[p][i]
      /\ delivered'[p][n + 1].msg = m /\ delivered'[p][n + 1].via = via
  BY <1>1, DeliverLemma DEF FreshInv
<1>3. m.id \in MessageId /\ Remember(p, m.id)
  BY <1>1 DEF Content, MessageId, Deliver
<1>4. /\ \A q \in Peers : q # p => bloom'[q] = bloom[q] /\ forgot'[q] = forgot[q]
      /\ \/ bloom'[p].bits = bloom[p].bits \cup BitsOf(m.id) /\ forgot'[p] = forgot[p]
         \/ bloom'[p].bits = {} /\ forgot'[p] = forgot[p] \cup {"reset"}
  BY <1>3, RememberLemma DEF FreshInv
<1> HIDE DEF n
<1>5. ASSUME NEW q \in Peers, forgot'[q] = {}, NEW i \in DOMAIN delivered'[q]
      PROVE  BloomCheck(bloom'[q], delivered'[q][i].msg.id)
  <2>1. CASE q # p
    BY <1>2, <1>4, <1>5, <2>1 DEF FreshInv, RecognisesDelivered
  <2>2. CASE q = p
    <3>1. bloom'[p].bits = bloom[p].bits \cup BitsOf(m.id) /\ forgot[p] = {}
      BY <1>4, <1>5, <2>2
    <3>2. CASE i = n + 1
      BY <1>2, <2>2, <3>1, <3>2 DEF BloomCheck
    <3>3. CASE i \in 1..n
      BY <1>2, <2>2, <3>1, <3>3, Zenon DEF BloomCheck, FreshInv, RecognisesDelivered
    <3> QED
      BY <1>2, <1>5, <2>2, <3>2, <3>3
  <2> QED
    BY <2>1, <2>2
<1>6. ASSUME NEW q \in Peers, NEW j \in DOMAIN delivered'[q],
             forgot'[q] = {}, delivered'[q][j].via = "receive", NEW i \in 1..(j - 1)
      PROVE  delivered'[q][i].msg.id # delivered'[q][j].msg.id
  <2>1. CASE q # p
    BY <1>2, <1>4, <1>6, <2>1 DEF FreshInv, DirectDeliveryIsFresh
  <2>2. CASE q = p /\ j \in 1..n
    <3>1. forgot[p] = {} /\ i \in 1..n
      BY <1>2, <1>4, <1>6, <2>2
    <3>2. delivered'[p][i] = delivered[p][i] /\ delivered'[p][j] = delivered[p][j]
          /\ j \in DOMAIN delivered[p]
      BY <1>2, <2>2, <3>1
    <3>3. delivered[p][j].via = "receive"
      BY <1>6, <2>2, <3>2
    <3>4. delivered[p][i].msg.id # delivered[p][j].msg.id
      BY <3>1, <3>2, <3>3 DEF FreshInv, DirectDeliveryIsFresh
    <3> QED
      BY <2>2, <3>2, <3>4
  <2>3. CASE q = p /\ j = n + 1
    <3>1. forgot[p] = {} /\ i \in 1..n
      BY <1>2, <1>4, <1>6, <2>3
    <3>2. BloomCheck(bloom[p], delivered[p][i].msg.id)
      BY <1>2, <3>1 DEF FreshInv, RecognisesDelivered
    <3>3. ~BloomCheck(bloom[p], m.id)
      BY <1>1, <1>2, <1>6, <2>3
    <3> QED
      BY <1>2, <2>3, <3>1, <3>2, <3>3
  <2> QED
    BY <1>2, <1>6, <2>1, <2>2, <2>3
<1> QED
  BY <1>5, <1>6 DEF RecognisesDelivered, DirectDeliveryIsFresh

LEMMA FreshStep == FreshInv /\ [Next]_vars => FreshInv'
<1> SUFFICES ASSUME FreshInv, [Next]_vars PROVE FreshInv'
  OBVIOUS
<1>1. ChannelTypes /\ ChannelTypes'
  BY StepTypes DEF FreshInv
<1>2. CASE LearnsNothing
  BY <1>1, <1>2 DEF FreshInv, LearnsNothing, RecognisesDelivered, DirectDeliveryIsFresh
<1>3. ASSUME NEW p \in Peers, LearnsOwn(p) \/ LearnsOther(p)
      PROVE  FreshInv'
  <2>1. PICK id \in MessageId : Remember(p, id) /\ UNCHANGED delivered
    BY <1>3 DEF LearnsOwn, LearnsOther, MessageId
  <2> QED
    BY <1>1, <2>1, RecognisesMore DEF FreshInv
<1>4. ASSUME NEW p \in Peers, HandsOver(p)
      PROVE  FreshInv'
  BY <1>1, <1>4, HandsOverFresh DEF FreshInv
<1>5. ASSUME NEW p \in Peers, Forgets(p)
      PROVE  FreshInv'
  <2>1. /\ \A q \in Peers : q # p => bloom'[q] = bloom[q] /\ forgot'[q] = forgot[q]
        /\ forgot'[p] # {} /\ UNCHANGED delivered
    BY <1>1, <1>5 DEF Forgets, ChannelTypes
  <2> QED
    BY <1>1, <2>1 DEF FreshInv, RecognisesDelivered, DirectDeliveryIsFresh
<1> QED
  BY <1>1, <1>2, <1>3, <1>4, <1>5, StepKinds

\* While its filter has not been emptied, a peer never gets from receive directly a message whose
\* id it was already handed: whatever the filter's false positives, and with any number of peers,
\* copies, syncs and buffered messages in between.
THEOREM DirectDeliveryIsFreshHolds == Spec => []DirectDeliveryIsFresh
<1>1. Init => FreshInv
  <2> SUFFICES ASSUME Init PROVE FreshInv
    OBVIOUS
  <2>1. ChannelTypes
    BY InitTypes
  <2>2. \A p \in Peers : DOMAIN delivered[p] = {}
    BY DEF Init
  <2> QED
    BY <2>1, <2>2 DEF FreshInv, RecognisesDelivered, DirectDeliveryIsFresh
<1>2. FreshInv => DirectDeliveryIsFresh
  BY DEF FreshInv
<1> QED
  BY <1>1, <1>2, FreshStep, PTL DEF Spec

-------------------------------------------------------------------------------
(* Causal order *)

\* The bits of an id that the hash functions select for no other id.
OwnBits(id) == BitsOf(id) \ UNION {BitsOf(x) : x \in MessageId \ {id}}

\* A filter without false positives: no set of other ids covers the bits of an id.
ExactFilter == \A id \in MessageId : OwnBits(id) # {}

\* No ephemeral message has the payload, and so the id, of a content message.
DistinctPayloads == Payloads \cap Ephemerals = {}

Known(p) == ownSent[p] \cup DeliveredIds(p)
Meets(bits, id) == OwnBits(id) \cap bits # {}

\* A filter holds an id with all of its bits or with none of its own, and the content ids that
\* it holds were handed over or sent.
FilterIsExact ==
    \A p \in Peers : \A id \in MessageId : Meets(bloom[p].bits, id) =>
        /\ BitsOf(id) \subseteq bloom[p].bits
        /\ id \in ContentIds => id \in Known(p)

\* The first half of CausalDelivery.
HandedOverInOrder ==
    \A p \in Peers : \A i \in DOMAIN delivered[p] : \A id \in Ids(delivered[p][i].msg.history) :
        id \in ownSent[p] \/ \E j \in 1..(i - 1) : delivered[p][j].msg.id = id

\* A buffered message has dependencies, and those that the scan has passed without a delivery
\* still wait, unless the peer itself sent what they wait for.
Waits(p, m) ==
    DependenciesSatisfied(bloom[p], m.history) => Ids(m.history) \cap ownSent[p] # {}
KeepsUp(p) ==
    \A i \in DOMAIN incoming[p] :
        /\ DOMAIN incoming[p][i].history # {}
        /\ ~scan[p].progress /\ (scan[p].pos = 0 \/ i < scan[p].pos) => Waits(p, incoming[p][i])
ScanKeepsUp == \A p \in Peers : KeepsUp(p)

CausalInv == ChannelTypes /\ FilterIsExact /\ HandedOverInOrder /\ ScanKeepsUp

\* Ids of sync and of ephemeral messages are not ids of content.
LEMMA ContentIsNotOther ==
    ASSUME DistinctPayloads
    PROVE  ContentIds \cap OtherIds = {}
<1>1. ASSUME NEW x \in Payloads, NEW y \in Ephemerals PROVE ContentId(x) # ContentId(y)
  BY DEF ContentId, DistinctPayloads
<1>2. ASSUME NEW x \in Payloads, NEW t \in 1..MaxTs PROVE ContentId(x) # SyncId(t)
  BY DEF ContentId, SyncId
<1> QED
  BY <1>1, <1>2 DEF ContentIds, OtherIds

\* What a peer knows only grows; what is known of an exact filter follows the bits.
LEMMA FilterGrows ==
    ASSUME NEW id \in MessageId, NEW x \in MessageId, NEW old, NEW new,
           new = old \cup BitsOf(x), Meets(new, id)
    PROVE  id = x \/ Meets(old, id)
<1>1. ASSUME id # x PROVE OwnBits(id) \cap BitsOf(x) = {}
  BY <1>1 DEF OwnBits
<1> QED
  BY <1>1 DEF Meets

\* What a peer has handed over or sent it has handed over or sent ever after.
LEMMA KnownGrows ==
    ASSUME ChannelTypes, [Next]_vars, NEW p \in Peers
    PROVE  ownSent[p] \subseteq ownSent'[p] /\ DeliveredIds(p) \subseteq DeliveredIds(p)'
<1>1. CASE UNCHANGED <<delivered, ownSent>>
  BY <1>1 DEF DeliveredIds
<1>2. ASSUME NEW q \in Peers, LearnsOwn(q)
      PROVE  ownSent[p] \subseteq ownSent'[p] /\ DeliveredIds(p) \subseteq DeliveredIds(p)'
  BY <1>2 DEF LearnsOwn, ChannelTypes, DeliveredIds
<1>3. ASSUME NEW q \in Peers, HandsOver(q)
      PROVE  ownSent[p] \subseteq ownSent'[p] /\ DeliveredIds(p) \subseteq DeliveredIds(p)'
  <2>1. PICK m \in Content, via \in {"receive", "buffer"} : Deliver(q, m, via)
    BY <1>3 DEF HandsOver
  <2> DEFINE n == Len(delivered[q])
  <2>2. /\ n \in Nat
        /\ \A r \in Peers : r # q => delivered'[r] = delivered[r]
        /\ DOMAIN delivered[q] = 1..n /\ DOMAIN delivered'[q] = 1..(n + 1)
        /\ \A i \in 1..n : delivered'[q][i] = delivered[q][i]
    BY <2>1, DeliverLemma
  <2> HIDE DEF n
  <2>3. \A i \in DOMAIN delivered[p] :
            i \in DOMAIN delivered'[p] /\ delivered'[p][i] = delivered[p][i]
    BY <2>2
  <2> QED
    BY <1>3, <2>3 DEF HandsOver, DeliveredIds
<1> QED
  BY <1>1, <1>2, <1>3, StepKinds DEF LearnsNothing, LearnsOther, Forgets

\* An id added to a filter is one that the peer knows, or not one of content.
LEMMA RememberExact ==
    ASSUME ChannelTypes, FilterIsExact, NEW p \in Peers, NEW x \in MessageId, Remember(p, x),
           x \in ContentIds => x \in Known(p)',
           \A q \in Peers : Known(q) \subseteq Known(q)'
    PROVE  FilterIsExact'
<1>1. /\ \A q \in Peers : q # p => bloom'[q] = bloom[q]
      /\ bloom'[p].bits = bloom[p].bits \cup BitsOf(x) \/ bloom'[p].bits = {}
  BY RememberLemma
<1>2. ASSUME NEW q \in Peers, NEW id \in MessageId, Meets(bloom'[q].bits, id)
      PROVE  BitsOf(id) \subseteq bloom'[q].bits /\ (id \in ContentIds => id \in Known(q)')
  <2>1. CASE q # p
    BY <1>1, <1>2, <2>1 DEF FilterIsExact
  <2>2. CASE q = p
    <3>1. bloom'[p].bits = bloom[p].bits \cup BitsOf(x)
      BY <1>1, <1>2, <2>2 DEF Meets
    <3>2. id = x \/ Meets(bloom[p].bits, id)
      BY <1>2, <2>2, <3>1, FilterGrows
    <3> QED
      BY <2>2, <3>1, <3>2 DEF FilterIsExact
  <2> QED
    BY <2>1, <2>2
<1> QED
  BY <1>2 DEF FilterIsExact

LEMMA FilterStep ==
    ASSUME DistinctPayloads, ChannelTypes, FilterIsExact, [Next]_vars
    PROVE  FilterIsExact'
<1>1. \A q \in Peers : Known(q) \subseteq Known(q)'
  BY KnownGrows DEF Known
<1>2. CASE LearnsNothing
  BY <1>2 DEF LearnsNothing, FilterIsExact, Known, DeliveredIds
<1>3. ASSUME NEW p \in Peers, LearnsOwn(p) PROVE FilterIsExact'
  <2>1. PICK id \in ContentIds : Remember(p, id) /\ ownSent' = [ownSent EXCEPT ![p] = @ \cup {id}]
    BY <1>3, Zenon DEF LearnsOwn
  <2>2. id \in MessageId /\ id \in Known(p)'
    BY <2>1 DEF Known, MessageId, ChannelTypes
  <2> QED
    BY <1>1, <2>1, <2>2, RememberExact
<1>4. ASSUME NEW p \in Peers, LearnsOther(p) PROVE FilterIsExact'
  <2>1. PICK id \in OtherIds : Remember(p, id)
    BY <1>4 DEF LearnsOther
  <2>2. id \in MessageId /\ id \notin ContentIds
    BY ContentIsNotOther DEF MessageId
  <2> QED
    BY <1>1, <2>1, <2>2, RememberExact
<1>5. ASSUME NEW p \in Peers, HandsOver(p) PROVE FilterIsExact'
  <2>1. PICK m \in Content, via \in {"receive", "buffer"} : Deliver(p, m, via)
    BY <1>5 DEF HandsOver
  <2> DEFINE k == Len(delivered[p]) + 1
  <2>2. k \in DOMAIN delivered'[p] /\ delivered'[p][k].msg = m
    BY <2>1, DeliverLemma
  <2>3. m.id \in MessageId /\ Remember(p, m.id)
    BY <2>1 DEF Content, MessageId, Deliver
  <2> HIDE DEF k
  <2>4. m.id \in Known(p)'
    BY <2>2 DEF Known, DeliveredIds
  <2> QED
    BY <1>1, <2>3, <2>4, RememberExact
<1>6. ASSUME NEW p \in Peers, Forgets(p) PROVE FilterIsExact'
  <2>1. /\ \A q \in Peers : q # p => bloom'[q] = bloom[q]
        /\ bloom'[p].bits = {} /\ UNCHANGED <<delivered, ownSent>>
    BY <1>6 DEF Forgets, ChannelTypes, BloomNew
  <2>2. \A q \in Peers : Known(q)' = Known(q)
    BY <2>1, Zenon DEF Known, DeliveredIds
  <2>3. \A id \in MessageId : ~Meets({}, id)
    BY Zenon DEF Meets
  <2> QED
    BY <2>1, <2>2, <2>3, Zenon DEF FilterIsExact
<1> QED
  BY <1>2, <1>3, <1>4, <1>5, <1>6, StepKinds

\* What an exact filter holds of the content ids, the peer knows.
LEMMA CheckedIsKnown ==
    ASSUME ExactFilter, FilterIsExact, NEW p \in Peers, NEW id \in ContentIds,
           BloomCheck(bloom[p], id)
    PROVE  id \in Known(p)
<1>1. id \in MessageId /\ OwnBits(id) # {} /\ OwnBits(id) \subseteq BitsOf(id)
  BY DEF ExactFilter, MessageId, OwnBits
<1>2. Meets(bloom[p].bits, id)
  BY <1>1 DEF BloomCheck, Meets
<1> QED
  BY <1>1, <1>2 DEF FilterIsExact

LEMMA OneMore == ASSUME NEW n \in Nat, NEW i \in 1..(n + 1) PROVE i \in 1..n \/ i = n + 1
OBVIOUS

LEMMA InOrderStep ==
    ASSUME ExactFilter, CausalInv, [Next]_vars
    PROVE  HandedOverInOrder'
<1>1. ChannelTypes /\ \A q \in Peers : ownSent[q] \subseteq ownSent'[q]
  BY KnownGrows DEF CausalInv
<1>2. CASE UNCHANGED delivered
  BY <1>1, <1>2 DEF CausalInv, HandedOverInOrder
<1>3. ASSUME NEW p \in Peers, HandsOver(p) PROVE HandedOverInOrder'
  <2>1. PICK m \in Content, via \in {"receive", "buffer"} :
            DependenciesSatisfied(bloom[p], m.history) /\ Deliver(p, m, via) /\ UNCHANGED ownSent
    BY <1>3 DEF HandsOver
  <2> DEFINE n == Len(delivered[p])
  <2>2. /\ n \in Nat
        /\ \A q \in Peers : q # p => delivered'[q] = delivered[q]
        /\ DOMAIN delivered[p] = 1..n /\ DOMAIN delivered'[p] = 1..(n + 1)
        /\ \A i \in 1..n : delivered'[p][i] = delivered[p][i]
        /\ delivered'[p][n + 1].msg = m
    BY <1>1, <2>1, DeliverLemma
  <2> HIDE DEF n
  <2>3. ASSUME NEW q \in Peers, NEW i \in DOMAIN delivered'[q],
               NEW id \in Ids(delivered'[q][i].msg.history)
        PROVE  id \in ownSent'[q] \/ \E j \in 1..(i - 1) : delivered'[q][j].msg.id = id
    <3>1. CASE q # p
      <4>1. delivered'[q] = delivered[q] /\ ownSent' = ownSent
        BY <2>1, <2>2, <3>1, Zenon
      <4>2. i \in DOMAIN delivered[q] /\ id \in Ids(delivered[q][i].msg.history)
        BY <2>3, <4>1, Zenon
      <4>3. id \in ownSent[q] \/ \E j \in 1..(i - 1) : delivered[q][j].msg.id = id
        BY <4>2 DEF CausalInv, HandedOverInOrder
      <4> QED
        BY <4>1, <4>3, Zenon
    <3>2. CASE q = p /\ i \in 1..n
      <4>1. delivered'[p][i] = delivered[p][i] /\ i \in DOMAIN delivered[p]
        BY <2>2, <3>2
      <4>2. id \in ownSent[p] \/ \E j \in 1..(i - 1) : delivered[p][j].msg.id = id
        BY <2>3, <3>2, <4>1 DEF CausalInv, HandedOverInOrder
      <4>3. \A j \in 1..(i - 1) : delivered'[p][j] = delivered[p][j]
        BY <2>2, <3>2
      <4> QED
        BY <2>1, <3>2, <4>2, <4>3, Zenon
    <3>3. CASE q = p /\ i = n + 1
      <4>1. id \in Ids(m.history) /\ id \in ContentIds
        BY <2>2, <2>3, <3>3, HistoryIds
      <4>2. BloomCheck(bloom[p], id)
        BY <2>1, <4>1, Zenon DEF DependenciesSatisfied, Ids
      <4>3. id \in Known(p)
        BY <4>1, <4>2, CheckedIsKnown DEF CausalInv
      <4>4. id \in ownSent[p] \/ \E j \in 1..n : delivered'[p][j].msg.id = id
        BY <2>2, <4>3 DEF Known, DeliveredIds
      <4> QED
        BY <2>1, <2>2, <3>3, <4>4
    <3>4. ASSUME q = p PROVE i \in 1..n \/ i = n + 1
      <4>1. i \in 1..(n + 1)
        BY <2>2, <2>3, <3>4, Zenon
      <4> QED
        BY <2>2, <4>1, OneMore, Zenon
    <3> QED
      BY <3>1, <3>2, <3>3, <3>4, Zenon
  <2> QED
    BY <2>3 DEF HandedOverInOrder
<1> QED
  BY <1>1, <1>2, <1>3, StepKinds DEF LearnsNothing, LearnsOwn, LearnsOther, Forgets

\* An id added to an exact filter satisfies no dependency on another id.
LEMMA SatisfiedBefore ==
    ASSUME ExactFilter, ChannelTypes, FilterIsExact, NEW p \in Peers, NEW x \in MessageId,
           Remember(p, x), NEW m \in Content, DOMAIN m.history # {}, x \notin Ids(m.history),
           DependenciesSatisfied(bloom'[p], m.history)
    PROVE  DependenciesSatisfied(bloom[p], m.history)
<1>1. ASSUME NEW i \in DOMAIN m.history
      PROVE  /\ m.history[i].id \in MessageId
             /\ m.history[i].id # x
             /\ Meets(bloom'[p].bits, m.history[i].id)
  <2>1. m.history[i].id \in MessageId /\ m.history[i].id \in Ids(m.history)
    BY HistoryIds DEF MessageId, Ids
  <2>2. OwnBits(m.history[i].id) # {} /\ OwnBits(m.history[i].id) \subseteq BitsOf(m.history[i].id)
    BY <2>1 DEF ExactFilter, OwnBits
  <2>3. BitsOf(m.history[i].id) \subseteq bloom'[p].bits
    BY DEF DependenciesSatisfied, BloomCheck
  <2> QED
    BY <2>1, <2>2, <2>3, Zenon DEF Meets
<1>2. bloom'[p].bits # {}
  BY <1>1 DEF Meets
<1>3. bloom'[p].bits = bloom[p].bits \cup BitsOf(x)
  BY <1>2, RememberLemma
<1>4. ASSUME NEW i \in DOMAIN m.history PROVE BloomCheck(bloom[p], m.history[i].id)
  <2>1. Meets(bloom[p].bits, m.history[i].id)
    BY <1>1, <1>3, FilterGrows, Zenon
  <2> QED
    BY <1>1, <2>1 DEF FilterIsExact, BloomCheck
<1> QED
  BY <1>4 DEF DependenciesSatisfied

\* The buffers of the peers that take no part in a step.
LEMMA ScanElsewhere ==
    ASSUME ScanKeepsUp, NEW p \in Peers, KeepsUp(p)',
           \A q \in Peers : q # p =>
               /\ incoming'[q] = incoming[q] /\ scan'[q] = scan[q]
               /\ bloom'[q] = bloom[q] /\ ownSent'[q] = ownSent[q]
    PROVE  ScanKeepsUp'
<1> SUFFICES ASSUME NEW q \in Peers, q # p PROVE KeepsUp(q)'
  BY Zenon DEF ScanKeepsUp
<1>1. KeepsUp(q)
  BY Zenon DEF ScanKeepsUp
<1>2. /\ incoming'[q] = incoming[q] /\ scan'[q] = scan[q]
      /\ bloom'[q] = bloom[q] /\ ownSent'[q] = ownSent[q]
  BY Zenon
<1>3. \A m : Waits(q, m) => Waits(q, m)'
  BY <1>2, Zenon DEF Waits
<1> QED
  BY <1>1, <1>2, <1>3, Zenon DEF KeepsUp

\* A new id leaves the buffer waiting, unless it is one the peer has sent.
LEMMA RememberKeepsUp ==
    ASSUME ExactFilter, CausalInv, NEW p \in Peers, NEW x \in MessageId, Remember(p, x),
           x \in ContentIds => x \in ownSent'[p],
           ownSent[p] \subseteq ownSent'[p],
           \A q \in Peers : q # p => ownSent'[q] = ownSent[q],
           UNCHANGED <<incoming, scan>>
    PROVE  ScanKeepsUp'
<1>1. ChannelTypes /\ FilterIsExact /\ KeepsUp(p)
  BY Zenon DEF CausalInv, ScanKeepsUp
<1>2. \A q \in Peers : q # p => bloom'[q] = bloom[q]
  BY <1>1, RememberLemma, Zenon
<1>3. ASSUME NEW i \in DOMAIN incoming[p], Waits(p, incoming[p][i])
      PROVE  Waits(p, incoming[p][i])'
  <2> DEFINE m == incoming[p][i]
  <2>1. m \in Content
    BY <1>1, ElementOfSeq, LenProperties, Zenon DEF ChannelTypes
  <2>2. DOMAIN m.history # {} /\ Ids(m.history) \subseteq ContentIds
    BY <1>1, <2>1, HistoryIds, Zenon DEF KeepsUp
  <2>3. incoming'[p][i] = m
    BY Zenon
  <2>4. Waits(p, m)
    BY <1>3
  <2> HIDE DEF m
  <2>5. ASSUME DependenciesSatisfied(bloom'[p], m.history)
        PROVE  Ids(m.history) \cap ownSent'[p] # {}
    <3>1. CASE x \in Ids(m.history)
      BY <2>2, <3>1
    <3>2. CASE x \notin Ids(m.history)
      <4>1. DependenciesSatisfied(bloom[p], m.history)
        BY <1>1, <2>1, <2>2, <2>5, <3>2, SatisfiedBefore, Zenon
      <4> QED
        BY <2>4, <4>1 DEF Waits
    <3> QED
      BY <3>1, <3>2
  <2> QED
    BY <2>3, <2>5, Zenon DEF Waits
<1>4. KeepsUp(p)'
  BY <1>1, <1>3, Zenon DEF KeepsUp
<1> QED
  BY <1>2, <1>4, ScanElsewhere, Zenon DEF CausalInv

LEMMA DomainLemma ==
    ASSUME NEW s \in Seq(Content), NEW i \in DOMAIN s
    PROVE  i \in Nat /\ i >= 1 /\ s # <<>>
  OBVIOUS

\* resolve_buffered has looked at nothing when it starts.
LEMMA StartKeepsUp ==
    ASSUME CausalInv, NEW p \in Peers, StartResolve(p, incoming'[p]),
           incoming'[p] \in Seq(Content),
           \A i \in DOMAIN incoming'[p] : DOMAIN incoming'[p][i].history # {},
           \A q \in Peers : q # p =>
               incoming'[q] = incoming[q] /\ bloom'[q] = bloom[q] /\ ownSent'[q] = ownSent[q]
    PROVE  ScanKeepsUp'
<1>1. /\ \A q \in Peers : q # p => scan'[q] = scan[q]
      /\ scan'[p] = IF incoming'[p] = <<>> THEN Idle ELSE [pos |-> 1, progress |-> FALSE]
  BY Zenon DEF CausalInv, ChannelTypes, StartResolve
<1>2. ASSUME NEW i \in DOMAIN incoming'[p] PROVE ~(scan'[p].pos = 0 \/ i < scan'[p].pos)
  <2>1. i \in Nat /\ i >= 1 /\ incoming'[p] # <<>>
    BY DomainLemma, Zenon
  <2>2. scan'[p].pos = 1
    <3>1. scan'[p] = [pos |-> 1, progress |-> FALSE]
      BY <1>1, <2>1, Zenon
    <3>2. [pos |-> 1, progress |-> FALSE].pos = 1
      BY Zenon
    <3> QED
      BY <3>1, <3>2, Zenon
  <2>3. ~(i < 1) /\ 1 # 0
    BY <2>1
  <2> QED
    BY <2>2, <2>3, Zenon
<1>3. KeepsUp(p)'
  BY <1>2 DEF KeepsUp
<1> QED
  BY <1>1, <1>3, ScanElsewhere DEF CausalInv

LEMMA HandleKeepsUp ==
    ASSUME ExactFilter, DistinctPayloads, CausalInv, NEW p \in Peers, NEW m, <<p, m>> \in net,
           Handle(p, m)
    PROVE  ScanKeepsUp'
<1>1. ChannelTypes /\ incoming \in [Peers -> Seq(Content)] /\ KeepsUp(p)
  BY DEF CausalInv, ChannelTypes, ScanKeepsUp
<1>2. ASSUME NEW x \in MessageId, Remember(p, x)
      PROVE  \A q \in Peers : q # p => bloom'[q] = bloom[q]
  BY <1>1, <1>2, RememberLemma, Zenon
<1>3. CASE ReceiveDuplicate(p, m)
  BY <1>3, Zenon DEF ReceiveDuplicate, CausalInv, ScanKeepsUp, KeepsUp, Waits, chanVars, ghostVars
<1>4. CASE ReceiveInOrder(p, m)
  <2>1. m \in Content
    BY <1>1, <1>4, InFlightLemma, Zenon DEF ReceiveInOrder
  <2>2. Remember(p, m.id) /\ m.id \in MessageId
    BY <1>4, <2>1, Zenon DEF ReceiveInOrder, Deliver, Content, MessageId
  <2>3. StartResolve(p, incoming[p]) /\ UNCHANGED <<incoming, ownSent>>
    BY <1>4 DEF ReceiveInOrder
  <2> QED
    BY <1>1, <1>2, <2>2, <2>3, StartKeepsUp, Zenon DEF KeepsUp
<1>5. CASE ReceiveOutOfOrder(p, m)
  <2> DEFINE buffer == PushCapped(incoming[p], m, IncomingMax)
  <2>1. m \in Content
    BY <1>1, <1>5, InFlightLemma, Zenon DEF ReceiveOutOfOrder
  <2>2. /\ buffer \in Seq(Content)
        /\ \A i \in DOMAIN buffer : buffer[i] = m \/ \E j \in DOMAIN incoming[p] : buffer[i] = incoming[p][j]
    BY <1>1, <2>1, BufferedLemma, Zenon
  <2>3. DOMAIN m.history # {}
    BY <1>5, Zenon DEF ReceiveOutOfOrder, DependenciesSatisfied
  <2>4. /\ incoming' = [incoming EXCEPT ![p] = buffer] /\ UNCHANGED <<bloom, ownSent>>
        /\ StartResolve(p, incoming'[p])
    BY <1>5 DEF ReceiveOutOfOrder
  <2> HIDE DEF buffer
  <2>5. incoming'[p] = buffer /\ \A q \in Peers : q # p => incoming'[q] = incoming[q]
    BY <1>1, <2>4
  <2>6. \A i \in DOMAIN buffer : DOMAIN buffer[i].history # {}
    BY <1>1, <2>2, <2>3, Zenon DEF KeepsUp
  <2> QED
    BY <2>2, <2>4, <2>5, <2>6, StartKeepsUp, Zenon
<1>6. CASE ReceiveSync(p, m)
  <2>1. Remember(p, m.id) /\ m.id \in MessageId
    BY <1>1, <1>6, InFlightLemma, Zenon DEF ReceiveSync
  <2>2. StartResolve(p, incoming[p]) /\ UNCHANGED <<incoming, ownSent>>
    BY <1>6, Zenon DEF ReceiveSync
  <2> QED
    BY <1>1, <1>2, <2>1, <2>2, StartKeepsUp, Zenon DEF KeepsUp
<1>7. CASE ReceiveEphemeral(p, m)
  <2>1. m \in Ephemeral
    BY <1>1, <1>7, InFlightLemma DEF ReceiveEphemeral
  <2>2. m.id \in MessageId /\ m.id \notin ContentIds
    BY <2>1, ContentIsNotOther DEF Ephemeral, MessageId
  <2>3. Remember(p, m.id) /\ UNCHANGED <<incoming, scan, ownSent>>
    BY <1>7 DEF ReceiveEphemeral
  <2> QED
    BY <2>2, <2>3, RememberKeepsUp
<1> QED
  BY <1>3, <1>4, <1>5, <1>6, <1>7 DEF Handle

LEMMA ResolveKeepsUp ==
    ASSUME CausalInv, NEW p \in Peers, Resolve(p)
    PROVE  ScanKeepsUp'
<1>1. /\ ChannelTypes /\ incoming \in [Peers -> Seq(Content)] /\ KeepsUp(p)
      /\ scan \in [Peers -> ScanState] /\ scan[p].pos \in Nat
  BY DEF CausalInv, ChannelTypes, ScanKeepsUp, ScanState
<1>2. CASE ResolveDeliver(p)
  <2> DEFINE m == incoming[p][scan[p].pos]
             buffer == RemoveNth(incoming[p], scan[p].pos)
  <2>1. scan[p].pos \in DOMAIN incoming[p] /\ incoming[p] \in Seq(Content)
    BY <1>1, <1>2 DEF ResolveDeliver
  <2>2. m \in Content
    BY <2>1, ElementOfSeq, LenProperties
  <2>3. \A i \in DOMAIN buffer : \E j \in DOMAIN incoming[p] : buffer[i] = incoming[p][j]
    BY <2>1, RemoveLemma, Zenon
  <2>4. Remember(p, m.id) /\ m.id \in MessageId
    BY <1>2, <2>2, Zenon DEF ResolveDeliver, Deliver, Content, MessageId
  <2>5. incoming' = [incoming EXCEPT ![p] = buffer] /\ UNCHANGED ownSent
    BY <1>2 DEF ResolveDeliver
  <2>6. scan'[p].progress /\ \A q \in Peers : q # p => scan'[q] = scan[q]
    BY <1>1, <1>2 DEF ResolveDeliver, ScanState
  <2> HIDE DEF m, buffer
  <2>7. KeepsUp(p)'
    <3>1. incoming'[p] = buffer /\ ownSent' = ownSent /\ scan'[p].progress = TRUE
      BY <1>1, <2>5, <2>6
    <3> QED
      BY <1>1, <2>3, <3>1, Zenon DEF KeepsUp
  <2>8. \A q \in Peers : q # p => incoming'[q] = incoming[q] /\ bloom'[q] = bloom[q]
    BY <1>1, <2>4, <2>5, RememberLemma, Zenon
  <2> QED
    BY <2>5, <2>6, <2>7, <2>8, ScanElsewhere, Zenon DEF CausalInv
<1>3. CASE ResolveKeep(p)
  <2>1. UNCHANGED <<incoming, bloom, ownSent>>
    BY <1>3 DEF ResolveKeep, ghostVars
  <2>2. /\ scan'[p].pos = scan[p].pos + 1 /\ scan'[p].progress = scan[p].progress
        /\ \A q \in Peers : q # p => scan'[q] = scan[q]
    BY <1>1, <1>3 DEF ResolveKeep, ScanState
  <2>3. Waits(p, incoming[p][scan[p].pos])
    BY <1>3 DEF ResolveKeep, Waits
  <2>4. \A i \in DOMAIN incoming[p] : i \in Nat
    BY <1>1, LenProperties
  <2>5. ASSUME NEW i \in DOMAIN incoming[p], ~scan'[p].progress, scan'[p].pos = 0 \/ i < scan'[p].pos
        PROVE  Waits(p, incoming[p][i])
    <3>1. i = scan[p].pos \/ i < scan[p].pos
      BY <1>1, <2>2, <2>4, <2>5
    <3> QED
      BY <1>1, <2>2, <2>3, <2>5, <3>1, Zenon DEF KeepsUp
  <2>6. \A i \in DOMAIN incoming[p] : Waits(p, incoming[p][i]) => Waits(p, incoming[p][i])'
    BY <2>1 DEF Waits
  <2>7. KeepsUp(p)'
    BY <1>1, <2>1, <2>5, <2>6, Zenon DEF KeepsUp
  <2> QED
    BY <2>1, <2>2, <2>7, ScanElsewhere, Zenon DEF CausalInv
<1>4. CASE ResolvePassEnd(p)
  <2>1. UNCHANGED <<incoming, bloom, ownSent>>
    BY <1>4 DEF ResolvePassEnd, ghostVars
  <2>2. CASE scan[p].progress
    <3>1. StartResolve(p, incoming'[p])
      BY <1>4, <2>1, <2>2 DEF ResolvePassEnd
    <3> QED
      BY <1>1, <2>1, <3>1, StartKeepsUp, Zenon DEF KeepsUp
  <2>3. CASE ~scan[p].progress
    <3>1. scan' = [scan EXCEPT ![p] = Idle] /\ scan[p].pos > Len(incoming[p])
      BY <1>4, <2>3 DEF ResolvePassEnd
    <3>2. \A q \in Peers : q # p => scan'[q] = scan[q]
      BY <1>1, <3>1
    <3>3. \A i \in DOMAIN incoming[p] : i < scan[p].pos
      BY <1>1, <3>1, LenProperties
    <3>4. KeepsUp(p)'
      BY <1>1, <2>1, <2>3, <3>3, Zenon DEF KeepsUp, Waits
    <3> QED
      BY <2>1, <3>2, <3>4, ScanElsewhere DEF CausalInv
  <2> QED
    BY <2>2, <2>3
<1> QED
  BY <1>2, <1>3, <1>4 DEF Resolve

LEMMA ScanKeepsUpStep ==
    ASSUME ExactFilter, DistinctPayloads, CausalInv, [Next]_vars
    PROVE  ScanKeepsUp'
<1>1. ChannelTypes /\ ScanKeepsUp
  BY DEF CausalInv
<1>2. CASE UNCHANGED <<incoming, scan, bloom, ownSent>>
  BY <1>1, <1>2 DEF ScanKeepsUp, KeepsUp, Waits
<1>3. ASSUME NEW p \in Peers, NEW x, NEW s,
             \/ NextTimestamp(p) \/ SendPublish(p, x, s) \/ SendSync(p, s) \/ SendFail(p, s)
             \/ SendRepairRequest(p, x, s) \/ SendEphemeral(p, x)
      PROVE  ScanKeepsUp'
  BY <1>2, <1>3, SendLeaves, Zenon
<1>4. ASSUME NEW p \in Peers, NEW m \in sending[p], SendComplete(p, m)
      PROVE  ScanKeepsUp'
  <2>1. m.id \in ContentIds /\ m.id \in MessageId
    BY <1>1 DEF ChannelTypes, Content, MessageId
  <2>2. /\ Remember(p, m.id) /\ UNCHANGED <<incoming, scan>>
        /\ ownSent' = [ownSent EXCEPT ![p] = @ \cup {m.id}]
    BY <1>4 DEF SendComplete
  <2>3. ownSent'[p] = ownSent[p] \cup {m.id} /\ \A q \in Peers : q # p => ownSent'[q] = ownSent[q]
    BY <1>1, <2>2 DEF ChannelTypes
  <2> QED
    BY <2>1, <2>2, <2>3, RememberKeepsUp, Zenon
<1>5. ASSUME NEW p \in Peers, NEW m, SendError(p, m)
      PROVE  ScanKeepsUp'
  BY <1>2, <1>5, Zenon DEF SendError, ghostVars
<1>6. ASSUME NEW p \in Peers, NEW m, NEW again,
             Receive(p, m, again) \/ ReceiveAndRepair(p, m, again) \/ RepairError(p, m, again)
      PROVE  ScanKeepsUp'
  <2>1. CASE Receive(p, m, again) \/ ReceiveAndRepair(p, m, again)
    <3>1. <<p, m>> \in net /\ Handle(p, m)
      BY <2>1 DEF Receive, ReceiveAndRepair, Take
    <3> QED
      BY <3>1, HandleKeepsUp
  <2>2. CASE RepairError(p, m, again)
    BY <1>2, <2>2 DEF RepairError, chanVars, ghostVars
  <2> QED
    BY <1>6, <2>1, <2>2
<1>7. ASSUME NEW p \in Peers, Restart(p)
      PROVE  ScanKeepsUp'
  <2>1. /\ DOMAIN incoming'[p] = {}
        /\ \A q \in Peers : q # p =>
              incoming'[q] = incoming[q] /\ scan'[q] = scan[q] /\ bloom'[q] = bloom[q]
        /\ UNCHANGED ownSent
    <3>1. /\ incoming' = [incoming EXCEPT ![p] = <<>>] /\ scan' = [scan EXCEPT ![p] = Idle]
          /\ bloom' = [bloom EXCEPT ![p] = BloomNew] /\ ownSent' = ownSent
      BY <1>7, Zenon DEF Restart
    <3>2. DOMAIN incoming = Peers
      BY <1>1, Zenon DEF ChannelTypes
    <3>3. incoming'[p] = <<>>
      BY <3>1, <3>2, Zenon
    <3>4. DOMAIN <<>> = {}
      OBVIOUS
    <3> QED
      BY <3>1, <3>3, <3>4
  <2>2. KeepsUp(p)'
    BY <2>1 DEF KeepsUp
  <2> QED
    BY <1>1, <2>1, <2>2, ScanElsewhere, Zenon
<1>8. CASE UNCHANGED vars
  BY <1>2, <1>8 DEF vars, chanVars, ghostVars
<1> QED
  BY <1>3, <1>4, <1>5, <1>6, <1>7, <1>8, ResolveKeepsUp, Zenon DEF Next

LEMMA CausalInit == Init => CausalInv
<1> SUFFICES ASSUME Init PROVE CausalInv
  OBVIOUS
<1>1. ChannelTypes
  BY InitTypes
<1>2. \A p \in Peers : DOMAIN delivered[p] = {} /\ DOMAIN incoming[p] = {} /\ bloom[p].bits = {}
  BY DEF Init, BloomNew
<1> QED
  BY <1>1, <1>2, Zenon DEF CausalInv, FilterIsExact, Meets, HandedOverInOrder, ScanKeepsUp, KeepsUp

\* The inductive invariant says what CausalDelivery says of every state.
LEMMA CausalInvImplies == CausalInv => CausalDelivery
<1> SUFFICES ASSUME CausalInv PROVE CausalDelivery
  OBVIOUS
<1>1. ASSUME NEW p \in Peers, scan[p] = Idle, NEW m \in Range(incoming[p])
      PROVE  Waits(p, m)
  <2>1. PICK i \in DOMAIN incoming[p] : m = incoming[p][i]
    BY <1>1 DEF Range
  <2>2. scan[p].pos = 0 /\ ~scan[p].progress
    BY <1>1 DEF Idle
  <2> QED
    BY <2>1, <2>2 DEF CausalInv, ScanKeepsUp, KeepsUp
<1> QED
  BY <1>1, Zenon DEF CausalDelivery, Waits, CausalInv, HandedOverInOrder

\* With a filter that has no false positives, receive and resolve_buffered hand over content in
\* causal order, and leave nothing in the buffer that could be handed over, except what waits
\* for the peer's own messages: for every number of peers and messages, with duplications,
\* losses, restarts and resets of the filter.
THEOREM CausalDeliveryHolds ==
    ASSUME ExactFilter, DistinctPayloads
    PROVE  Spec => []CausalDelivery
<1>1. CausalInv /\ [Next]_vars => CausalInv'
  BY StepTypes, FilterStep, InOrderStep, ScanKeepsUpStep DEF CausalInv
<1> QED
  BY <1>1, CausalInit, CausalInvImplies, PTL DEF Spec

-------------------------------------------------------------------------------
(* Acknowledgements *)

\* The filter that a message carries holds only what its sender has handed over or sent.
SentFilters ==
    \A m \in published : \A id \in ContentIds : Meets(m.bloom, id) => id \in Known(m.sender)

\* The transport gives no peer its own messages.
NotToSelf == \A p \in Peers, m \in published : <<p, m>> \in net => m.sender # p

AckInv == ChannelTypes /\ FilterIsExact /\ SentFilters /\ NotToSelf /\ AckedIsSeenElsewhere

\* The kinds of steps, as far as the transport and the acknowledgements are concerned.
SendsOut(p) ==
    \E m \in SdsMessage :
        /\ m.sender = p
        /\ m.bloom = bloom[p].bits \/ m.bloom = {}
        /\ Publish(m)
        /\ UNCHANGED acked

TakesIn(p) ==
    \E m \in published, again \in BOOLEAN, resent \in SUBSET published :
        /\ Take(p, m, again, resent)
        /\ UNCHANGED acked \/ CheckOutgoingAcks(p, m)

\* A step of the channel alone.
StaysIn == UNCHANGED <<published, net, acked>>

\* The messages of send, send_sync, send_repair_request and send_ephemeral.
LEMMA SendKinds ==
    ASSUME ChannelTypes, NEW p \in Peers
    PROVE  /\ \A s \in stamped[p] :
                 /\ \A payload \in Payloads : SendPublish(p, payload, s) => SendsOut(p)
                 /\ SendSync(p, s) => SendsOut(p)
                 /\ \A m \in Range(incoming[p]) : SendRepairRequest(p, m, s) => SendsOut(p)
           /\ \A payload \in Ephemerals : SendEphemeral(p, payload) => SendsOut(p)
<1>1. ASSUME NEW s \in stamped[p], NEW payload \in Payloads, SendPublish(p, payload, s)
      PROVE  SendsOut(p)
  <2> DEFINE m == ContentMessage(p, payload, s.ts)
  <2>1. m \in SdsMessage
    BY NewMessageTypes, StampFacts, Zenon DEF SdsMessage
  <2>2. m.sender = p /\ m.bloom = bloom[p].bits
    BY Zenon DEF ContentMessage, BloomToBytes
  <2>3. Publish(m) /\ UNCHANGED acked
    BY <1>1, Zenon DEF SendPublish
  <2> QED
    BY <2>1, <2>2, <2>3, Zenon DEF SendsOut
<1>2. ASSUME NEW s \in stamped[p], NEW missing \in SUBSET ContentIds, PublishSync(p, missing, s)
      PROVE  SendsOut(p)
  <2> DEFINE m == SyncMessage(p, missing, s.ts)
  <2>1. m \in SdsMessage
    BY NewMessageTypes, StampFacts, Zenon DEF SdsMessage
  <2>2. m.sender = p /\ m.bloom = bloom[p].bits
    BY Zenon DEF SyncMessage, BloomToBytes
  <2>3. Publish(m) /\ UNCHANGED acked
    BY <1>2, Zenon DEF PublishSync
  <2> QED
    BY <2>1, <2>2, <2>3, Zenon DEF SendsOut
<1>3. ASSUME NEW s \in stamped[p], SendSync(p, s) PROVE SendsOut(p)
  BY <1>2, <1>3 DEF SendSync
<1>4. ASSUME NEW s \in stamped[p], NEW m \in Range(incoming[p]), SendRepairRequest(p, m, s)
      PROVE  SendsOut(p)
  <2>1. m \in Content
    BY <1>4, RangeOfSeq DEF ChannelTypes
  <2>2. Ids(m.history) \subseteq ContentIds
    BY <2>1, HistoryIds
  <2>3. {id \in Ids(m.history) : ~BloomCheck(bloom[p], id)} \in SUBSET ContentIds
    BY <2>2
  <2> QED
    BY <1>2, <1>4, <2>3, Zenon DEF SendRepairRequest
<1>5. ASSUME NEW payload \in Ephemerals, SendEphemeral(p, payload) PROVE SendsOut(p)
  <2> DEFINE m == [type |-> "ephemeral", id |-> ContentId(payload), sender |-> p, ts |-> 0,
                   history |-> <<>>, bloom |-> {}, repair |-> {}]
  <2>1. ContentId(payload) \in OtherIds
    BY DEF OtherIds
  <2>2. m \in SdsMessage /\ m.sender = p /\ m.bloom = {}
    BY <2>1, Zenon DEF SdsMessage, Ephemeral
  <2>3. Publish(m) /\ UNCHANGED acked
    BY <1>5, Zenon DEF SendEphemeral, ghostVars
  <2> HIDE DEF m
  <2> QED
    BY <2>2, <2>3, Zenon DEF SendsOut
<1> QED
  BY <1>1, <1>3, <1>4, <1>5

\* A receive checks for acknowledgements with the filter of its message, or not at all.
LEMMA ReceiveKinds ==
    ASSUME ChannelTypes, NEW p \in Peers, NEW m, NEW again \in BOOLEAN,
           Receive(p, m, again) \/ ReceiveAndRepair(p, m, again) \/ RepairError(p, m, again)
    PROVE  TakesIn(p)
<1>1. ASSUME Handle(p, m) PROVE UNCHANGED acked \/ CheckOutgoingAcks(p, m)
  BY <1>1, Zenon DEF Handle, ReceiveDuplicate, ReceiveInOrder, ReceiveOutOfOrder, ReceiveSync,
              ReceiveEphemeral, ghostVars
<1>2. ASSUME NEW resent \in SUBSET published, Take(p, m, again, resent),
             UNCHANGED acked \/ CheckOutgoingAcks(p, m)
      PROVE  TakesIn(p)
  <2>1. m \in published
    BY <1>2, InFlightLemma, Zenon DEF Take
  <2> QED
    BY <1>2, <2>1, Zenon DEF TakesIn
<1>3. CASE Receive(p, m, again)
  BY <1>1, <1>2, <1>3 DEF Receive
<1>4. CASE ReceiveAndRepair(p, m, again)
  BY <1>1, <1>2, <1>4, Zenon DEF ReceiveAndRepair, ToResend
<1>5. CASE RepairError(p, m, again)
  <2>1. PICK resent \in SUBSET ToResend(p, m) : Take(p, m, again, resent)
    BY <1>5 DEF RepairError
  <2>2. resent \in SUBSET published /\ UNCHANGED acked
    BY <1>5, Zenon DEF RepairError, ToResend, ghostVars
  <2> QED
    BY <1>2, <2>1, <2>2
<1> QED
  BY <1>3, <1>4, <1>5

LEMMA TransportKinds ==
    ASSUME ChannelTypes, [Next]_vars
    PROVE  StaysIn \/ \E p \in Peers : SendsOut(p) \/ TakesIn(p)
<1>1. CASE UNCHANGED vars
  BY <1>1 DEF vars, netVars, ghostVars, StaysIn
<1>2. ASSUME NEW p \in Peers, NEW m, SendComplete(p, m) \/ SendError(p, m)
      PROVE  StaysIn
  BY <1>2 DEF SendComplete, SendError, netVars, ghostVars, StaysIn
<1>3. ASSUME NEW p \in Peers, NEW s, NextTimestamp(p) \/ SendFail(p, s) \/ Restart(p)
      PROVE  StaysIn
  BY <1>3 DEF NextTimestamp, SendFail, Restart, netVars, ghostVars, StaysIn
<1>4. ASSUME NEW p \in Peers, Resolve(p)
      PROVE  StaysIn
  BY <1>4 DEF Resolve, ResolveDeliver, ResolveKeep, ResolvePassEnd, netVars, ghostVars, StaysIn
<1> QED
  BY <1>1, <1>2, <1>3, <1>4, SendKinds, ReceiveKinds, Zenon DEF Next

\* What is acknowledged anew is in the filter that came with the message.
LEMMA AckedNow ==
    ASSUME ChannelTypes, NEW p \in Peers, NEW m, CheckOutgoingAcks(p, m)
    PROVE  /\ \A q \in Peers : q # p => acked'[q] = acked[q]
           /\ \A id \in acked'[p] : id \in acked[p] \/ (id \in ContentIds /\ BitsOf(id) \subseteq m.bloom)
<1> DEFINE done == {id \in AckHits(p, m) : possibleAcks[p][id] + 1 >= AcksThreshold}
<1>1. acked' = [acked EXCEPT ![p] = @ \cup done]
  BY DEF CheckOutgoingAcks
<1>2. \A id \in done : id \in ContentIds /\ BitsOf(id) \subseteq m.bloom
  BY Zenon DEF AckHits, BloomCheck, BloomFromBytes
<1> HIDE DEF done
<1> QED
  BY <1>1, <1>2, Zenon DEF ChannelTypes

LEMMA AckStep ==
    ASSUME ExactFilter, DistinctPayloads, ~SelfDelivery, AckInv, [Next]_vars
    PROVE  AckInv'
<1>1. ChannelTypes /\ ChannelTypes' /\ FilterIsExact /\ FilterIsExact'
  BY StepTypes, FilterStep DEF AckInv
<1>2. \A q \in Peers : Known(q) \subseteq Known(q)'
  BY <1>1, KnownGrows DEF Known
<1>3. \A m \in published : m.sender \in Peers
  BY <1>1, Zenon DEF ChannelTypes, SdsMessage, Content, Sync, Ephemeral
<1>4. ASSUME UNCHANGED acked PROVE AckedIsSeenElsewhere'
  BY <1>2, <1>4 DEF AckInv, AckedIsSeenElsewhere, Known
<1>5. ASSUME UNCHANGED published PROVE SentFilters'
  BY <1>2, <1>3, <1>5 DEF AckInv, SentFilters
<1>6. CASE StaysIn
  <2>1. NotToSelf'
    BY <1>6 DEF StaysIn, AckInv, NotToSelf
  <2> QED
    BY <1>1, <1>4, <1>5, <1>6, <2>1 DEF StaysIn, AckInv
<1>7. ASSUME NEW p \in Peers, SendsOut(p) PROVE AckInv'
  <2>1. PICK m \in SdsMessage :
            /\ m.sender = p
            /\ m.bloom = bloom[p].bits \/ m.bloom = {}
            /\ Publish(m)
            /\ UNCHANGED acked
    BY <1>7 DEF SendsOut
  <2>2. published' = published \cup {m} /\ net' = net \cup Copies(m)
    BY <2>1 DEF Publish
  <2>3. ASSUME NEW id \in ContentIds, Meets(m.bloom, id) PROVE id \in Known(p)
    BY <1>1, <2>1, <2>3, Zenon DEF FilterIsExact, Meets, MessageId
  <2>4. SentFilters'
    BY <1>2, <1>3, <2>1, <2>2, <2>3, Zenon DEF AckInv, SentFilters
  <2>5. \A q \in Peers, x \in published' : <<q, x>> \in net' => x.sender # q
    <3>1. \A q, x : <<q, x>> \in Copies(m) => x = m /\ q # m.sender
      BY DEF Copies
    <3>2. \A q, x : <<q, x>> \in net => x \in published
      BY <1>1 DEF ChannelTypes
    <3> QED
      BY <2>2, <3>1, <3>2 DEF AckInv, NotToSelf
  <2> QED
    BY <1>1, <1>4, <2>1, <2>4, <2>5 DEF AckInv, NotToSelf
<1>8. ASSUME NEW p \in Peers, TakesIn(p) PROVE AckInv'
  <2>1. PICK m \in published, again \in BOOLEAN, resent \in SUBSET published :
            /\ Take(p, m, again, resent)
            /\ UNCHANGED acked \/ CheckOutgoingAcks(p, m)
    BY <1>8 DEF TakesIn
  <2>2. /\ UNCHANGED published /\ <<p, m>> \in net
        /\ net' \subseteq net \cup UNION {Copies(x) : x \in resent}
    BY <2>1 DEF Take
  <2>3. NotToSelf'
    <3>1. \A q, x, y : <<q, x>> \in Copies(y) => x = y /\ q # y.sender
      BY DEF Copies
    <3>2. \A q, x : <<q, x>> \in net' => <<q, x>> \in net \/ \E y \in resent : <<q, x>> \in Copies(y)
      BY <2>2
    <3> QED
      BY <2>2, <3>1, <3>2 DEF AckInv, NotToSelf
  <2>4. CASE CheckOutgoingAcks(p, m)
    <3>1. m.sender \in Peers \ {p}
      BY <1>3, <2>2 DEF AckInv, NotToSelf
    <3>2. ASSUME NEW id \in ContentIds, BitsOf(id) \subseteq m.bloom
          PROVE  id \in Known(m.sender)
      <4>1. OwnBits(id) # {} /\ OwnBits(id) \subseteq BitsOf(id)
        BY DEF ExactFilter, MessageId, OwnBits
      <4>2. Meets(m.bloom, id)
        BY <3>2, <4>1 DEF Meets
      <4> QED
        BY <4>2 DEF AckInv, SentFilters
    <3>3. /\ \A q \in Peers : q # p => acked'[q] = acked[q]
          /\ \A id \in acked'[p] : id \in acked[p] \/ (id \in ContentIds /\ BitsOf(id) \subseteq m.bloom)
      BY <1>1, <2>4, AckedNow, Zenon
    <3>4. ASSUME NEW q \in Peers, NEW id \in acked'[q]
          PROVE  \E r \in Peers \ {q} : id \in Known(r)'
      <4>1. CASE id \in acked[q]
        BY <1>2, <4>1 DEF AckInv, AckedIsSeenElsewhere, Known
      <4>2. CASE id \notin acked[q]
        BY <1>2, <3>1, <3>2, <3>3, <3>4, <4>2, Zenon
      <4> QED
        BY <4>1, <4>2
    <3>5. AckedIsSeenElsewhere'
      BY <3>4 DEF AckedIsSeenElsewhere, Known
    <3> QED
      BY <1>1, <1>5, <2>2, <2>3, <3>5 DEF AckInv
  <2> QED
    BY <1>1, <1>4, <1>5, <2>1, <2>2, <2>3, <2>4 DEF AckInv
<1> QED
  BY <1>1, <1>6, <1>7, <1>8, TransportKinds

\* With a filter that has no false positives and a transport that gives no peer its own
\* messages, check_outgoing_acks takes a message for acknowledged only when another peer was
\* handed it or sent it: for every threshold, and whatever was resent, duplicated or restarted.
THEOREM AckedIsSeenElsewhereHolds ==
    ASSUME ExactFilter, DistinctPayloads, ~SelfDelivery
    PROVE  Spec => []AckedIsSeenElsewhere
<1>1. Init => AckInv
  <2> SUFFICES ASSUME Init PROVE AckInv
    OBVIOUS
  <2>1. ChannelTypes /\ FilterIsExact
    BY CausalInit DEF CausalInv
  <2>2. published = {} /\ \A p \in Peers : acked[p] = {}
    BY DEF Init
  <2> QED
    BY <2>1, <2>2 DEF AckInv, SentFilters, NotToSelf, AckedIsSeenElsewhere
<1>2. AckInv /\ [Next]_vars => AckInv'
  BY AckStep
<1>3. AckInv => AckedIsSeenElsewhere
  BY DEF AckInv
<1> QED
  BY <1>1, <1>2, <1>3, PTL DEF Spec

-------------------------------------------------------------------------------
(* Bounds *)

\* A capped push does not grow beyond the cap.
LEMMA PushLength ==
    ASSUME NEW S, NEW s \in Seq(S), NEW e \in S, NEW max \in Nat \ {0}, Len(s) <= max
    PROVE  Len(PushCapped(s, e, max)) <= max
<1>1. CASE Len(s) < max
  BY <1>1, AppendProperties DEF PushCapped
<1>2. CASE Len(s) = max
  <2>1. s # <<>>
    BY <1>2
  <2>2. Tail(s) \in Seq(S) /\ Len(Tail(s)) = Len(s) - 1
    BY <2>1, HeadTailProperties
  <2>3. PushCapped(s, e, max) = Append(Tail(s), e)
    BY <1>2 DEF PushCapped
  <2> QED
    BY <1>2, <2>2, <2>3, AppendProperties
<1> QED
  BY <1>1, <1>2, LenProperties

\* record_in_history keeps the history within twice the size of a causal history.
LEMMA RecordLength ==
    ASSUME NEW h \in Seq(Entry), NEW id \in ContentIds, NEW ts \in Nat, Len(h) <= 2 * HistorySize
    PROVE  Len(RecordInHistory(h, id, ts)) <= 2 * HistorySize
<1> DEFINE e == [id |-> id, ts |-> ts]
           g == Append(h, e)
<1>1. e \in Entry
  BY DEF Entry
<1> HIDE DEF e
<1>2. g \in Seq(Entry) /\ g # <<>> /\ Len(g) = Len(h) + 1 /\ Len(h) \in Nat
  BY <1>1, AppendProperties, LenProperties
<1> HIDE DEF g
<1>3. Len(Tail(g)) = Len(g) - 1
  BY <1>2, HeadTailProperties
<1>4. RecordInHistory(h, id, ts) = IF Len(g) > 2 * HistorySize THEN Tail(g) ELSE g
  BY DEF RecordInHistory, g, e
<1> QED
  BY <1>2, <1>3, <1>4, ChannelAssumption

\* Removing an element makes a sequence shorter.
LEMMA RemoveLength ==
    ASSUME NEW S, NEW s \in Seq(S), NEW n \in DOMAIN s
    PROVE  Len(RemoveNth(s, n)) <= Len(s)
<1> DEFINE l == SubSeq(s, 1, n - 1)
           r == SubSeq(s, n + 1, Len(s))
<1>1. n \in 1..Len(s) /\ Len(s) \in Nat
  BY LenProperties
<1>2. l \in Seq(S) /\ Len(l) = n - 1
  BY <1>1
<1>3. r \in Seq(S) /\ Len(r) = Len(s) - n
  BY <1>1
<1> HIDE DEF l, r
<1>4. Len(l \o r) = Len(l) + Len(r)
  BY <1>2, <1>3, ConcatProperties
<1> QED
  BY <1>1, <1>2, <1>3, <1>4 DEF RemoveNth, l, r

\* retain gives a sequence of old elements that is not longer.
LEMMA RetainedLemma ==
    ASSUME NEW S, NEW s \in Seq(S), NEW ids, NEW kept \in Retained(s, ids)
    PROVE  kept \in Seq(S) /\ Len(kept) <= Len(s)
<1> DEFINE left == {i \in DOMAIN s : s[i].id \notin ids}
           n == Cardinality(left)
<1>1. PICK at \in [1..n -> left] : kept = [k \in 1..n |-> s[at[k]]]
  BY Zenon DEF Retained
<1>2. Len(s) \in Nat /\ left \in SUBSET (1..Len(s))
  BY LenProperties
<1>3. IsFiniteSet(1..Len(s)) /\ Cardinality(1..Len(s)) = Len(s)
  BY <1>2, FS_Interval
<1>4. IsFiniteSet(left) /\ n <= Len(s)
  BY <1>2, <1>3, FS_Subset
<1>5. n \in Nat
  BY <1>4, FS_CardinalityType
<1>6. \A i \in left : s[i] \in S
  BY <1>2, ElementOfSeq
<1> HIDE DEF left, n
<1>7. \A k \in 1..n : s[at[k]] \in S
  BY <1>1, <1>6
<1>8. kept \in Seq(S) /\ Len(kept) = n
  BY <1>1, <1>5, <1>7, IsASeq
<1> QED
  BY <1>4, <1>8

\* There are finitely many content ids to keep counts for.
LEMMA FinitelyManyTracked ==
    ASSUME NEW count
    PROVE  Cardinality({id \in ContentIds : count[id] > 0}) \in Nat
<1> DEFINE f == [x \in Payloads |-> ContentId(x)]
<1>1. f \in Surjection(Payloads, ContentIds)
  BY DEF Surjection, ContentIds
<1>2. IsFiniteSet(ContentIds)
  BY <1>1, ChannelAssumption, FS_Surjection
<1>3. IsFiniteSet({id \in ContentIds : count[id] > 0})
  BY <1>2, FS_Subset
<1> QED
  BY <1>3, FS_CardinalityType

Tracked(p) == Cardinality({id \in ContentIds : possibleAcks[p][id] > 0})

\* The bounds of one peer.
Bounded(p) ==
    /\ outgoing[p] \in Seq(Content)
    /\ Len(incoming[p]) <= IncomingMax
    /\ Len(outgoing[p]) <= OutgoingMax
    /\ Len(localHistory[p]) <= 2 * HistorySize
    /\ Tracked(p) <= PossibleAcksMax

BoundInv == TypeOK /\ BuffersBounded

LEMMA NoneIsLess == ~(0 > 0)
OBVIOUS

\* check_outgoing_acks keeps the bounds of what it changes.
LEMMA AckBounds ==
    ASSUME BoundInv, NEW p \in Peers, NEW m, CheckOutgoingAcks(p, m)
    PROVE  /\ \A q \in Peers : q # p => outgoing'[q] = outgoing[q] /\ possibleAcks'[q] = possibleAcks[q]
           /\ outgoing'[p] \in Seq(Content)
           /\ Len(outgoing'[p]) <= OutgoingMax
           /\ Tracked(p)' <= PossibleAcksMax
           /\ \E kept : outgoing' = [outgoing EXCEPT ![p] = kept]
<1> DEFINE hits == AckHits(p, m)
           done == {id \in hits : possibleAcks[p][id] + 1 >= AcksThreshold}
           count == [id \in ContentIds |->
                       IF id \in done THEN 0
                       ELSE possibleAcks[p][id] + (IF id \in hits THEN 1 ELSE 0)]
           none == [id \in ContentIds |-> 0]
<1>1. /\ outgoing \in [Peers -> Seq(Content)] /\ Len(outgoing[p]) <= OutgoingMax
      /\ DOMAIN possibleAcks = Peers
  BY Zenon DEF BoundInv, TypeOK, ChannelTypes, BuffersBounded
<1>2. PICK kept \in Retained(outgoing[p], done) : outgoing' = [outgoing EXCEPT ![p] = kept]
  BY Zenon DEF CheckOutgoingAcks
<1>3. possibleAcks' = [possibleAcks EXCEPT ![p] =
          IF Cardinality({id \in ContentIds : count[id] > 0}) > PossibleAcksMax THEN none ELSE count]
  BY Zenon DEF CheckOutgoingAcks
<1>4. {id \in ContentIds : none[id] > 0} = {}
  <2>1. \A id \in ContentIds : none[id] = 0
    BY Zenon
  <2>2. ~(0 > 0)
    BY NoneIsLess
  <2> QED
    BY <2>1, <2>2, Zenon
<1>5. Cardinality({id \in ContentIds : count[id] > 0}) \in Nat
  BY FinitelyManyTracked, Zenon
<1> HIDE DEF done, count, none
<1>6. kept \in Seq(Content) /\ Len(kept) <= Len(outgoing[p]) /\ Len(outgoing[p]) \in Nat
  BY <1>1, <1>2, RetainedLemma, LenProperties
<1>7. kept \in Seq(Content) /\ Len(kept) <= OutgoingMax
  BY <1>1, <1>6, ChannelAssumption, LenProperties
<1>8. Tracked(p)' <= PossibleAcksMax
  <2>1. CASE possibleAcks'[p] = none
    BY <1>4, <2>1, FS_EmptySet, ChannelAssumption DEF Tracked
  <2>2. CASE possibleAcks'[p] = count /\ ~(Cardinality({id \in ContentIds : count[id] > 0}) > PossibleAcksMax)
    BY <1>5, <2>2, ChannelAssumption DEF Tracked
  <2> QED
    BY <1>1, <1>3, <2>1, <2>2
<1> QED
  BY <1>1, <1>2, <1>3, <1>7, <1>8, Zenon

\* A step of one peer keeps the bounds of the others.
LEMMA BoundElsewhere ==
    ASSUME BoundInv, ChannelTypes', NEW p \in Peers, Bounded(p)',
           \E s : outgoing' = [outgoing EXCEPT ![p] = s],
           \A q \in Peers : q # p =>
               /\ incoming'[q] = incoming[q] /\ localHistory'[q] = localHistory[q]
               /\ possibleAcks'[q] = possibleAcks[q]
    PROVE  BoundInv'
<1>1. outgoing \in [Peers -> Seq(Content)]
  BY DEF BoundInv, TypeOK
<1>2. PICK s : outgoing' = [outgoing EXCEPT ![p] = s]
  BY Zenon
<1>3. s \in Seq(Content)
  BY <1>1, <1>2 DEF Bounded
<1>4. outgoing' \in [Peers -> Seq(Content)] /\ \A q \in Peers : q # p => outgoing'[q] = outgoing[q]
  BY <1>1, <1>2, <1>3
<1>5. BuffersBounded'
  BY <1>4, Zenon DEF BoundInv, BuffersBounded, Bounded, Tracked
<1> QED
  BY <1>4, <1>5, Zenon DEF BoundInv, TypeOK

\* What a peer satisfies before a step.
LEMMA BoundBefore ==
    ASSUME BoundInv, NEW p \in Peers
    PROVE  /\ ChannelTypes /\ Bounded(p)
           /\ outgoing = [outgoing EXCEPT ![p] = outgoing[p]]
           /\ incoming[p] \in Seq(Content) /\ localHistory[p] \in Seq(Entry)
           /\ DOMAIN outgoing = Peers /\ DOMAIN incoming = Peers
           /\ DOMAIN localHistory = Peers /\ DOMAIN possibleAcks = Peers
<1>1. Bounded(p)
  BY DEF BoundInv, TypeOK, BuffersBounded, Bounded, Tracked
<1> QED
  BY <1>1 DEF BoundInv, TypeOK, ChannelTypes

LEMMA HandleBounds ==
    ASSUME BoundInv, ChannelTypes', NEW p \in Peers, NEW m, <<p, m>> \in net, Handle(p, m)
    PROVE  BoundInv'
<1>1. /\ ChannelTypes /\ Bounded(p)
      /\ outgoing = [outgoing EXCEPT ![p] = outgoing[p]]
      /\ incoming[p] \in Seq(Content) /\ localHistory[p] \in Seq(Entry)
      /\ DOMAIN incoming = Peers /\ DOMAIN localHistory = Peers
  BY BoundBefore
<1>2. CASE ReceiveDuplicate(p, m)
  BY <1>2, Zenon DEF ReceiveDuplicate, chanVars, BoundInv, TypeOK, BuffersBounded
<1>3. CASE ReceiveInOrder(p, m)
  <2>1. m \in Content
    BY <1>1, <1>3, InFlightLemma DEF ReceiveInOrder
  <2>2. m.id \in ContentIds /\ m.ts \in Nat
    BY <2>1 DEF Content
  <2>3. /\ CheckOutgoingAcks(p, m) /\ UNCHANGED incoming
        /\ localHistory' = [localHistory EXCEPT ![p] = RecordInHistory(@, m.id, m.ts)]
    BY <1>3, Zenon DEF ReceiveInOrder, Deliver
  <2>4. Len(RecordInHistory(localHistory[p], m.id, m.ts)) <= 2 * HistorySize
    BY <1>1, <2>2, RecordLength DEF Bounded
  <2>5. /\ Len(localHistory'[p]) <= 2 * HistorySize
        /\ \A q \in Peers : q # p => localHistory'[q] = localHistory[q]
    BY <1>1, <2>3, <2>4
  <2>6. Bounded(p)'
    BY <1>1, <2>3, <2>5, AckBounds DEF Bounded
  <2> QED
    BY <2>3, <2>5, <2>6, AckBounds, BoundElsewhere, Zenon
<1>4. CASE ReceiveOutOfOrder(p, m)
  <2>1. m \in Content
    BY <1>1, <1>4, InFlightLemma DEF ReceiveOutOfOrder
  <2>2. /\ CheckOutgoingAcks(p, m) /\ UNCHANGED localHistory
        /\ incoming' = [incoming EXCEPT ![p] = PushCapped(@, m, IncomingMax)]
    BY <1>4 DEF ReceiveOutOfOrder
  <2>3. Len(PushCapped(incoming[p], m, IncomingMax)) <= IncomingMax
    BY <1>1, <2>1, PushLength, ChannelAssumption DEF Bounded
  <2>4. Len(incoming'[p]) <= IncomingMax /\ \A q \in Peers : q # p => incoming'[q] = incoming[q]
    BY <1>1, <2>2, <2>3
  <2>5. Bounded(p)'
    BY <1>1, <2>2, <2>4, AckBounds DEF Bounded
  <2> QED
    BY <2>2, <2>4, <2>5, AckBounds, BoundElsewhere, Zenon
<1>5. CASE ReceiveSync(p, m)
  <2>1. CheckOutgoingAcks(p, m) /\ UNCHANGED <<incoming, localHistory>>
    BY <1>5, Zenon DEF ReceiveSync
  <2>2. Bounded(p)'
    BY <1>1, <2>1, AckBounds DEF Bounded
  <2> QED
    BY <2>1, <2>2, AckBounds, BoundElsewhere, Zenon
<1>6. CASE ReceiveEphemeral(p, m)
  BY <1>6, Zenon DEF ReceiveEphemeral, BoundInv, TypeOK, BuffersBounded
<1> QED
  BY <1>2, <1>3, <1>4, <1>5, <1>6 DEF Handle

LEMMA BoundStep == BoundInv /\ [Next]_vars => BoundInv'
<1> SUFFICES ASSUME BoundInv, [Next]_vars PROVE BoundInv'
  OBVIOUS
<1>1. ChannelTypes /\ ChannelTypes'
  BY StepTypes DEF BoundInv, TypeOK
<1>2. ASSUME UNCHANGED <<outgoing, incoming, localHistory, possibleAcks>> PROVE BoundInv'
  BY <1>1, <1>2 DEF BoundInv, TypeOK, BuffersBounded
<1>3. ASSUME NEW p \in Peers, NEW x, NEW s,
             \/ NextTimestamp(p) \/ SendPublish(p, x, s) \/ SendSync(p, s) \/ SendFail(p, s)
             \/ SendRepairRequest(p, x, s) \/ SendEphemeral(p, x)
      PROVE  BoundInv'
  BY <1>2, <1>3, SendLeaves, Zenon
<1>4. ASSUME NEW p \in Peers, NEW m \in sending[p], SendComplete(p, m)
      PROVE  BoundInv'
  <2>1. m \in Content /\ m.id \in ContentIds /\ m.ts \in Nat
    <3>1. m \in Content
      BY <1>1 DEF ChannelTypes
    <3> QED
      BY <3>1, Zenon DEF Content
  <2>2. /\ UNCHANGED <<incoming, possibleAcks>>
        /\ localHistory' = [localHistory EXCEPT ![p] = RecordInHistory(@, m.id, m.ts)]
        /\ outgoing' = [outgoing EXCEPT ![p] = PushCapped(@, m, OutgoingMax)]
    BY <1>4 DEF SendComplete
  <2>3. Len(RecordInHistory(localHistory[p], m.id, m.ts)) <= 2 * HistorySize
    BY <2>1, BoundBefore, RecordLength DEF Bounded
  <2>4. /\ PushCapped(outgoing[p], m, OutgoingMax) \in Seq(Content)
        /\ Len(PushCapped(outgoing[p], m, OutgoingMax)) <= OutgoingMax
    BY <2>1, BoundBefore, PushLemma, PushLength, ChannelAssumption, Zenon DEF Bounded
  <2>5. /\ Len(localHistory'[p]) <= 2 * HistorySize
        /\ \A q \in Peers : q # p => localHistory'[q] = localHistory[q]
        /\ outgoing'[p] \in Seq(Content) /\ Len(outgoing'[p]) <= OutgoingMax
    BY <2>2, <2>3, <2>4, BoundBefore
  <2>6. Bounded(p)'
    BY <2>2, <2>5, BoundBefore DEF Bounded, Tracked
  <2>7. \E s : outgoing' = [outgoing EXCEPT ![p] = s]
    BY <2>2, Zenon
  <2> QED
    BY <1>1, <2>2, <2>5, <2>6, <2>7, BoundElsewhere, Zenon
<1>5. ASSUME NEW p \in Peers, NEW m, SendError(p, m)
      PROVE  BoundInv'
  BY <1>2, <1>5, Zenon DEF SendError
<1>6. ASSUME NEW p \in Peers, NEW m, NEW again,
             Receive(p, m, again) \/ ReceiveAndRepair(p, m, again) \/ RepairError(p, m, again)
      PROVE  BoundInv'
  <2>1. CASE Receive(p, m, again) \/ ReceiveAndRepair(p, m, again)
    <3>1. <<p, m>> \in net /\ Handle(p, m)
      BY <2>1 DEF Receive, ReceiveAndRepair, Take
    <3> QED
      BY <1>1, <3>1, HandleBounds
  <2>2. CASE RepairError(p, m, again)
    BY <1>2, <2>2 DEF RepairError, chanVars
  <2> QED
    BY <1>6, <2>1, <2>2
<1>7. ASSUME NEW p \in Peers, ResolveDeliver(p)
      PROVE  BoundInv'
  <2> DEFINE m == incoming[p][scan[p].pos]
             buffer == RemoveNth(incoming[p], scan[p].pos)
  <2>1. scan[p].pos \in DOMAIN incoming[p] /\ incoming[p] \in Seq(Content)
    BY <1>7, BoundBefore DEF ResolveDeliver
  <2>2. m \in Content
    BY <2>1, ElementOfSeq, LenProperties
  <2>3. m.id \in ContentIds /\ m.ts \in Nat
    BY <2>2, Zenon DEF Content
  <2>4. buffer \in Seq(Content) /\ Len(buffer) <= Len(incoming[p])
    BY <2>1, RemoveLemma, RemoveLength, Zenon
  <2>5. /\ UNCHANGED <<outgoing, possibleAcks>>
        /\ localHistory' = [localHistory EXCEPT ![p] = RecordInHistory(@, m.id, m.ts)]
        /\ incoming' = [incoming EXCEPT ![p] = buffer]
    BY <1>7, Zenon DEF ResolveDeliver, Deliver
  <2> HIDE DEF m, buffer
  <2>6. Len(RecordInHistory(localHistory[p], m.id, m.ts)) <= 2 * HistorySize
    BY <2>3, BoundBefore, RecordLength DEF Bounded
  <2>7. Len(buffer) <= IncomingMax
    BY <2>1, <2>4, BoundBefore, LenProperties, ChannelAssumption DEF Bounded
  <2>8. /\ Len(localHistory'[p]) <= 2 * HistorySize /\ Len(incoming'[p]) <= IncomingMax
        /\ \A q \in Peers : q # p => localHistory'[q] = localHistory[q] /\ incoming'[q] = incoming[q]
    BY <2>5, <2>6, <2>7, BoundBefore
  <2>9. Bounded(p)'
    BY <2>5, <2>8, BoundBefore DEF Bounded, Tracked
  <2>10. \E s : outgoing' = [outgoing EXCEPT ![p] = s]
    BY <2>5, BoundBefore
  <2> QED
    BY <1>1, <2>5, <2>8, <2>9, <2>10, BoundElsewhere, Zenon
<1>8. ASSUME NEW p \in Peers, ResolveKeep(p) \/ ResolvePassEnd(p)
      PROVE  BoundInv'
  BY <1>2, <1>8 DEF ResolveKeep, ResolvePassEnd
<1>9. ASSUME NEW p \in Peers, Restart(p)
      PROVE  BoundInv'
  <2> DEFINE none == [id \in ContentIds |-> 0]
  <2>1. /\ localHistory' = [localHistory EXCEPT ![p] = <<>>]
        /\ outgoing' = [outgoing EXCEPT ![p] = <<>>]
        /\ incoming' = [incoming EXCEPT ![p] = <<>>]
        /\ possibleAcks' = [possibleAcks EXCEPT ![p] = none]
    BY <1>9 DEF Restart
  <2>2. {id \in ContentIds : none[id] > 0} = {}
    OBVIOUS
  <2> HIDE DEF none
  <2>3. /\ localHistory'[p] = <<>> /\ outgoing'[p] = <<>> /\ incoming'[p] = <<>>
        /\ possibleAcks'[p] = none
        /\ \A q \in Peers : q # p =>
               /\ incoming'[q] = incoming[q] /\ localHistory'[q] = localHistory[q]
               /\ possibleAcks'[q] = possibleAcks[q]
    BY <2>1, BoundBefore
  <2>4. Tracked(p)' = 0
    BY <2>2, <2>3, FS_EmptySet, Zenon DEF Tracked
  <2>5. Bounded(p)'
    BY <2>3, <2>4, ChannelAssumption DEF Bounded
  <2>6. \E s : outgoing' = [outgoing EXCEPT ![p] = s]
    BY <2>1, Zenon
  <2> QED
    BY <1>1, <2>3, <2>5, <2>6, BoundElsewhere, Zenon
<1>10. CASE UNCHANGED vars
  BY <1>2, <1>10 DEF vars, chanVars
<1> QED
  BY <1>3, <1>4, <1>5, <1>6, <1>7, <1>8, <1>9, <1>10, Zenon DEF Next, Resolve

LEMMA BoundInit == Init => BoundInv
<1> SUFFICES ASSUME Init PROVE BoundInv
  OBVIOUS
<1>1. ChannelTypes /\ outgoing \in [Peers -> Seq(Content)]
  BY InitTypes, SMTT(20) DEF Init
<1>2. ASSUME NEW p \in Peers
      PROVE  /\ Len(incoming[p]) = 0 /\ Len(outgoing[p]) = 0 /\ Len(localHistory[p]) = 0
             /\ Cardinality({id \in ContentIds : possibleAcks[p][id] > 0}) = 0
  <2>1. {id \in ContentIds : possibleAcks[p][id] > 0} = {}
    BY DEF Init
  <2> QED
    BY <2>1, FS_EmptySet, Zenon DEF Init
<1>3. 0 <= IncomingMax /\ 0 <= OutgoingMax /\ 0 <= 2 * HistorySize /\ 0 <= PossibleAcksMax
  BY ChannelAssumption
<1>4. BuffersBounded
  BY <1>2, <1>3, Zenon DEF BuffersBounded
<1> QED
  BY <1>1, <1>4 DEF BoundInv, TypeOK

\* The state of the channels, the outgoing buffers included, and of the transport keeps its types.
THEOREM ChannelTypeOK == Spec => []TypeOK
<1>1. BoundInv => TypeOK
  BY DEF BoundInv
<1> QED
  BY <1>1, BoundInit, BoundStep, PTL DEF Spec

\* No send, receive, repair or resolve makes a buffer, the local history or the map of possible
\* acknowledgements of any peer larger than its cap, whatever the caps are.
THEOREM BuffersBoundedHolds == Spec => []BuffersBounded
<1>1. BoundInv => BuffersBounded
  BY DEF BoundInv
<1> QED
  BY <1>1, BoundInit, BoundStep, PTL DEF Spec
===============================================================================
