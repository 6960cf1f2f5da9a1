------------------------------- MODULE Envelope -------------------------------
(***************************************************************************)
(* What a node puts around a task and what the other side makes of it:     *)
(* encryption for the recipient's card (node/src/tasks/helpers.rs, the     *)
(* crypto crate), large payloads left in storage with only their CID on    *)
(* the wire, decryption and fetching in poll_tasks, the answer, and the    *)
(* load a node seals for the peers it trusts (core/src/presence.rs).       *)
(*                                                                         *)
(* Each side acts on what it knows of the other: a card, a pasted key, an  *)
(* address.  A node that starts again (the constructors and builders of    *)
(* node/src/lib.rs) may have other keys, or none, or no storage.           *)
(***************************************************************************)
EXTENDS Naturals, Sequences, FiniteSets

CONSTANTS
    Agents,         \* two agents
    Lengths,        \* lengths of a text
    Threshold,      \* threshold_bytes
    Limits,         \* values of --max-concurrent
    MaxKeys,        \* bound: key pairs generated
    MaxTasks,       \* bound: tasks sent
    MaxRestarts,    \* bound: starts after the first
    MaxLoad,        \* bound: tasks in flight in one agent
    MaxAnnounced    \* bound: announcements

ASSUME EnvelopeAssumption ==
    /\ Cardinality(Agents) = 2
    /\ Lengths \subseteq Nat \ {0} /\ Limits \subseteq Nat
    /\ {Threshold, MaxKeys, MaxTasks, MaxRestarts, MaxLoad, MaxAnnounced} \subseteq Nat

\* A key pair is a number; its secret and its public half are told apart by their use.
Keys == 1..MaxKeys
Malformed == 0
Ephemeral == MaxKeys + 1    \* the pair made for one sealed envelope
\* Option: <<>> is None, <<x>> is Some(x).
None == <<>>
FirstAgent == CHOOSE n \in Agents : TRUE
PeerOf(n) == CHOOSE o \in Agents : o # n

VARIABLES
    about,       \* what a behaviour is about: "tasks", or the load of one agent; they share the nodes only
    nodes,       \* the LmaoNode each agent runs
    keyfile,     \* <<signing key, X25519 key>> an agent keeps in files, or None
    generated,   \* key pairs generated so far
    restarts,
    card,        \* the card each agent has of the other, or None
    encryption,  \* trust entries of each agent that have an encryption_pubkey
    payloads,    \* payloads on the task topics
    surfaced,    \* what poll_tasks returned to each agent
    unread,      \* history: payloads poll_tasks took and gave no task for
    announced,   \* announcements on the presence topic
    peer,        \* each agent's entry of the other in its PeerMap, or None
    asked        \* tasks sent so far

world == <<about, nodes, keyfile, generated, restarts>>
known == <<card, encryption>>
tasks == <<payloads, surfaced, unread, asked>>
presence == <<announced, peer>>
envelopeVars == <<world, known, tasks, presence>>

-------------------------------------------------------------------------------
(* Nodes *)

\* new: a signing key that exists nowhere else, and no encryption.
New(key) ==
    [address |-> key, identity |-> None, intro_bundle |-> None,
     storage |-> FALSE, max_concurrent |-> 1, in_flight |-> 0]

\* from_key: the signing key is given.
FromKey(key) == New(key)

\* with_config: only the parameters of the SDS channel differ from `New`.
WithConfig(key) == New(key)

\* new_encrypted: an X25519 pair too, and its public half in the card.
NewEncrypted(key, x) == [New(key) EXCEPT !.identity = <<x>>, !.intro_bundle = <<x>>]

\* with_identity: the card says so as well.
WithIdentity(self, x) == [self EXCEPT !.intro_bundle = <<x>>, !.identity = <<x>>]

WithStorageOffload(self) == [self EXCEPT !.storage = TRUE]

\* A ceiling of zero is one.
WithMaxConcurrent(self, n) == [self EXCEPT !.max_concurrent = IF n = 0 THEN 1 ELSE n]

\* What a start can give an agent that keeps the keys `kept` in files, with the keys after g
\* still unused: set of <<node, keys in files, keys generated>>.
Constructed(kept, g) ==
    {<<New(g + 1), kept, g + 1>>,
     <<WithConfig(g + 1), kept, g + 1>>,
     <<NewEncrypted(g + 1, g + 2), kept, g + 2>>,
     <<WithIdentity(NewEncrypted(g + 1, g + 2), g + 3), kept, g + 3>>}
    \cup IF kept = None
         THEN {<<WithIdentity(FromKey(g + 1), g + 2), <<g + 1, g + 2>>, g + 2>>}
         ELSE {<<WithIdentity(FromKey(kept[1]), kept[2]), kept, g>>, <<FromKey(kept[1]), kept, g>>}

\* The builder calls after it, those that matter to the part.
Configured(self) ==
    IF about = "tasks" THEN {self, WithStorageOffload(self)} ELSE {WithMaxConcurrent(self, n) : n \in Limits}

\* Both agents have started.
EnvelopeInit ==
    /\ about \in {"tasks"} \cup Agents
    /\ \E c \in Constructed(None, 0) : \E d \in Constructed(None, c[3]) :
           /\ \E self \in Configured(c[1]), other \in Configured(d[1]) :
                  nodes = [n \in Agents |-> IF n = FirstAgent THEN self ELSE other]
           /\ keyfile = [n \in Agents |-> IF n = FirstAgent THEN c[2] ELSE d[2]]
           /\ generated = d[3]
    /\ restarts = 0
    /\ card = [n \in Agents |-> None] /\ encryption = [n \in Agents |-> {}]
    /\ payloads = {} /\ unread = {} /\ asked = 0
    /\ surfaced = [n \in Agents |-> {}]
    /\ announced = {} /\ peer = [n \in Agents |-> None]

\* An agent starts again; what the node held in memory is gone.  The trust file stays.
StartAgain(n) ==
    /\ restarts < MaxRestarts
    /\ \E c \in Constructed(keyfile[n], generated) :
           /\ c[3] <= MaxKeys
           /\ \E self \in Configured(c[1]) : nodes' = [nodes EXCEPT ![n] = self]
           /\ keyfile' = [keyfile EXCEPT ![n] = c[2]]
           /\ generated' = c[3]
    /\ restarts' = restarts + 1
    /\ card' = [card EXCEPT ![n] = None]
    /\ surfaced' = [surfaced EXCEPT ![n] = {}]
    /\ peer' = [peer EXCEPT ![n] = None]
    /\ UNCHANGED <<about, encryption, payloads, unread, asked, announced>>

CardOf(n) == [public_key |-> nodes[n].address, intro_bundle |-> nodes[n].intro_bundle]

\* The other agent's card, by discovery: it is right at this moment.
LearnCard(n) ==
    /\ card' = [card EXCEPT ![n] = <<CardOf(PeerOf(n))>>]
    /\ UNCHANGED <<world, encryption, tasks, presence>>

-------------------------------------------------------------------------------
(* Encryption *)

\* ECDH: both sides compute the same key, each from its secret and the other's public half.
SharedKey(secret, public) == {secret, public}

ParsesAsKey(hex) == hex # Malformed

Plain(task) == [kind |-> "task", task |-> task]

\* SessionKey::encrypt, encrypt_raw: a ciphertext is what it hides and the key that opens it.
Encrypt(key, plaintext) == [key |-> key, plaintext |-> plaintext]

\* SessionKey::decrypt, decrypt_raw: whether they succeed.
Decrypts(key, ciphertext) == ciphertext.key = key

\* The envelope has the sender's public key beside the ciphertext.
Encrypted(task, mine, theirs) ==
    [kind |-> "encrypted_task", sender_pubkey |-> mine, encrypted |-> Encrypt(SharedKey(mine, theirs), task)]

\* maybe_encrypt_task: the set of envelopes it can return; none is an error.
MaybeEncryptTask(self, task, recipient) ==
    IF self.identity # None /\ recipient # None /\ recipient[1].intro_bundle # None
    THEN LET theirs == recipient[1].intro_bundle[1]
         IN  IF ParsesAsKey(theirs) THEN {Encrypted(task, self.identity[1], theirs)} ELSE {}
    ELSE {Plain(task)}

\* decrypt_task: the set of tasks it can return; none is an error.
DecryptTask(identity, envelope) ==
    {t \in {envelope.encrypted.plaintext} :
        /\ ParsesAsKey(envelope.sender_pubkey)
        /\ Decrypts(SharedKey(identity, envelope.sender_pubkey), envelope.encrypted)}

-------------------------------------------------------------------------------
(* Offloading *)

\* Task::new.  A text is its length; 0 is a message without parts.
NewTask(id, from, to, text) ==
    [id |-> id, from |-> from, to |-> to, state |-> "submitted",
     message |-> text, result |-> None, payload_cid |-> None]

\* Mutant: the answer is made by changing the task.
RespondInPlace(task, text, state) ==
    [task EXCEPT !.from = task.to, !.to = task.from, !.state = state, !.result = <<text>>]

\* Task::respond_with_state.
RespondWithState(task, text, state) ==
    [id |-> task.id, from |-> task.to, to |-> task.from, state |-> state,
     message |-> task.message, result |-> <<text>>, payload_cid |-> None]

\* Length of the serialised envelope; a ciphertext is longer than what it hides.
Length(envelope) ==
    LET t == IF envelope.kind = "task" THEN envelope.task ELSE envelope.encrypted.plaintext
        body == t.message + (IF t.result = None THEN 0 ELSE t.result[1])
    IN  IF envelope.kind = "task" THEN body ELSE body + 1

\* The task that goes over the wire in the place of one in storage.  The CID stands for the
\* blob that was uploaded, which is the task in full.
Slim(task) ==
    [task EXCEPT !.payload_cid = <<task>>,
                 !.message = 0,
                 !.result = IF task.result = None THEN None ELSE <<0>>]

\* StorageOffloadConfig: whether an envelope is left in storage.
Offloads(self, envelope) == self.storage /\ Length(envelope) > Threshold

\* prepare_payload: the set of envelopes for the wire; a failed upload or a key that does not
\* parse sends nothing.
PreparePayload(self, task, recipient) ==
    UNION {IF Offloads(self, e)
           THEN MaybeEncryptTask(self, Slim(task), recipient)
           ELSE {e} : e \in MaybeEncryptTask(self, task, recipient)}

\* The payload of `task` is published on the topic of its addressee.
PublishTask(n, task, recipient) ==
    \E e \in PreparePayload(nodes[n], task, recipient) :
        payloads' = payloads \cup {[topic |-> task.to, envelope |-> e, whole |-> task, recipient |-> recipient]}

\* The card of the other agent, passed along or not.
Recipients(n) == {None, card[n]}

\* send_task (without a card) and send_task_to.
SendTaskTo(n, text) ==
    /\ card[n] # None
    /\ asked < MaxTasks
    /\ \E recipient \in Recipients(n) :
           PublishTask(n, NewTask(asked, nodes[n].address, card[n][1].public_key, text), recipient)
    /\ asked' = asked + 1
    /\ UNCHANGED <<world, known, surfaced, unread, presence>>

\* respond, respond_to and respond_failed, to a task that was surfaced.
PublishResponse(n, text, state) ==
    /\ \E s \in surfaced[n], recipient \in Recipients(n) :
           /\ s.task.result = None
           /\ recipient # None => recipient[1].public_key = s.task.from /\ state = "completed"
           /\ PublishTask(n, RespondWithState(s.task, text, state), recipient)
           /\ surfaced' = [surfaced EXCEPT ![n] = @ \ {s}]
    /\ UNCHANGED <<world, known, unread, asked, presence>>

-------------------------------------------------------------------------------
(* Reading *)

\* maybe_fetch_offloaded, when the download succeeds.
MaybeFetchOffloaded(self, task) ==
    IF task.payload_cid # None /\ self.storage THEN task.payload_cid[1] ELSE task

\* extract_task_from_envelope: the set of tasks it can return.
ExtractTask(self, envelope) ==
    LET opened == IF envelope.kind = "task" THEN {envelope.task}
                  ELSE UNION {DecryptTask(self.identity[i], envelope) : i \in DOMAIN self.identity}
    IN  {MaybeFetchOffloaded(self, t) : t \in opened}

\* poll_tasks takes a payload and returns its task, or none.
PollTask(n) ==
    /\ \E m \in payloads :
           /\ m.topic = nodes[n].address
           /\ payloads' = payloads \ {m}
           /\ LET found == ExtractTask(nodes[n], m.envelope)
              IN  /\ surfaced' = [surfaced EXCEPT ![n] =
                                     @ \cup {[task |-> t, whole |-> m.whole] : t \in found}]
                  /\ unread' = IF found = {}
                               THEN unread \cup {[recipient |-> m.recipient, card |-> CardOf(n)]}
                               ELSE unread
    /\ UNCHANGED <<world, known, asked, presence>>

\* The download fails: poll_tasks returns the error and the payload is gone.
PollFetchError(n) ==
    /\ nodes[n].storage
    /\ \E m \in payloads :
           /\ m.topic = nodes[n].address
           /\ \E t \in ExtractTask([nodes[n] EXCEPT !.storage = FALSE], m.envelope) : t.payload_cid # None
           /\ payloads' = payloads \ {m}
    /\ UNCHANGED <<world, known, surfaced, unread, asked, presence>>

-------------------------------------------------------------------------------
(* Sealed load *)

\* LoadBucket::from_load.
FromLoad(depth, max_concurrent) ==
    LET max == IF max_concurrent = 0 THEN 1 ELSE max_concurrent
    IN  IF depth >= max THEN "full" ELSE IF depth * 2 >= max THEN "busy" ELSE "free"

\* current_load_status.
LoadStatus(self) ==
    [bucket |-> FromLoad(self.in_flight, self.max_concurrent),
     queue_depth |-> self.in_flight, max_concurrent |-> self.max_concurrent]

\* load_inc and load_dec.
LoadChanges(n) ==
    /\ \E d \in {nodes[n].in_flight + 1, nodes[n].in_flight - 1} :
           /\ d \in 0..MaxLoad
           /\ nodes' = [nodes EXCEPT ![n].in_flight = d]
    /\ UNCHANGED <<about, keyfile, generated, restarts, known, tasks, presence>>

\* The operator pastes the other agent's key from `lmao info`, or something that is no key; the
\* entry for an address replaces the one before.
PasteKey(n) ==
    /\ \E hex \in {Malformed} \cup {nodes[PeerOf(n)].identity[i] : i \in DOMAIN nodes[PeerOf(n)].identity} :
           encryption' = [encryption EXCEPT ![n] =
                             {e \in @ : e.pubkey # nodes[PeerOf(n)].address}
                             \cup {[pubkey |-> nodes[PeerOf(n)].address, encryption_pubkey |-> hex]}]
    /\ UNCHANGED <<world, card, tasks, presence>>

\* recipient_hint: a few bytes of the key, which two keys may share.
RecipientHint(key) == key % 2

\* seal_for: under a key pair made for this envelope.
SealFor(key, plaintext) == Encrypt(SharedKey(Ephemeral, key), plaintext)

\* unseal: whether it succeeds.
Unseal(identity, ciphertext) == Decrypts(SharedKey(identity, Ephemeral), ciphertext)

\* SealedStatus::seal.
Seal(key, status) == [recipient_hint |-> RecipientHint(key), ciphertext |-> SealFor(key, status)]

\* Mutant: whoever has the hint takes the envelope for its own.
UnsealByHint(identity, envelope) == RecipientHint(identity) = envelope.recipient_hint

\* unseal_with gives the status: the hint fits, and the ciphertext opens.
Unseals(identity, envelope) ==
    RecipientHint(identity) = envelope.recipient_hint /\ Unseal(identity, envelope.ciphertext)

\* build_sealed_status_envelopes: one for each trust entry whose key parses.
SealedStatuses(n) ==
    {Seal(e.encryption_pubkey, LoadStatus(nodes[n])) : e \in {f \in encryption[n] : ParsesAsKey(f.encryption_pubkey)}}

\* announce_presence_with_ttl.
AnnounceLoad(n) ==
    /\ Cardinality(announced) < MaxAnnounced
    /\ announced' = announced \cup
           {[agent_id |-> nodes[n].address, sealed |-> SealedStatuses(n),
             status |-> LoadStatus(nodes[n]),
             keys |-> {e.encryption_pubkey : e \in encryption[n]}]}
    /\ UNCHANGED <<world, known, tasks, peer>>

\* poll_presence: an announcement of another node; the entry takes the load that opens, or none.
PollLoad(n) ==
    /\ \E a \in announced :
           /\ a.agent_id # nodes[n].address
           /\ LET opened == {s \in a.sealed : \E i \in DOMAIN nodes[n].identity :
                                                  Unseals(nodes[n].identity[i], s)}
              IN  peer' = [peer EXCEPT ![n] = <<[of |-> a, load |-> {s.ciphertext.plaintext : s \in opened}]>>]
    /\ UNCHANGED <<world, known, tasks, announced>>

-------------------------------------------------------------------------------

EnvelopeNext ==
    \E n \in Agents :
        \/ StartAgain(n)
        \/ /\ about = "tasks"
           /\ \/ LearnCard(n) \/ PollTask(n) \/ PollFetchError(n)
              \/ \E text \in Lengths :
                     \/ SendTaskTo(n, text)
                     \/ \E state \in {"completed", "failed"} : PublishResponse(n, text, state)
        \/ /\ about = n
           /\ LoadChanges(n) \/ PasteKey(n) \/ AnnounceLoad(n) \/ PollLoad(PeerOf(n))

-------------------------------------------------------------------------------
(* Properties *)

\* Whatever was encrypted and offloaded on the way, and whatever was restarted meanwhile,
\* poll_tasks surfaces the task as its sender made it; only a node without storage gets the
\* shell of an offloaded one.  And a payload is dropped unread only if its sender encrypted it
\* for a card that is not the receiver's any more.
EnvelopeIsTransparent ==
    /\ \A n \in Agents : \A s \in surfaced[n] :
           \/ s.task = s.whole
           \/ ~nodes[n].storage /\ s.task = Slim(s.whole)
    /\ \A u \in unread : u.recipient # <<u.card>>

\* The load a PeerMap shows for a peer is the load that peer had when it made the announcement
\* the entry comes from; a node whose present key the announcer had pasted sees it, any other
\* node sees none; and "full" is exactly when the announcer would turn a task away.
SealedLoadIsTrue ==
    \A n \in Agents : \A i \in DOMAIN peer[n] :
        LET a == peer[n][i].of
            mine == {nodes[n].identity[j] : j \in DOMAIN nodes[n].identity}
        IN  /\ peer[n][i].load = IF mine \cap a.keys = {} THEN {} ELSE {a.status}
            /\ \A l \in peer[n][i].load : l.bucket = "full" <=> l.queue_depth >= l.max_concurrent
===============================================================================
