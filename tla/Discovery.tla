------------------------------ MODULE Discovery -------------------------------
(***************************************************************************)
(* Discovery of agent cards by a node (node/src/discovery.rs): cards on    *)
(* the discovery topic, which discover() drains, and the registry of       *)
(* core/src/registry.rs, which discover_all() adds.  Three users of it     *)
(* keep what they found, each in its own way: the cache of the MCP bridge  *)
(* (mcp/src/server.rs), the list of the Qt module (lmao-ffi and            *)
(* logos-core-module), and the result of discover_all().                   *)
(*                                                                         *)
(* A card is the number of its version; 0 is no card.  An agent only goes  *)
(* on to newer versions, and the topic keeps the order of its messages.    *)
(***************************************************************************)
EXTENDS Integers, Sequences, FiniteSets, FiniteSetsExt

CONSTANTS
    Self,           \* the agent whose node discovers
    Others,         \* the other agents
    Askers,         \* calls of a discovery, in progress or to come
    MaxVersion,     \* bound: versions of a card
    MaxAnnounced    \* bound: cards on the topic

ASSUME DiscoveryAssumption ==
    /\ Self \notin Others
    /\ MaxVersion \in Nat \ {0}
    /\ MaxAnnounced \in Nat

Everyone == Others \cup {Self}
Versions == 0..MaxVersion
Cards == [Everyone -> Versions]
NoCards == [a \in Everyone |-> 0]
Users == {"mcp", "qt", "all"}

VARIABLES
    user,       \* who uses the node
    cardOf,     \* the version of each agent's own card
    topic,      \* the cards on DISCOVERY: <<agent, version>>
    discoverRx, \* discover_rx: how far the topic came before, and with, the open subscription
    registry,   \* InMemoryRegistry.agents
    asking,     \* the calls: where each one is
    found,      \* the cards a call has in hand
    cache,      \* LogosA2ABridge.agents
    listed,     \* AgentListModel.m_agents
    raced,      \* history: two calls of discover_agents had cards to merge at the same time
    known       \* history: registered since the call began, with the version of then

discoveryVars ==
    <<user, cardOf, topic, discoverRx, registry, asking, found, cache, listed, raced, known>>

DiscoveryInit ==
    /\ user \in Users
    /\ cardOf = [a \in Everyone |-> 1]
    /\ topic = <<>>
    /\ discoverRx = [open |-> FALSE, taken |-> 0, arrived |-> 0]
    /\ registry = NoCards
    /\ asking = [c \in Askers |-> "idle"]
    /\ found = [c \in Askers |-> NoCards]
    /\ cache = NoCards
    /\ listed = NoCards
    /\ raced = FALSE
    /\ known = [c \in Askers |-> NoCards]

Room == Len(topic) < MaxAnnounced

-------------------------------------------------------------------------------
(* The agents *)

\* announce: the card of now goes on the topic.
Announce(a) ==
    /\ Room
    /\ topic' = Append(topic, <<a, cardOf[a]>>)
    /\ UNCHANGED <<user, cardOf, discoverRx, registry, asking, found, cache, listed, raced, known>>

\* An agent comes back with another card under the same key.
NewCard(a) ==
    /\ cardOf[a] < MaxVersion
    /\ cardOf' = [cardOf EXCEPT ![a] = @ + 1]
    /\ UNCHANGED <<user, topic, discoverRx, registry, asking, found, cache, listed, raced, known>>

\* InMemoryRegistry, under the write lock of its map: one card for a key.  register refuses a
\* key that is there, update and deregister one that is not.
RegistryError(op, a) ==
    CASE op = "register" /\ registry[a] # 0 -> "AlreadyRegistered"
      [] op # "register" /\ registry[a] = 0 -> "NotFound"
      [] OTHER -> "none"

Registry(op, a, version) ==
    /\ user = "all" /\ RegistryError(op, a) = "none"
    /\ registry' = [registry EXCEPT ![a] = version]
    /\ UNCHANGED <<user, cardOf, topic, discoverRx, asking, found, cache, listed, raced>>

\* register_in_registry, update_registry and deregister_from_registry; an error changes nothing.
RegisterInRegistry(a) == Registry("register", a, cardOf[a]) /\ UNCHANGED known
UpdateRegistry(a) == Registry("update", a, cardOf[a]) /\ UNCHANGED known
DeregisterFromRegistry(a) ==
    /\ Registry("deregister", a, 0)
    /\ known' = [c \in Askers |-> [known[c] EXCEPT ![a] = 0]]

\* registry.list: the agents with a card in it.
ListRegistry == {a \in Everyone : registry[a] # 0}

\* The transport moves cards into the queue of the subscription.
CardsArrive ==
    /\ discoverRx.open /\ discoverRx.arrived < Len(topic)
    /\ discoverRx' = [discoverRx EXCEPT !.arrived = Len(topic)]
    /\ UNCHANGED <<user, cardOf, topic, registry, asking, found, cache, listed, raced, known>>

-------------------------------------------------------------------------------
(* discover() *)

\* The cards of the messages between two places of the topic, the last of each agent; the
\* node skips its own.
Latest(from, to) ==
    [a \in Everyone |->
        IF a = Self THEN 0
        ELSE Max({0} \cup {topic[i][2] : i \in {j \in from + 1..to : topic[j][1] = a}})]

\* The lock of discover_rx is held.  The first call subscribes; what was announced before is
\* replayed at once, replayed later, or gone, as the transport has it.
DrainCards(c) ==
    \E from \in IF discoverRx.open THEN {discoverRx.taken} ELSE {0, Len(topic)} :
    \E to \in IF discoverRx.open THEN {discoverRx.arrived} ELSE {from, Len(topic)} :
        /\ found' = [found EXCEPT ![c] = Latest(from, to)]
        /\ discoverRx' = [open |-> TRUE, taken |-> to, arrived |-> to]

\* subscribe fails: discover_rx stays None and the call ends with the error, which leaves
\* the cache and the list as they are.
DiscoverFails(c) ==
    /\ asking[c] = "draining" /\ ~discoverRx.open
    /\ asking' = [asking EXCEPT ![c] = "failed"]
    /\ UNCHANGED <<user, cardOf, topic, discoverRx, registry, found, cache, listed, raced, known>>

-------------------------------------------------------------------------------
(* Its users *)

\* A call begins.  lmao_discover_agents announces the node itself first, and waits; the Qt
\* thread makes one call at a time.
Begin(c) ==
    /\ asking[c] = "idle"
    /\ user = "qt" => \A d \in Askers : asking[d] \in {"idle", "done", "failed"}
    /\ \/ topic' = topic
       \/ user = "qt" /\ Room /\ topic' = Append(topic, <<Self, cardOf[Self]>>)
    /\ asking' = [asking EXCEPT ![c] = "draining"]
    /\ known' = [known EXCEPT ![c] = registry]
    /\ UNCHANGED <<user, cardOf, discoverRx, registry, found, cache, listed, raced>>

\* discover_agents up to the lock of the cache.
DiscoverAgents(c) ==
    /\ user = "mcp" /\ asking[c] = "draining"
    /\ DrainCards(c)
    /\ raced' = (raced \/ \E d \in Askers : asking[d] = "merging")
    /\ asking' = [asking EXCEPT ![c] = "merging"]
    /\ UNCHANGED <<user, cardOf, topic, registry, cache, listed, known>>

\* Mutant: the cache is replaced by what the call found.
MergeReplace(c) ==
    /\ asking[c] = "merging"
    /\ cache' = found[c]
    /\ asking' = [asking EXCEPT ![c] = "done"]
    /\ UNCHANGED <<user, cardOf, topic, discoverRx, registry, found, listed, raced, known>>

\* The rest of discover_agents: a card replaces the cached one of its key, or is added.
Merge(c) ==
    /\ asking[c] = "merging"
    /\ cache' = [a \in Everyone |-> IF found[c][a] = 0 THEN cache[a] ELSE found[c][a]]
    /\ asking' = [asking EXCEPT ![c] = "done"]
    /\ UNCHANGED <<user, cardOf, topic, discoverRx, registry, found, listed, raced, known>>

\* lmao_discover_agents after its wait, and AgentListModel::loadFromJson: the list becomes
\* what this call found.
LoadFromJson(c) ==
    /\ user = "qt" /\ asking[c] = "draining"
    /\ DrainCards(c)
    /\ listed' = found'[c]
    /\ asking' = [asking EXCEPT ![c] = "done"]
    /\ UNCHANGED <<user, cardOf, topic, registry, cache, raced, known>>

\* discover_all up to the await of registry.list().
DiscoverAll(c) ==
    /\ user = "all" /\ asking[c] = "draining"
    /\ DrainCards(c)
    /\ asking' = [asking EXCEPT ![c] = "listing"]
    /\ UNCHANGED <<user, cardOf, topic, registry, cache, listed, raced, known>>

\* The cards of the registry overwrite those of the topic.
AddRegistry(c) ==
    /\ asking[c] = "listing"
    /\ found' = [found EXCEPT ![c] = [a \in Everyone |->
                     IF a \in ListRegistry \ {Self} THEN registry[a] ELSE @[a]]]
    /\ asking' = [asking EXCEPT ![c] = "done"]
    /\ UNCHANGED <<user, cardOf, topic, discoverRx, registry, cache, listed, raced, known>>

\* registry.list() fails: nothing is added, and the call succeeds all the same.
RegistryFails(c) ==
    /\ asking[c] = "listing"
    /\ asking' = [asking EXCEPT ![c] = "done"]
    /\ known' = [known EXCEPT ![c] = NoCards]
    /\ UNCHANGED <<user, cardOf, topic, discoverRx, registry, found, cache, listed, raced>>

DiscoveryNext ==
    \/ \E a \in Everyone :
           \/ Announce(a)
           \/ RegisterInRegistry(a) \/ UpdateRegistry(a) \/ DeregisterFromRegistry(a)
    \/ \E a \in Others : NewCard(a)
    \/ CardsArrive
    \/ \E c \in Askers :
           \/ Begin(c) \/ DiscoverFails(c)
           \/ DiscoverAgents(c) \/ Merge(c)
           \/ LoadFromJson(c)
           \/ DiscoverAll(c) \/ AddRegistry(c) \/ RegistryFails(c)

-------------------------------------------------------------------------------
(* Properties *)

\* Types of the topic, the registry, the calls and what they found.
DiscoveryTypeOK ==
    /\ user \in Users
    /\ {cardOf, registry, cache, listed} \subseteq Cards
    /\ topic \in Seq(Everyone \X Versions)
    /\ discoverRx \in [open : BOOLEAN, taken : 0..MaxAnnounced, arrived : 0..MaxAnnounced]
    /\ asking \in [Askers -> {"idle", "draining", "merging", "listing", "done", "failed"}]
    /\ found \in [Askers -> Cards] /\ known \in [Askers -> Cards]
    /\ raced \in BOOLEAN

Done(c) == asking[c] = "done"

\* No discovery goes back behind what the node knew.  The cache of the bridge keeps every agent
\* that a call of discover_agents found, in no older version, although each call drains the
\* queue the others share, as long as no two calls have cards to merge at the same time.
\* discover_all gives every agent that stayed registered during the call, in no older
\* version than was registered when it began.  Neither gives the node itself.
DiscoveryKeepsUp ==
    \A c \in Askers :
        /\ user = "mcp" /\ Done(c) /\ ~raced => \A a \in Everyone : cache[a] >= found[c][a]
        /\ user = "all" /\ Done(c) => \A a \in Others : found[c][a] >= known[c][a]
        /\ found[c][Self] = 0
===============================================================================
