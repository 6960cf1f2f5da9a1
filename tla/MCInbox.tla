-------------------------------- MODULE MCInbox -------------------------------
(***************************************************************************)
(* What a node learns from the network, one kind at a time: tasks          *)
(* (TaskIntake), presence (Presence), agent cards (Discovery).  Each has   *)
(* its own topic, queue and map, so a behaviour exercises the one that     *)
(* `kind` picks; the others keep one fixed state.                          *)
(***************************************************************************)
EXTENDS TaskIntake, Presence, Discovery, TLC

CONSTANTS
    a, b,   \* a raw and an offloaded SDS task that name the same payment
    c,      \* a message that holds no task
    d,      \* a task whose payment is smaller on chain than it claims
    e,      \* a task that names the payment of a and b in another spelling
    f, g, bare, prefixed, low

MCFrom == [t \in Tasks |-> IF t = b THEN g ELSE f]
MCWrap == [t \in Tasks |-> IF t = b THEN "sds" ELSE "raw"]
MCBody == [t \in Tasks |-> IF t = b THEN "cid" ELSE IF t = c THEN "other" ELSE "plain"]
MCTx == [t \in Tasks |-> IF t = c THEN NoTx ELSE IF t = d THEN low ELSE IF t = e THEN bare ELSE prefixed]
MCClaimed == [t \in Tasks |-> IF t = b THEN 1 ELSE 2]
MCNormalised == [x \in Txs |-> IF x = low THEN low ELSE prefixed]
MCOnChain == [x \in Transactions |-> IF x = low THEN 1 ELSE 2]

VARIABLE kind

inboxVars == <<kind, vars, presenceVars, discoveryVars>>

InboxInit ==
    /\ kind \in {"tasks", "presence", "cards"}
    /\ Init /\ PresenceInit /\ DiscoveryInit
    /\ kind # "tasks" => mode = "off" /\ trusted = {} /\ required = 0
    /\ trusted \subseteq {f} /\ (required > 0 => mode = "off") /\ (mode = "off" => trusted = {})
    /\ timely /\ (kind # "presence" => ttl = 0 /\ ordered /\ ~replays)
    /\ kind # "cards" => user = CHOOSE u \in Users : TRUE

InboxNext ==
    /\ UNCHANGED kind
    /\ \/ /\ kind = "tasks" /\ Next /\ UNCHANGED <<presenceVars, discoveryVars>>
          \* Trust is looked at before payments, and neither looks at the other's state.
          /\ required > 0 => UNCHANGED <<mode, trusted>>
          \* The filter is asked before either.
          /\ required > 0 \/ mode # "off" => UNCHANGED resets
          \* Without payments d and e are like a; and c is never asked for one.
          /\ Range(queue') \subseteq IF required = 0 THEN {a, b, c} ELSE {a, b, d, e}
       \/ kind = "presence" /\ PresenceNext /\ UNCHANGED <<vars, discoveryVars>>
       \/ kind = "cards" /\ DiscoveryNext /\ UNCHANGED <<vars, presenceVars>>

InboxSpec == InboxInit /\ [][InboxNext]_inboxVars

Symmetry == Permutations(Callers)
===============================================================================
