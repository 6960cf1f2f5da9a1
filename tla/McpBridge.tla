------------------------------- MODULE McpBridge ------------------------------
(***************************************************************************)
(* The MCP bridge (mcp/src): tool calls of a host, which run at the same   *)
(* time over one node.  discover_agents fills a cache of agent cards, in   *)
(* which send_to_agent looks an agent up by name; it sends a task and      *)
(* polls the inbox of the node until the answer is there or the deadline   *)
(* has passed, and each poll takes all that has arrived.  The other tools  *)
(* only show what the cache or the presence map has.                       *)
(***************************************************************************)
EXTENDS Integers, Sequences, SequencesExt

CONSTANT Tools      \* tool calls

\* Agents by their public keys, and the names on their cards.  One may come back under another name.
Keys == 1 .. 2
Names == {"echo", "relay"}
FirstName == [k \in Keys |-> "echo"]
CardOf(k, name) == [public_key |-> k, name |-> name]

VARIABLES
    serving,    \* the bridge serves its host
    nameOf,     \* the name of each agent
    agents,     \* the cache: a sequence of cards
    tool,       \* where each call is
    sentTo,     \* the name a call of send_to_agent was given, and the key it sent to
    overdue,    \* the calls whose deadline has passed
    inboxOpen,  \* poll_tasks has subscribed to the inbox topic
    inbox,      \* answers that wait in it: <<call, TaskState>>
    answered,   \* the last state the agent sent for the task of each call
    verdict,    \* what each call returned
    lostHow     \* history: how the final answer to a call was lost, if it was

cacheVars == <<serving, nameOf, agents>>
bridgeVars == <<cacheVars, tool, sentTo, overdue, inboxOpen, inbox, answered, verdict, lostHow>>

Final == {"Completed", "Failed"}
Nobody == [name |-> "none", key |-> 0]

\* The bridge before its start, or after calls of discover_agents that found every agent.
BridgeInit ==
    /\ nameOf = FirstName
    /\ \/ serving = FALSE /\ agents = <<>>
       \/ serving = TRUE /\ agents = [k \in Keys |-> CardOf(k, FirstName[k])]
    /\ tool = [q \in Tools |-> "idle"]
    /\ sentTo = [q \in Tools |-> Nobody]
    /\ overdue = {}
    /\ inboxOpen = FALSE
    /\ inbox = <<>>
    /\ answered = [q \in Tools |-> "none"]
    /\ verdict = [q \in Tools |-> "none"]
    /\ lostHow = [q \in Tools |-> "kept"]

Return(q, v) ==
    /\ tool' = [tool EXCEPT ![q] = "done"]
    /\ verdict' = [verdict EXCEPT ![q] = v]

-------------------------------------------------------------------------------
(* Start, and the tools that do not wait *)

\* main: whether its announcement succeeds or not, the bridge then serves.
Main ==
    /\ ~serving /\ serving' = TRUE
    /\ UNCHANGED <<nameOf, agents, tool, sentTo, overdue, inboxOpen, inbox, answered, verdict, lostHow>>

\* An agent comes back under another name.
Rename(k) ==
    /\ nameOf[k] = "echo"
    /\ nameOf' = [nameOf EXCEPT ![k] = "relay"]
    /\ UNCHANGED <<serving, agents, tool, sentTo, overdue, inboxOpen, inbox, answered, verdict, lostHow>>

Calls(q) == serving /\ tool[q] = "idle"

\* Merge by public key: a card replaces the cached one of its key, in its place, or goes to the end.
MergeCard(cached, card) ==
    LET i == SelectInSeq(cached, LAMBDA c : c.public_key = card.public_key)
    IN  IF i = 0 THEN Append(cached, card) ELSE [cached EXCEPT ![i] = card]

\* discover_agents: discover() fails, or gives the cards that have arrived since, in some order; a
\* call that was slow to merge may bring the card an agent had before its new name.
DiscoverCards(q) ==
    /\ Calls(q)
    /\ \/ Return(q, "error") /\ UNCHANGED agents
       \/ /\ Return(q, "listed")
          /\ \E ks \in SUBSET Keys, old \in SUBSET Keys :
                \E cards \in SetToSeqs({CardOf(k, IF k \in old THEN FirstName[k] ELSE nameOf[k]) : k \in ks}) :
                    agents' = FoldLeft(MergeCard, agents, cards)
    /\ UNCHANGED <<serving, nameOf, sentTo, overdue, inboxOpen, inbox, answered, lostHow>>

\* list_cached_agents.
ListCachedAgents(q) ==
    /\ Calls(q) /\ Return(q, "listed")
    /\ UNCHANGED <<cacheVars, sentTo, overdue, inboxOpen, inbox, answered, lostHow>>

\* discover_agents_presence and get_agent_status: the presence topic is polled, which may fail, and
\* the peer map shown.
DiscoverAgentsPresence(q) ==
    /\ Calls(q) /\ \E v \in {"error", "listed"} : Return(q, v)
    /\ UNCHANGED <<cacheVars, sentTo, overdue, inboxOpen, inbox, answered, lostHow>>

GetAgentStatus(q) ==
    /\ Calls(q) /\ \E v \in {"error", "online", "offline"} : Return(q, v)
    /\ UNCHANGED <<cacheVars, sentTo, overdue, inboxOpen, inbox, answered, lostHow>>

-------------------------------------------------------------------------------
(* send_to_agent *)

\* The first card of that name in the cache.
Lookup(name) == SelectInSeq(agents, LAMBDA c : c.name = name)

\* The agent is looked up by name in the cache; send_text then sends the task, or fails.
SendToAgent(q, name) ==
    /\ Calls(q)
    /\ IF Lookup(name) = 0 THEN Return(q, "unknown") /\ UNCHANGED sentTo
       ELSE \/ Return(q, "error") /\ UNCHANGED sentTo
            \/ /\ sentTo' = [sentTo EXCEPT ![q] = [name |-> name, key |-> agents[Lookup(name)].public_key]]
               /\ tool' = [tool EXCEPT ![q] = "check"] /\ UNCHANGED verdict
    /\ UNCHANGED <<cacheVars, overdue, inboxOpen, inbox, answered, lostHow>>

\* The agent sends a progress or a final state; only an open subscription hears it.
Answer(q, state) ==
    /\ sentTo[q] # Nobody
    /\ answered[q] = "none" \/ (answered[q] = "Working" /\ state \in Final)
    /\ answered' = [answered EXCEPT ![q] = state]
    /\ inbox' = IF inboxOpen THEN Append(inbox, <<q, state>>) ELSE inbox
    /\ lostHow' = IF inboxOpen \/ state \notin Final THEN lostHow
                  ELSE [lostHow EXCEPT ![q] = "early"]
    /\ UNCHANGED <<cacheVars, tool, sentTo, overdue, inboxOpen, verdict>>

DeadlinePasses(q) ==
    /\ q \notin overdue
    /\ overdue' = overdue \cup {q}
    /\ UNCHANGED <<cacheVars, tool, sentTo, inboxOpen, inbox, answered, verdict, lostHow>>

\* The top of the loop.
CheckDeadline(q) ==
    /\ tool[q] = "check"
    /\ IF q \in overdue THEN Return(q, "timeout")
       ELSE tool' = [tool EXCEPT ![q] = "sleep"] /\ UNCHANGED verdict
    /\ UNCHANGED <<cacheVars, sentTo, overdue, inboxOpen, inbox, answered, lostHow>>

\* What poll_tasks gave for the call: the first task of its id, if there is one.
FirstOf(q) == LET mine == SelectSeq(inbox, LAMBDA m : m[1] = q)
              IN  IF mine = <<>> THEN "none" ELSE mine[1][2]

\* The fate of the final answers in a batch that call q took.
Dropped(q, how) ==
    [r \in Tools |-> IF \E s \in Final : Contains(inbox, <<r, s>>)
                     THEN IF r # q THEN "taken" ELSE how
                     ELSE lostHow[r]]

\* Mutant: only a completed task ends the wait.
PollCompletedOnly(q) ==
    /\ tool[q] = "sleep"
    /\ inboxOpen' = TRUE /\ inbox' = <<>>
    /\ IF FirstOf(q) = "Completed"
       THEN Return(q, "answer") /\ lostHow' = Dropped(q, "kept")
       ELSE /\ tool' = [tool EXCEPT ![q] = "check"] /\ UNCHANGED verdict
            /\ lostHow' = Dropped(q, IF FirstOf(q) = "Failed" THEN "kept" ELSE "behind")
    /\ UNCHANGED <<cacheVars, sentTo, overdue, answered>>

\* After the sleep: poll_tasks empties the inbox, subscribing first if it is the first poll;
\* the first task of the call's own id ends the loop if it is final, and all else is dropped.
Poll(q) ==
    /\ tool[q] = "sleep"
    /\ inboxOpen' = TRUE /\ inbox' = <<>>
    /\ IF FirstOf(q) \in Final
       THEN Return(q, IF FirstOf(q) = "Completed" THEN "answer" ELSE "failed")
            /\ lostHow' = Dropped(q, "kept")
       ELSE /\ tool' = [tool EXCEPT ![q] = "check"] /\ UNCHANGED verdict
            /\ lostHow' = Dropped(q, "behind")
    /\ UNCHANGED <<cacheVars, sentTo, overdue, answered>>

\* poll_tasks fails, which ends the call; what it had taken is gone.
PollFails(q) ==
    /\ tool[q] = "sleep"
    /\ inbox' = <<>> /\ lostHow' = Dropped(q, "taken")
    /\ Return(q, "error")
    /\ UNCHANGED <<cacheVars, sentTo, overdue, inboxOpen, answered>>

BridgeNext ==
    \/ Main
    \/ \E k \in Keys : Rename(k)
    \/ \E q \in Tools :
        \/ DiscoverCards(q) \/ ListCachedAgents(q) \/ DiscoverAgentsPresence(q) \/ GetAgentStatus(q)
        \/ \E name \in Names : SendToAgent(q, name)
        \/ DeadlinePasses(q) \/ CheckDeadline(q) \/ Poll(q) \/ PollFails(q)
        \/ \E state \in Final \cup {"Working"} : Answer(q, state)

-------------------------------------------------------------------------------
(* Properties *)

\* Types of the cache, the calls and the inbox.
BridgeTypeOK ==
    /\ serving \in BOOLEAN /\ nameOf \in [Keys -> Names]
    /\ agents \in Seq([public_key : Keys, name : Names])
    /\ tool \in [Tools -> {"idle", "check", "sleep", "done"}]
    /\ sentTo \in [Tools -> [name : Names, key : Keys] \cup {Nobody}]
    /\ overdue \subseteq Tools /\ inboxOpen \in BOOLEAN
    /\ inbox \in Seq(Tools \X (Final \cup {"Working"}))
    /\ verdict \in [Tools -> {"none", "listed", "online", "offline",
                              "unknown", "error", "timeout", "answer", "failed"}]
    /\ lostHow \in [Tools -> {"kept", "early", "taken", "behind"}]

\* What send_to_agent says of its task is so: an answer or a failure is the agent's own, and a
\* timeout leaves no final answer unread that had arrived, except in the three ways the inbox
\* loses one: before the first poll subscribes, in a batch that another call polled, and in
\* one batch behind a state that is not final.  The task went to an agent that has, or had, the name
\* the call gave, and the cache it was looked up in has one card for an agent, however calls of
\* discover_agents and new names interleave.
SendToAgentTellsTrue ==
    /\ \A q \in Tools :
        /\ verdict[q] = "answer" => answered[q] = "Completed"
        /\ verdict[q] = "failed" => answered[q] = "Failed"
        /\ verdict[q] = "timeout" /\ answered[q] \in Final /\ lostHow[q] = "kept" =>
               \E s \in Final : Contains(inbox, <<q, s>>)
        /\ sentTo[q] # Nobody => sentTo[q].name \in {FirstName[sentTo[q].key], nameOf[sentTo[q].key]}
    /\ \A i, j \in DOMAIN agents : agents[i].public_key = agents[j].public_key => i = j
===============================================================================
