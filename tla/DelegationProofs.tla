--------------------------- MODULE DelegationProofs ---------------------------
(***************************************************************************)
(* Whom a call of delegate_* asks and what it reports, for every number of *)
(* peers, calls and agents that share the queue, checked by TLAPS.         *)
(***************************************************************************)
EXTENDS Delegation, TLAPS

-------------------------------------------------------------------------------
(* Whom a call chooses *)

LEMMA RankLemma == \A load \in Loads : LoadRank(load) \in 0 .. 3
BY DEF Loads, LoadRank

\* Among some peers there is one with the least load.
LEMMA BestExists ==
    ASSUME NEW v \in Views, NEW ps \in SUBSET Peers, ps # {}
    PROVE  Best(v, ps) # {}
<1>1. PICK rank : rank = [p \in Peers |-> LoadRank(v.load[p])]
  BY Zenon
<1>2. \A p \in ps : rank[p] \in 0 .. 3 /\ rank[p] = LoadRank(v.load[p])
  BY <1>1, RankLemma DEF Views
<1>3. \E p \in ps : \A q \in ps : rank[p] <= rank[q]
  <2>1. CASE \E p \in ps : rank[p] = 0
    BY <1>2, <2>1
  <2>2. CASE (\A p \in ps : rank[p] # 0) /\ \E p \in ps : rank[p] = 1
    BY <1>2, <2>2
  <2>3. CASE (\A p \in ps : rank[p] \notin {0, 1}) /\ \E p \in ps : rank[p] = 2
    BY <1>2, <2>3
  <2>4. CASE \A p \in ps : rank[p] \notin {0, 1, 2}
    BY <1>2, <2>4
  <2> QED
    BY <2>1, <2>2, <2>3, <2>4
<1> QED
  BY <1>2, <1>3 DEF Best

\* Every choice and every refusal of delegate_task is a good one, and only peers are chosen.
LEMMA ChoicesAreGood == \A choice \in Choices : choice.good = TRUE /\ choice.ps \subseteq Peers
<1>1. ASSUME NEW v \in Views, NEW strategy, Candidates(v, strategy) = {} PROVE GoodRefusal(v, strategy)
  <2>1. Pool(v, strategy) \in SUBSET Peers
    BY DEF Views, Pool, LivePeers
  <2>2. strategy # "round_robin" => Pool(v, strategy) = {}
    BY <1>1, <2>1, BestExists DEF Candidates
  <2>3. NoTrustedPeersErr(v, strategy) = "filtered" => LivePeers(v, strategy) \ v.trusted # {}
    <3> SUFFICES ASSUME NoTrustedPeersErr(v, strategy) = "filtered" PROVE LivePeers(v, strategy) \ v.trusted # {}
      OBVIOUS
    <3>1. strategy \in {"first", "capability"} /\ LivePeers(v, strategy) # {}
      BY DEF NoTrustedPeersErr
    <3>2. Pool(v, strategy) = {}
      BY <2>2, <3>1
    <3> QED
      BY <3>1, <3>2 DEF Pool
  <2> QED
    BY <2>2, <2>3 DEF GoodRefusal
<1>2. ASSUME NEW v \in Views, NEW strategy, NEW p \in Candidates(v, strategy)
      PROVE  p \in Peers /\ GoodChoice(v, strategy, p)
  <2>1. v.live \subseteq Peers /\ Pool(v, strategy) \subseteq v.live \cap v.trusted
    BY DEF Views, Pool, LivePeers
  <2>2. p \in Pool(v, strategy)
    BY <1>2 DEF Candidates, Best
  <2>3. \A q \in Pool(v, strategy) : LoadRank(v.load[p]) <= LoadRank(v.load[q])
    BY <1>2, <2>1 DEF Candidates, Best
  <2> QED
    BY <2>1, <2>2, <2>3 DEF GoodChoice
<1>3. ASSUME NEW v \in Views, NEW strategy, NEW choice \in ChoicesOf(v, strategy)
      PROVE  choice.good = TRUE /\ choice.ps \subseteq Peers
  <2>1. CASE Candidates(v, strategy) = {}
    <3>1. choice = [ps |-> {}, good |-> GoodRefusal(v, strategy)]
      BY <1>3, <2>1 DEF ChoicesOf
    <3> QED
      BY <1>1, <2>1, <3>1
  <2>2. CASE Candidates(v, strategy) # {}
    <3>1. PICK p \in Candidates(v, strategy) : choice = [ps |-> {p}, good |-> GoodChoice(v, strategy, p)]
      BY <1>3, <2>2 DEF ChoicesOf
    <3> QED
      BY <1>2, <3>1
  <2> QED
    BY <2>1, <2>2, Zenon
<1> SUFFICES ASSUME NEW choice \in Choices PROVE choice.good = TRUE /\ choice.ps \subseteq Peers
  BY Zenon
<1>4. PICK v \in Views : choice \in UNION {ChoicesOf(v, strategy) : strategy \in StrategiesOf(FALSE)}
  BY Zenon DEF Choices
<1>5. PICK strategy \in StrategiesOf(FALSE) : choice \in ChoicesOf(v, strategy)
  BY <1>4, Zenon
<1> QED
  BY <1>3, <1>5, Zenon

LEMMA BroadcastAsksPeers ==
    ASSUME NEW ps \in UNION {{Pool(v, strategy) : strategy \in StrategiesOf(TRUE)} : v \in Views}
    PROVE  ps \subseteq Peers
<1>1. PICK v \in Views : \E strategy \in StrategiesOf(TRUE) : ps = Pool(v, strategy)
  BY Zenon
<1> QED
  BY <1>1 DEF Pool, LivePeers, Views

-------------------------------------------------------------------------------
(* Where tasks are *)

\* The tasks a node has: in its queue, in the batch of its loop, in its hands.
Has(n) == Range(queue[n]) \cup Range(batch[n]) \cup Range(working[n])

DelegationTypes ==
    /\ pc \in [Calls -> {"start", "next", "poll", "done", "error"}]
    /\ todo \in [Calls -> SUBSET Peers]
    /\ target \in [Calls -> Nodes]
    /\ results = [d \in Calls |-> results[d]]
    /\ queue \in [Nodes -> Seq(Task)] /\ batch \in [Nodes -> Seq(Task)] /\ working \in [Nodes -> Seq(Task)]

\* A task is where it was sent, and nobody sends a task to itself.
Addressed == \A n \in Nodes : \A t \in Has(n) : t.to = n /\ t.from # n

\* What reaches the node that delegates is an answer, and one that claims success is of a subtask that
\* was run or turned away.
AnswersTrue ==
    \A t \in Range(queue[Me]) :
        t.state # "submitted" /\ (t.state = "completed" => t.id \in completed \cup rejected)

ResultsTrue ==
    \A d \in Calls : \A r \in results[d] : r[2] = "success" => <<d, r[1]>> \in completed \cup rejected

\* Nothing is known of a subtask that has not been sent.
Unsent(d, p) == <<d, p>> \notin reached /\ \A n \in Nodes : \A t \in Has(n) : t.id # <<d, p>>
AsksOnce == \A d \in Calls : \A p \in Peers : pc[d] = "start" \/ p \in todo[d] => Unsent(d, p)

\* The answer to the subtask a call waits for is in the queue, if it has come and nobody took it.
InQueue(id) == \E t \in Range(queue[Me]) : t.id = id
Awaited(d) ==
    pc[d] = "poll" /\ <<d, target[d]>> \in reached => <<d, target[d]>> \in taken \/ InQueue(<<d, target[d]>>)

DelegationInv ==
    /\ DelegationTypes /\ Addressed /\ AnswersTrue /\ ResultsTrue /\ AsksOnce
    /\ misjudged = FALSE
    /\ \A d \in Calls : Awaited(d)

LEMMA RangeLemma ==
    ASSUME NEW S, NEW s \in Seq(S)
    PROVE  /\ \A t \in S : Range(Append(s, t)) = Range(s) \cup {t}
           /\ s # <<>> => Head(s) \in Range(s) /\ Range(Tail(s)) \subseteq Range(s) /\ Tail(s) \in Seq(S) /\ Head(s) \in S
           /\ \A i \in DOMAIN s : s[i] \in Range(s)
<1>1. ASSUME NEW t \in S PROVE Range(Append(s, t)) = Range(s) \cup {t}
  <2>1. /\ DOMAIN s = 1 .. Len(s) /\ Len(s) \in Nat /\ DOMAIN Append(s, t) = 1 .. Len(s) + 1
        /\ \A i \in 1 .. Len(s) : Append(s, t)[i] = s[i]
        /\ Append(s, t)[Len(s) + 1] = t
    OBVIOUS
  <2>2. ASSUME NEW x \in Range(Append(s, t)) PROVE x \in Range(s) \cup {t}
    <3>1. PICK i \in 1 .. Len(s) + 1 : x = Append(s, t)[i]
      BY <2>1, Zenon DEF Range
    <3>2. CASE i = Len(s) + 1
      BY <2>1, <3>1, <3>2
    <3>3. CASE i \in 1 .. Len(s)
      BY <2>1, <3>1, <3>3 DEF Range
    <3> QED
      BY <2>1, <3>2, <3>3
  <2>3. ASSUME NEW x \in Range(s) PROVE x \in Range(Append(s, t))
    <3>1. PICK i \in 1 .. Len(s) : x = s[i]
      BY <2>1, Zenon DEF Range
    <3>2. i \in 1 .. Len(s) + 1 /\ x = Append(s, t)[i]
      BY <2>1, <3>1
    <3> QED
      BY <2>1, <3>2 DEF Range
  <2>4. t \in Range(Append(s, t))
    <3>1. Len(s) + 1 \in 1 .. Len(s) + 1
      BY <2>1
    <3> QED
      BY <2>1, <3>1 DEF Range
  <2> QED
    BY <2>2, <2>3, <2>4
<1>2. ASSUME s # <<>>
      PROVE  Head(s) \in Range(s) /\ Range(Tail(s)) \subseteq Range(s) /\ Tail(s) \in Seq(S) /\ Head(s) \in S
  <2>1. /\ Len(s) \in Nat \ {0} /\ DOMAIN s = 1 .. Len(s) /\ Head(s) = s[1] /\ Head(s) \in S
        /\ Tail(s) \in Seq(S) /\ DOMAIN Tail(s) = 1 .. Len(s) - 1
    BY <1>2
  <2>2. \A i \in 1 .. Len(s) - 1 : Tail(s)[i] = s[i + 1] /\ i + 1 \in 1 .. Len(s)
    BY <1>2, <2>1
  <2>3. Head(s) \in Range(s)
    BY <2>1 DEF Range
  <2>4. ASSUME NEW x \in Range(Tail(s)) PROVE x \in Range(s)
    <3>1. PICK i \in 1 .. Len(s) - 1 : x = Tail(s)[i]
      BY <2>1, Zenon DEF Range
    <3>2. i + 1 \in 1 .. Len(s) /\ x = s[i + 1]
      BY <2>2, <3>1
    <3> QED
      BY <2>1, <3>2 DEF Range
  <2> QED
    BY <2>1, <2>3, <2>4
<1> QED
  BY <1>1, <1>2, Zenon DEF Range

LEMMA EmptyRange == Range(<<>>) = {} /\ \A x : Range(<<x>>) = {x}
BY DEF Range

-------------------------------------------------------------------------------
(* What a step does with the tasks *)

\* Tasks are moved on or dropped.
TasksKept ==
    /\ \A n \in Nodes : Has(n)' \subseteq Has(n)
    /\ Range(queue'[Me]) \subseteq Range(queue[Me])
    /\ reached' = reached /\ completed \subseteq completed' /\ rejected \subseteq rejected'

\* And one is sent.
TaskSent(t) ==
    /\ \A n \in Nodes : \A x \in Has(n)' : x \in Has(n) \/ (x = t /\ n = t.to)
    /\ \A x \in Range(queue'[Me]) : x \in Range(queue[Me]) \/ (x = t /\ t.to = Me)
    /\ completed \subseteq completed' /\ rejected \subseteq rejected'

LEMMA KeptTasks ==
    ASSUME DelegationInv, TasksKept
    PROVE  Addressed' /\ AnswersTrue' /\ \A d \in Calls, p \in Peers : Unsent(d, p) => Unsent(d, p)'
<1>1. Addressed /\ AnswersTrue
  BY DEF DelegationInv
<1>2. Addressed'
  BY <1>1 DEF TasksKept, Addressed
<1>3. AnswersTrue'
  BY <1>1 DEF TasksKept, AnswersTrue
<1>4. ASSUME NEW d \in Calls, NEW p \in Peers, Unsent(d, p) PROVE Unsent(d, p)'
  BY <1>4 DEF TasksKept, Unsent
<1> QED
  BY <1>2, <1>3, <1>4

LEMMA SentTask ==
    ASSUME DelegationInv, NEW t, TaskSent(t), t.from # t.to, reached' = reached \/ reached' = reached \cup {t.id},
           t.to = Me => t.state # "submitted" /\ (t.state = "completed" => t.id \in completed' \cup rejected')
    PROVE  /\ Addressed' /\ AnswersTrue'
           /\ \A d \in Calls, p \in Peers : Unsent(d, p) /\ t.id # <<d, p>> => Unsent(d, p)'
<1>1. Addressed /\ AnswersTrue
  BY DEF DelegationInv
<1>2. Addressed'
  BY <1>1 DEF TaskSent, Addressed
<1>3. AnswersTrue'
  BY <1>1 DEF TaskSent, AnswersTrue
<1>4. ASSUME NEW d \in Calls, NEW p \in Peers, Unsent(d, p), t.id # <<d, p>> PROVE Unsent(d, p)'
  <2>1. <<d, p>> \notin reached'
    BY <1>4 DEF Unsent
  <2>2. ASSUME NEW n \in Nodes, NEW x \in Has(n)' PROVE x.id # <<d, p>>
    BY <1>4, <2>2 DEF TaskSent, Unsent
  <2> QED
    BY <2>1, <2>2 DEF Unsent
<1> QED
  BY <1>2, <1>3, <1>4

\* The tasks of a node do not change.
LEMMA SameTasks ==
    ASSUME DelegationInv, UNCHANGED <<queue, batch, working, reached, rejected, completed>>
    PROVE  TasksKept /\ \A d \in Calls : taken' = taken /\ pc'[d] = pc[d] /\ target'[d] = target[d] => Awaited(d)'
<1>1. TasksKept
  BY DEF TasksKept, Has
<1>2. ASSUME NEW d \in Calls, taken' = taken, pc'[d] = pc[d], target'[d] = target[d] PROVE Awaited(d)'
  BY <1>2, Zenon DEF DelegationInv, Awaited, InQueue
<1> QED
  BY <1>1, <1>2

-------------------------------------------------------------------------------
(* The steps of a call *)

LEMMA ChosenStep ==
    ASSUME DelegationInv, NEW d \in Calls, NEW ps \in SUBSET Peers, NEW all, Starts(d), Chosen(d, ps, all),
           UNCHANGED <<target, results, queue, agents, reached, taken, rejected, completed>>, misjudged' = FALSE
    PROVE  DelegationInv'
<1>0. DelegationTypes /\ batch' = batch /\ working' = working /\ ResultsTrue /\ AsksOnce
  BY DEF DelegationInv, agents
<1>1. /\ pc[d] = "start" /\ pc' = [pc EXCEPT ![d] = IF ps = {} THEN "error" ELSE "next"]
      /\ todo' = [todo EXCEPT ![d] = ps]
  BY DEF Starts, Chosen
<1>2. DelegationTypes'
  BY <1>0, <1>1 DEF DelegationTypes
<1>3. /\ pc'[d] \in {"error", "next"} /\ todo'[d] = ps
      /\ \A e \in Calls : e # d => pc'[e] = pc[e] /\ todo'[e] = todo[e]
  BY <1>0, <1>1 DEF DelegationTypes
<1>4. TasksKept /\ \A e \in Calls : e # d => Awaited(e)'
  BY <1>0, <1>3, SameTasks
<1>5. Addressed' /\ AnswersTrue' /\ \A e \in Calls, p \in Peers : Unsent(e, p) => Unsent(e, p)'
  BY <1>4, KeptTasks
<1>6. Awaited(d)'
  BY <1>3 DEF Awaited
<1>7. ResultsTrue'
  BY <1>0 DEF ResultsTrue
<1>8. AsksOnce'
  <2> SUFFICES ASSUME NEW e \in Calls, NEW p \in Peers, pc'[e] = "start" \/ p \in todo'[e] PROVE Unsent(e, p)'
    BY DEF AsksOnce
  <2>1. pc[e] = "start" \/ p \in todo[e]
    BY <1>1, <1>3
  <2>2. Unsent(e, p)
    BY <1>0, <2>1 DEF AsksOnce
  <2> QED
    BY <1>5, <2>2
<1> QED
  BY <1>2, <1>4, <1>5, <1>6, <1>7, <1>8 DEF DelegationInv

LEMMA ChooseStep ==
    ASSUME DelegationInv, NEW d \in Calls, DelegateTask(d) \/ DelegateDirect(d) \/ DelegateBroadcast(d)
    PROVE  DelegationInv'
<1>0. Starts(d) /\ UNCHANGED <<target, results, queue, agents, reached, taken, rejected, completed>> /\ misjudged = FALSE
  BY Zenon DEF DelegateTask, DelegateDirect, DelegateBroadcast, histories, DelegationInv
<1>1. CASE DelegateTask(d)
  <2>1. PICK choice \in Choices : Chosen(d, choice.ps, FALSE) /\ misjudged' = (misjudged \/ ~choice.good)
    BY <1>1, Zenon DEF DelegateTask
  <2>2. choice.good = TRUE /\ choice.ps \in SUBSET Peers
    BY ChoicesAreGood
  <2>3. misjudged' = FALSE
    BY <1>0, <2>1, <2>2, Zenon
  <2> QED
    BY <1>0, <2>1, <2>2, <2>3, ChosenStep, Zenon
<1>2. CASE DelegateDirect(d)
  <2>1. misjudged' = FALSE
    BY <1>0, <1>2 DEF DelegateDirect, histories
  <2>2. PICK ps \in SUBSET Peers : Chosen(d, ps, FALSE)
    BY <1>2, Zenon DEF DelegateDirect
  <2> QED
    BY <1>0, <2>1, <2>2, ChosenStep, Zenon
<1>3. CASE DelegateBroadcast(d)
  <2>1. misjudged' = FALSE
    BY <1>0, <1>3 DEF DelegateBroadcast, histories
  <2>2. PICK ps \in UNION {{Pool(v, strategy) : strategy \in StrategiesOf(TRUE)} : v \in Views} : Chosen(d, ps, TRUE)
    BY <1>3, Zenon DEF DelegateBroadcast
  <2>3. ps \in SUBSET Peers
    BY BroadcastAsksPeers, Zenon
  <2> QED
    BY <1>0, <2>1, <2>2, <2>3, ChosenStep, Zenon
<1> QED
  BY <1>1, <1>2, <1>3

LEMMA SendSubtaskStep ==
    ASSUME DelegationInv, NEW d \in Calls, SendSubtask(d)
    PROVE  DelegationInv'
<1>0. DelegationTypes /\ ResultsTrue /\ AsksOnce /\ misjudged = FALSE /\ \A e \in Calls : Awaited(e)
  BY DEF DelegationInv
<1>1. PICK p \in todo[d] :
        /\ todo' = [todo EXCEPT ![d] = todo[d] \ {p}]
        /\ target' = [target EXCEPT ![d] = p]
        /\ Send([id |-> <<d, p>>, from |-> Me, to |-> p, state |-> "submitted", hop |-> 0])
  BY Zenon DEF SendSubtask
<1>2. /\ pc[d] = "next" /\ pc' = [pc EXCEPT ![d] = "poll"] /\ results' = results /\ batch' = batch /\ working' = working
      /\ UNCHANGED <<reached, taken, rejected, completed, misjudged>>
  BY DEF SendSubtask, agents, histories
<1>3. PICK t : t = [id |-> <<d, p>>, from |-> Me, to |-> p, state |-> "submitted", hop |-> 0]
  BY Zenon
<1>4. p \in Peers /\ p \in Nodes /\ Me \in Nodes /\ p # Me
  BY <1>0, DelegationAssumption DEF DelegationTypes, Nodes
<1>5. t \in Task /\ t.to = p /\ t.from = Me /\ t.id = <<d, p>>
  BY <1>3, <1>4 DEF Task, Subtask, States
<1>6. queue' = [queue EXCEPT ![p] = Append(queue[p], t)]
  BY <1>1, <1>3, <1>5 DEF Send
<1>7. queue[p] \in Seq(Task) /\ Append(queue[p], t) \in Seq(Task)
  BY <1>0, <1>4, <1>5 DEF DelegationTypes
<1>8. /\ queue' \in [Nodes -> Seq(Task)] /\ queue'[p] = Append(queue[p], t)
      /\ \A n \in Nodes : n # p => queue'[n] = queue[n]
  BY <1>0, <1>4, <1>6, <1>7 DEF DelegationTypes
<1>9. Range(queue'[p]) = Range(queue[p]) \cup {t}
  <2>1. PICK q \in Seq(Task) : q = queue[p] /\ queue'[p] = Append(q, t)
    BY <1>7, <1>8
  <2>2. Range(Append(q, t)) = Range(q) \cup {t}
    BY <1>5, RangeLemma
  <2> QED
    BY <2>1, <2>2
<1>10. TaskSent(t)
  <2>1. ASSUME NEW n \in Nodes, NEW x \in Has(n)' PROVE x \in Has(n) \/ (x = t /\ n = t.to)
    BY <1>2, <1>5, <1>8, <1>9, <2>1, Zenon DEF Has
  <2>2. Range(queue'[Me]) = Range(queue[Me])
    BY <1>4, <1>8
  <2> QED
    BY <1>2, <2>1, <2>2 DEF TaskSent
<1>11. /\ Addressed' /\ AnswersTrue'
       /\ \A e \in Calls, q \in Peers : Unsent(e, q) /\ t.id # <<e, q>> => Unsent(e, q)'
  BY <1>2, <1>4, <1>5, <1>10, SentTask
<1>12. /\ pc'[d] = "poll" /\ todo'[d] = todo[d] \ {p} /\ target'[d] = p
       /\ \A e \in Calls : e # d => pc'[e] = pc[e] /\ todo'[e] = todo[e] /\ target'[e] = target[e]
  BY <1>0, <1>1, <1>2 DEF DelegationTypes
<1>13. DelegationTypes'
  BY <1>0, <1>1, <1>2, <1>4, <1>8 DEF DelegationTypes
<1>14. ResultsTrue'
  BY <1>0, <1>2 DEF ResultsTrue
<1>15. AsksOnce'
  <2> SUFFICES ASSUME NEW e \in Calls, NEW q \in Peers, pc'[e] = "start" \/ q \in todo'[e] PROVE Unsent(e, q)'
    BY DEF AsksOnce
  <2>1. (pc[e] = "start" \/ q \in todo[e]) /\ (e # d \/ q # p)
    BY <1>12
  <2>2. Unsent(e, q) /\ t.id # <<e, q>>
    BY <1>0, <1>5, <2>1 DEF AsksOnce
  <2> QED
    BY <1>11, <2>2
<1>16. ASSUME NEW e \in Calls PROVE Awaited(e)'
  <2>1. CASE e = d
    <3>1. <<d, p>> \notin reached'
      BY <1>0, <1>2, <1>4 DEF AsksOnce, Unsent
    <3> QED
      BY <1>12, <2>1, <3>1 DEF Awaited
  <2>2. CASE e # d
    <3>1. queue'[Me] = queue[Me]
      BY <1>4, <1>8
    <3> QED
      BY <1>0, <1>2, <1>12, <2>2, <3>1 DEF Awaited, InQueue
  <2> QED
    BY <2>1, <2>2
<1> QED
  BY <1>0, <1>2, <1>11, <1>13, <1>14, <1>15, <1>16 DEF DelegationInv

\* A call moves on, with the tasks as they are; a result it adds does not claim success.
LEMMA CallMoves ==
    ASSUME DelegationInv, NEW d \in Calls, pc[d] # "start", UNCHANGED <<target, queue, agents, histories>>,
           NEW q \in {"next", "done", "error"}, pc' = [pc EXCEPT ![d] = q],
           todo' \in [Calls -> SUBSET Peers], \A e \in Calls : todo'[e] \subseteq todo[e],
           results' = [e \in Calls |-> results'[e]],
           \A e \in Calls : \A r \in results'[e] : r \in results[e] \/ r[2] # "success"
    PROVE  DelegationInv'
<1>0. /\ DelegationTypes /\ ResultsTrue /\ AsksOnce /\ misjudged = FALSE
      /\ batch' = batch /\ working' = working
      /\ UNCHANGED <<reached, taken, rejected, completed, misjudged>>
  BY DEF DelegationInv, agents, histories
<1>1. DelegationTypes'
  BY <1>0 DEF DelegationTypes
<1>2. pc'[d] = q /\ \A e \in Calls : e # d => pc'[e] = pc[e]
  BY <1>0 DEF DelegationTypes
<1>3. TasksKept /\ \A e \in Calls : e # d => Awaited(e)'
  BY <1>0, <1>2, SameTasks
<1>4. Addressed' /\ AnswersTrue' /\ \A e \in Calls, p \in Peers : Unsent(e, p) => Unsent(e, p)'
  BY <1>3, KeptTasks
<1>5. Awaited(d)'
  BY <1>2 DEF Awaited
<1>6. ResultsTrue'
  BY <1>0 DEF ResultsTrue
<1>7. AsksOnce'
  <2> SUFFICES ASSUME NEW e \in Calls, NEW p \in Peers, pc'[e] = "start" \/ p \in todo'[e] PROVE Unsent(e, p)'
    BY DEF AsksOnce
  <2>1. pc[e] = "start" \/ p \in todo[e]
    BY <1>2
  <2>2. Unsent(e, p)
    BY <1>0, <2>1 DEF AsksOnce
  <2> QED
    BY <1>4, <2>2
<1> QED
  BY <1>0, <1>1, <1>3, <1>4, <1>5, <1>6, <1>7 DEF DelegationInv

\* A result is added to those of a call.
LEMMA AddedResult ==
    ASSUME DelegationTypes, NEW d \in Calls, NEW r, results' = [results EXCEPT ![d] = results[d] \cup {r}]
    PROVE  /\ results' = [e \in Calls |-> results'[e]]
           /\ results'[d] = results[d] \cup {r}
           /\ \A e \in Calls : e # d => results'[e] = results[e]
BY Zenon DEF DelegationTypes

LEMMA FailStep ==
    ASSUME DelegationInv, NEW d \in Calls, NEW p, Fail(d, p)
    PROVE  /\ \E q \in {"next", "done", "error"} : pc' = [pc EXCEPT ![d] = q]
           /\ results' = [e \in Calls |-> results'[e]]
           /\ \A e \in Calls : \A r \in results'[e] : r \in results[e] \/ r[2] = "failure"
<1>0. DelegationTypes
  BY DEF DelegationInv
<1>1. \E q \in {"next", "done", "error"} : pc' = [pc EXCEPT ![d] = q]
  BY Zenon DEF Fail
<1>2. CASE results' = results
  BY <1>0, <1>1, <1>2, Zenon DEF DelegationTypes
<1>3. CASE results' = [results EXCEPT ![d] = results[d] \cup {<<p, "failure">>}]
  <2>0. PICK f : f = <<p, "failure">>
    BY Zenon
  <2>1. f = <<p, "failure">> /\ f[2] = "failure"
    BY <2>0
  <2>2. results' = [results EXCEPT ![d] = results[d] \cup {f}]
    BY <1>3, <2>1
  <2>3. /\ results' = [e \in Calls |-> results'[e]]
        /\ results'[d] = results[d] \cup {f}
        /\ \A e \in Calls : e # d => results'[e] = results[e]
    BY <1>0, <2>2, AddedResult, Zenon
  <2>4. \A e \in Calls : \A r \in results'[e] : r \in results[e] \/ r[2] = "failure"
    BY <2>1, <2>3
  <2> QED
    BY <1>1, <2>3, <2>4, Zenon
<1> QED
  BY <1>2, <1>3, Zenon DEF Fail

LEMMA CallsStep ==
    ASSUME DelegationInv, NEW d \in Calls, SendError(d) \/ PollError(d) \/ Expire(d) \/ Return(d)
    PROVE  DelegationInv'
<1>0. DelegationTypes
  BY DEF DelegationInv
<1>1. CASE SendError(d)
  <2>1. PICK p \in todo[d] : todo' = [todo EXCEPT ![d] = todo[d] \ {p}] /\ Fail(d, p)
    BY <1>1, Zenon DEF SendError
  <2>2. todo' \in [Calls -> SUBSET Peers] /\ \A e \in Calls : todo'[e] \subseteq todo[e]
    BY <1>0, <2>1 DEF DelegationTypes
  <2>3. pc[d] # "start" /\ UNCHANGED <<target, queue, agents, histories>>
    BY <1>1 DEF SendError
  <2> QED
    BY <2>1, <2>2, <2>3, FailStep, CallMoves
<1>2. CASE PollError(d)
  <2>1. todo' \in [Calls -> SUBSET Peers] /\ \A e \in Calls : todo'[e] \subseteq todo[e]
    BY <1>0, <1>2 DEF DelegationTypes, PollError
  <2>2. pc[d] # "start" /\ UNCHANGED <<target, queue, agents, histories>> /\ Fail(d, target[d])
    BY <1>2 DEF PollError
  <2> QED
    BY <2>1, <2>2, FailStep, CallMoves
<1>3. CASE Expire(d)
  <2>1. todo' \in [Calls -> SUBSET Peers] /\ \A e \in Calls : todo'[e] \subseteq todo[e]
    BY <1>0, <1>3 DEF DelegationTypes, Expire
  <2>2. /\ pc[d] # "start" /\ UNCHANGED <<target, queue, agents, histories>>
        /\ pc' = [pc EXCEPT ![d] = "next"]
        /\ results' = [results EXCEPT ![d] = results[d] \cup {<<target[d], "timeout">>}]
    BY <1>3 DEF Expire, Finish
  <2>3. results' = [e \in Calls |-> results'[e]]
        /\ \A e \in Calls : \A r \in results'[e] : r \in results[e] \/ r[2] # "success"
    <3>0. PICK f : f = <<target[d], "timeout">>
      BY Zenon
    <3>1. f = <<target[d], "timeout">> /\ f[2] # "success"
      BY <3>0
    <3>2. /\ results' = [e \in Calls |-> results'[e]]
          /\ results'[d] = results[d] \cup {f}
          /\ \A e \in Calls : e # d => results'[e] = results[e]
      BY <1>0, <2>2, <3>1, AddedResult, Zenon
    <3> QED
      BY <3>1, <3>2
  <2> QED
    BY <2>1, <2>2, <2>3, CallMoves, Zenon
<1>4. CASE Return(d)
  <2>1. todo' \in [Calls -> SUBSET Peers] /\ \A e \in Calls : todo'[e] \subseteq todo[e]
    BY <1>0, <1>4 DEF DelegationTypes, Return
  <2>2. /\ pc[d] # "start" /\ UNCHANGED <<target, queue, agents, histories>>
        /\ pc' = [pc EXCEPT ![d] = "done"] /\ results' = results
    BY <1>4 DEF Return
  <2>3. results' = [e \in Calls |-> results'[e]]
        /\ \A e \in Calls : \A r \in results'[e] : r \in results[e] \/ r[2] # "success"
    BY <1>0, <2>2 DEF DelegationTypes
  <2> QED
    BY <2>1, <2>2, <2>3, CallMoves, Zenon
<1> QED
  BY <1>1, <1>2, <1>3, <1>4

\* A poll takes all that is in the queue: what is not the call's own is lost to its caller.
LEMMA PollAnswerStep ==
    ASSUME DelegationInv, NEW d \in Calls, PollAnswer(d)
    PROVE  DelegationInv'
<1>0. /\ DelegationTypes /\ ResultsTrue /\ AsksOnce /\ AnswersTrue /\ misjudged = FALSE
      /\ \A e \in Calls : Awaited(e)
  BY DEF DelegationInv
<1>1. /\ pc[d] = "poll" /\ queue' = [queue EXCEPT ![Me] = <<>>] /\ batch' = batch /\ working' = working
      /\ taken' = taken \cup {t.id : t \in {u \in Range(queue[Me]) : ~Own(d, u)}}
      /\ UNCHANGED <<todo, target, reached, rejected, completed, misjudged>>
  BY DEF PollAnswer, agents
<1>2. Me \in Nodes /\ queue[Me] \in Seq(Task)
  BY <1>0 DEF Nodes, DelegationTypes
<1>3. /\ queue' \in [Nodes -> Seq(Task)] /\ queue'[Me] = <<>>
      /\ \A n \in Nodes : n # Me => queue'[n] = queue[n]
  BY <1>0, <1>1, <1>2 DEF DelegationTypes
<1>4. Range(queue'[Me]) = {}
  BY <1>3, EmptyRange
<1>5. TasksKept
  <2>1. ASSUME NEW n \in Nodes PROVE Has(n)' \subseteq Has(n)
    BY <1>1, <1>3, <1>4, Zenon DEF Has
  <2> QED
    BY <1>1, <1>4, <2>1, Zenon DEF TasksKept
<1>6. Addressed' /\ AnswersTrue' /\ \A e \in Calls, p \in Peers : Unsent(e, p) => Unsent(e, p)'
  BY <1>5, KeptTasks
<1>7. \/ results' = results /\ pc' = pc /\ \A t \in Range(queue[Me]) : ~Own(d, t)
      \/ \E t \in Range(queue[Me]) :
            /\ Own(d, t) /\ results' = [results EXCEPT ![d] = results[d] \cup {<<target[d], Outcome(t)>>}]
            /\ pc' = [pc EXCEPT ![d] = "next"]
  <2>1. CASE (\A i \in DOMAIN queue[Me] : ~Own(d, queue[Me][i])) /\ UNCHANGED <<results, pc>>
    <3>1. ASSUME NEW t \in Range(queue[Me]) PROVE ~Own(d, t)
      BY <2>1, Zenon DEF Range
    <3> QED
      BY <2>1, <3>1
  <2>2. ASSUME NEW i \in DOMAIN queue[Me], Own(d, queue[Me][i]), Finish(d, Outcome(queue[Me][i]))
        PROVE  \E t \in Range(queue[Me]) :
                 /\ Own(d, t) /\ results' = [results EXCEPT ![d] = results[d] \cup {<<target[d], Outcome(t)>>}]
                 /\ pc' = [pc EXCEPT ![d] = "next"]
    <3>1. queue[Me][i] \in Range(queue[Me])
      BY <1>2, RangeLemma
    <3> QED
      BY <2>2, <3>1, Zenon DEF Finish
  <2> QED
    BY <2>1, <2>2 DEF PollAnswer
<1>8. /\ DelegationTypes' /\ ResultsTrue' /\ pc'[d] \in {"poll", "next"}
      /\ pc'[d] = "poll" => \A t \in Range(queue[Me]) : ~Own(d, t)
      /\ \A e \in Calls : e # d => pc'[e] = pc[e]
  <2>1. CASE results' = results /\ pc' = pc /\ \A t \in Range(queue[Me]) : ~Own(d, t)
    <3>1. DelegationTypes'
      BY <1>0, <1>1, <1>3, <2>1 DEF DelegationTypes
    <3>2. ResultsTrue'
      BY <1>0, <1>1, <2>1 DEF ResultsTrue
    <3> QED
      BY <1>1, <2>1, <3>1, <3>2, Zenon
  <2>2. ASSUME NEW t \in Range(queue[Me]), Own(d, t), pc' = [pc EXCEPT ![d] = "next"],
               results' = [results EXCEPT ![d] = results[d] \cup {<<target[d], Outcome(t)>>}]
        PROVE  /\ DelegationTypes' /\ ResultsTrue' /\ pc'[d] = "next"
               /\ \A e \in Calls : e # d => pc'[e] = pc[e]
    <3>1. /\ results' = [e \in Calls |-> results'[e]]
          /\ results'[d] = results[d] \cup {<<target[d], Outcome(t)>>}
          /\ \A e \in Calls : e # d => results'[e] = results[e]
      BY <1>0, <2>2, AddedResult, Zenon
    <3>2. DelegationTypes'
      BY <1>0, <1>1, <1>3, <2>2, <3>1 DEF DelegationTypes
    <3>3. t \in Task
      BY <1>2 DEF Range
    <3>4. Outcome(t) = "success" => <<d, target[d]>> \in completed \cup rejected
      BY <1>0, <2>2, <3>3 DEF AnswersTrue, Outcome, Own, Task, States
    <3>5. ResultsTrue'
      BY <1>0, <1>1, <3>1, <3>4 DEF ResultsTrue
    <3> QED
      BY <1>0, <2>2, <3>2, <3>5, Zenon DEF DelegationTypes
  <2> QED
    BY <1>7, <2>1, <2>2
<1>9. AsksOnce'
  BY <1>0, <1>1, <1>6, <1>8 DEF AsksOnce
<1>10. ASSUME NEW e \in Calls PROVE Awaited(e)'
  <2> SUFFICES ASSUME pc'[e] = "poll", <<e, target[e]>> \in reached PROVE <<e, target[e]>> \in taken'
    BY <1>1 DEF Awaited
  <2>1. pc[e] = "poll"
    BY <1>1, <1>8
  <2>2. CASE <<e, target[e]>> \in taken
    BY <1>1, <2>2
  <2>3. CASE InQueue(<<e, target[e]>>)
    <3>1. PICK t \in Range(queue[Me]) : t.id = <<e, target[e]>>
      BY <2>3 DEF InQueue
    <3>2. ~Own(d, t)
      BY <1>8, <3>1 DEF Own
    <3> QED
      BY <1>1, <3>1, <3>2
  <2> QED
    BY <1>0, <2>1, <2>2, <2>3 DEF Awaited
<1> QED
  BY <1>0, <1>1, <1>6, <1>8, <1>9, <1>10 DEF DelegationInv

-------------------------------------------------------------------------------
(* The steps of an agent *)

LEMMA CallsKept ==
    ASSUME DelegationInv, UNCHANGED calls, misjudged' = misjudged, completed \subseteq completed', rejected \subseteq rejected',
           queue' \in [Nodes -> Seq(Task)], batch' \in [Nodes -> Seq(Task)], working' \in [Nodes -> Seq(Task)],
           \A d \in Calls, p \in Peers : Unsent(d, p) => Unsent(d, p)'
    PROVE  DelegationTypes' /\ ResultsTrue' /\ AsksOnce' /\ misjudged' = FALSE
<1>0. DelegationTypes /\ ResultsTrue /\ AsksOnce /\ misjudged = FALSE /\ UNCHANGED <<pc, todo, target, results>>
  BY DEF DelegationInv, calls
<1>1. DelegationTypes'
  BY <1>0 DEF DelegationTypes
<1>2. ResultsTrue'
  BY <1>0, Zenon DEF ResultsTrue
<1>3. AsksOnce'
  BY <1>0 DEF AsksOnce
<1> QED
  BY <1>0, <1>1, <1>2, <1>3

LEMMA DrainInboxStep ==
    ASSUME DelegationInv, NEW n \in Nodes, DrainInbox(n)
    PROVE  DelegationInv'
<1>0. DelegationTypes /\ \A d \in Calls : Awaited(d)
  BY DEF DelegationInv
<1>1. /\ batch' = [batch EXCEPT ![n] = queue[n]] /\ queue' = [queue EXCEPT ![n] = <<>>]
      /\ UNCHANGED calls /\ UNCHANGED <<working, reached, rejected, completed, misjudged>>
      /\ taken' = IF n = Me THEN taken \cup {t.id : t \in Range(queue[n])} ELSE taken
  BY DEF DrainInbox
<1>2. /\ queue' \in [Nodes -> Seq(Task)] /\ batch' \in [Nodes -> Seq(Task)] /\ working' \in [Nodes -> Seq(Task)]
      /\ queue'[n] = <<>> /\ batch'[n] = queue[n]
      /\ \A m \in Nodes : m # n => queue'[m] = queue[m] /\ batch'[m] = batch[m]
  BY <1>0, <1>1 DEF DelegationTypes
<1>3. Range(queue'[n]) = {}
  BY <1>2, EmptyRange
<1>4. Me \in Nodes
  BY DEF Nodes
<1>5. TasksKept
  <2>1. ASSUME NEW m \in Nodes PROVE Has(m)' \subseteq Has(m)
    BY <1>1, <1>2, <1>3 DEF Has
  <2>2. Range(queue'[Me]) \subseteq Range(queue[Me])
    BY <1>2, <1>3, <1>4, Zenon
  <2> QED
    BY <1>1, <2>1, <2>2, Zenon DEF TasksKept
<1>6. Addressed' /\ AnswersTrue' /\ \A e \in Calls, p \in Peers : Unsent(e, p) => Unsent(e, p)'
  BY <1>5, KeptTasks
<1>7. DelegationTypes' /\ ResultsTrue' /\ AsksOnce' /\ misjudged' = FALSE
  BY <1>1, <1>2, <1>6, CallsKept, Zenon
<1>8. ASSUME NEW e \in Calls PROVE Awaited(e)'
  <2>0. UNCHANGED <<pc, target>>
    BY <1>1, Zenon DEF calls
  <2>1. CASE n = Me
    BY <1>0, <1>1, <2>0, <2>1, Zenon DEF Awaited, InQueue
  <2>2. CASE n # Me
    <3>1. taken' = taken /\ queue'[Me] = queue[Me]
      BY <1>1, <1>2, <1>4, <2>2
    <3> QED
      BY <1>0, <1>1, <2>0, <3>1, Zenon DEF Awaited, InQueue
  <2> QED
    BY <2>1, <2>2
<1> QED
  BY <1>6, <1>7, <1>8 DEF DelegationInv

LEMMA StartTaskStep ==
    ASSUME DelegationInv, NEW n \in Nodes, StartTask(n)
    PROVE  DelegationInv'
<1>0. DelegationTypes
  BY DEF DelegationInv
<1>1. /\ batch[n] # <<>> /\ working' = [working EXCEPT ![n] = <<Head(batch[n])>>]
      /\ batch' = [batch EXCEPT ![n] = Tail(batch[n])]
      /\ UNCHANGED calls /\ queue' = queue /\ UNCHANGED <<reached, taken, rejected, completed, misjudged>>
  BY DEF StartTask, histories
<1>2. batch[n] \in Seq(Task)
  BY <1>0 DEF DelegationTypes
<1>3. PICK x \in Range(batch[n]) : x = Head(batch[n]) /\ x \in Task
  BY <1>1, <1>2, RangeLemma
<1>4. PICK rest \in Seq(Task) : rest = Tail(batch[n]) /\ Range(rest) \subseteq Range(batch[n])
  BY <1>1, <1>2, RangeLemma, Zenon
<1>5. /\ batch' \in [Nodes -> Seq(Task)] /\ batch'[n] = rest
      /\ \A m \in Nodes : m # n => batch'[m] = batch[m]
  BY <1>0, <1>1, <1>4 DEF DelegationTypes
<1>6. /\ working' \in [Nodes -> Seq(Task)] /\ working'[n] = <<x>>
      /\ \A m \in Nodes : m # n => working'[m] = working[m]
  <2>1. <<x>> \in Seq(Task)
    BY <1>3
  <2> QED
    BY <1>0, <1>1, <1>3, <2>1 DEF DelegationTypes
<1>7. Range(working'[n]) = {x}
  BY <1>6, EmptyRange
<1>8. TasksKept
  <2>1. ASSUME NEW m \in Nodes PROVE Has(m)' \subseteq Has(m)
    <3>1. CASE m = n
      BY <1>1, <1>3, <1>4, <1>5, <1>7, <3>1, Zenon DEF Has
    <3>2. CASE m # n
      BY <1>1, <1>5, <1>6, <3>2 DEF Has
    <3> QED
      BY <3>1, <3>2
  <2> QED
    BY <1>1, <2>1 DEF TasksKept
<1>9. Addressed' /\ AnswersTrue' /\ \A e \in Calls, p \in Peers : Unsent(e, p) => Unsent(e, p)'
  BY <1>8, KeptTasks
<1>10. queue' \in [Nodes -> Seq(Task)]
  BY <1>0, <1>1 DEF DelegationTypes
<1>11. DelegationTypes' /\ ResultsTrue' /\ AsksOnce' /\ misjudged' = FALSE
  BY <1>1, <1>5, <1>6, <1>9, <1>10, CallsKept, Zenon
<1>12. ASSUME NEW e \in Calls PROVE Awaited(e)'
  BY <1>1, Zenon DEF DelegationInv, Awaited, InQueue, calls
<1> QED
  BY <1>9, <1>11, <1>12 DEF DelegationInv

\* An agent answers a task it has.
LEMMA AnswerStep ==
    ASSUME DelegationInv, NEW n \in Nodes, NEW x \in Has(n), x \in Task, NEW state \in {"completed", "failed"},
           Publish(Respond(x, state)), UNCHANGED calls, misjudged' = misjudged, taken' = taken,
           batch' \in [Nodes -> Seq(Task)], working' \in [Nodes -> Seq(Task)],
           \A m \in Nodes : Range(batch'[m]) \subseteq Range(batch[m]) /\ Range(working'[m]) \subseteq Range(working[m]),
           completed \subseteq completed', rejected \subseteq rejected',
           state = "completed" /\ n # Me => x.id \in completed' \cup rejected'
    PROVE  DelegationInv'
<1>0. DelegationTypes /\ Addressed /\ \A d \in Calls : Awaited(d)
  BY DEF DelegationInv
<1>1. Me \in Nodes /\ x.to = n /\ x.from # n
  BY <1>0 DEF Addressed, Nodes
<1>2. PICK t : t = Respond(x, state)
  OBVIOUS
<1>3. t \in Task /\ t.id = x.id /\ t.from = n /\ t.to = x.from /\ t.state = state /\ t.to \in Nodes
  <2>1. x.id \in Subtask /\ x.from \in Nodes /\ x.hop \in Nat
    BY DEF Task
  <2>2. t = [id |-> x.id, from |-> n, to |-> x.from, state |-> state, hop |-> x.hop + 1]
    BY <1>1, <1>2, Zenon DEF Respond
  <2>3. t \in Task
    BY <2>1, <2>2, SMTT(20) DEF Task, States
  <2> QED
    BY <2>1, <2>2, <2>3
<1>4. \/ Send(t) /\ reached' = IF t.to = Me THEN reached \cup {t.id} ELSE reached
      \/ UNCHANGED <<queue, reached>>
  BY <1>2 DEF Publish
<1>5. UNCHANGED <<pc, target>>
  BY DEF calls
<1>6. /\ queue' \in [Nodes -> Seq(Task)]
      /\ \A m \in Nodes : Range(queue[m]) \subseteq Range(queue'[m])
      /\ \A m \in Nodes : \A y \in Range(queue'[m]) : y \in Range(queue[m]) \/ (y = t /\ m = t.to)
      /\ \A id \in reached' : id \in reached \/ InQueue(id)'
      /\ reached' = reached \/ reached' = reached \cup {t.id}
  <2>1. CASE UNCHANGED <<queue, reached>>
    BY <1>0, <2>1 DEF DelegationTypes
  <2>2. CASE Send(t) /\ reached' = (IF t.to = Me THEN reached \cup {t.id} ELSE reached)
    <3>1. queue' = [queue EXCEPT ![t.to] = Append(queue[t.to], t)]
      BY <2>2, Zenon DEF Send
    <3>2. queue[t.to] \in Seq(Task) /\ Append(queue[t.to], t) \in Seq(Task)
      BY <1>0, <1>3 DEF DelegationTypes
    <3>3. /\ queue' \in [Nodes -> Seq(Task)] /\ queue'[t.to] = Append(queue[t.to], t)
          /\ \A m \in Nodes : m # t.to => queue'[m] = queue[m]
      BY <1>0, <1>3, <3>1, <3>2, Zenon DEF DelegationTypes
    <3>4. Range(queue'[t.to]) = Range(queue[t.to]) \cup {t}
      <4>1. PICK q \in Seq(Task) : q = queue[t.to] /\ queue'[t.to] = Append(q, t)
        BY <3>2, <3>3
      <4>2. Range(Append(q, t)) = Range(q) \cup {t}
        BY <1>3, RangeLemma
      <4> QED
        BY <4>1, <4>2
    <3>5. t.to = Me => InQueue(t.id)'
      BY <3>4 DEF InQueue
    <3>6. \A id \in reached' : id \in reached \/ InQueue(id)'
      BY <2>2, <3>5
    <3> QED
      BY <2>2, <3>3, <3>4, <3>6, Zenon
  <2> QED
    BY <1>4, <2>1, <2>2, Zenon
<1>7. TaskSent(t)
  <2>1. ASSUME NEW m \in Nodes, NEW y \in Has(m)' PROVE y \in Has(m) \/ (y = t /\ m = t.to)
    BY <1>6, <2>1, Zenon DEF Has
  <2> QED
    BY <1>1, <1>6, <2>1, Zenon DEF TaskSent
<1>8. t.to = Me => t.state # "submitted" /\ (t.state = "completed" => t.id \in completed' \cup rejected')
  BY <1>1, <1>3
<1>9. /\ Addressed' /\ AnswersTrue'
      /\ \A e \in Calls, p \in Peers : Unsent(e, p) /\ t.id # <<e, p>> => Unsent(e, p)'
  BY <1>1, <1>3, <1>6, <1>7, <1>8, SentTask, Zenon
<1>10. ASSUME NEW e \in Calls, NEW p \in Peers, Unsent(e, p) PROVE Unsent(e, p)'
  <2>1. t.id # <<e, p>>
    BY <1>3, <1>10 DEF Unsent
  <2> QED
    BY <1>9, <1>10, <2>1
<1>11. DelegationTypes' /\ ResultsTrue' /\ AsksOnce' /\ misjudged' = FALSE
  BY <1>6, <1>10, CallsKept, Zenon
<1>12. ASSUME NEW e \in Calls PROVE Awaited(e)'
  <2>1. InQueue(<<e, target[e]>>) => InQueue(<<e, target[e]>>)'
    BY <1>1, <1>5, <1>6, Zenon DEF InQueue
  <2>2. <<e, target[e]>> \in reached' => <<e, target[e]>> \in reached \/ InQueue(<<e, target[e]>>)'
    BY <1>5, <1>6, Zenon DEF InQueue
  <2> QED
    BY <1>0, <1>5, <2>1, <2>2, Zenon DEF Awaited
<1> QED
  BY <1>9, <1>11, <1>12 DEF DelegationInv

LEMMA RejectTaskStep ==
    ASSUME DelegationInv, NEW n \in Nodes, RejectTask(n)
    PROVE  DelegationInv'
<1>0. DelegationTypes
  BY DEF DelegationInv
<1>1. /\ batch[n] # <<>> /\ batch' = [batch EXCEPT ![n] = Tail(batch[n])] /\ working' = working
      /\ UNCHANGED calls /\ UNCHANGED <<taken, completed, misjudged>>
      /\ rejected' = rejected \cup {Head(batch[n]).id} /\ Publish(Respond(Head(batch[n]), "completed"))
  BY DEF RejectTask
<1>2. batch[n] \in Seq(Task)
  BY <1>0 DEF DelegationTypes
<1>3. PICK x \in Range(batch[n]) : x = Head(batch[n]) /\ x \in Task
  BY <1>1, <1>2, RangeLemma
<1>4. PICK rest \in Seq(Task) : rest = Tail(batch[n]) /\ Range(rest) \subseteq Range(batch[n])
  BY <1>1, <1>2, RangeLemma, Zenon
<1>5. /\ batch' \in [Nodes -> Seq(Task)] /\ batch'[n] = rest
      /\ \A m \in Nodes : m # n => batch'[m] = batch[m]
  BY <1>0, <1>1, <1>4 DEF DelegationTypes
<1>6. \A m \in Nodes : Range(batch'[m]) \subseteq Range(batch[m]) /\ Range(working'[m]) \subseteq Range(working[m])
  BY <1>1, <1>4, <1>5
<1>7. x \in Has(n) /\ working' \in [Nodes -> Seq(Task)]
  BY <1>0, <1>1, <1>3 DEF Has, DelegationTypes
<1>8. Publish(Respond(x, "completed")) /\ x.id \in rejected' /\ rejected \subseteq rejected' /\ completed \subseteq completed'
  BY <1>1, <1>3
<1> QED
  BY <1>1, <1>3, <1>5, <1>6, <1>7, <1>8, AnswerStep, Zenon

LEMMA FinishTaskStep ==
    ASSUME DelegationInv, NEW n \in Nodes, NEW state \in {"completed", "failed"}, FinishTask(n, state)
    PROVE  DelegationInv'
<1>0. DelegationTypes
  BY DEF DelegationInv
<1>1. /\ working[n] # <<>> /\ working' = [working EXCEPT ![n] = <<>>] /\ batch' = batch
      /\ UNCHANGED calls /\ UNCHANGED <<taken, rejected, misjudged>>
      /\ completed' = IF state = "completed" /\ n # Me THEN completed \cup {Head(working[n]).id} ELSE completed
      /\ Publish(Respond(Head(working[n]), state))
  BY Zenon DEF FinishTask
<1>2. working[n] \in Seq(Task)
  BY <1>0 DEF DelegationTypes
<1>3. PICK x \in Range(working[n]) : x = Head(working[n]) /\ x \in Task
  BY <1>1, <1>2, RangeLemma
<1>4. /\ working' \in [Nodes -> Seq(Task)] /\ working'[n] = <<>>
      /\ \A m \in Nodes : m # n => working'[m] = working[m]
  BY <1>0, <1>1 DEF DelegationTypes
<1>5. Range(working'[n]) = {}
  BY <1>4, EmptyRange
<1>6. \A m \in Nodes : Range(batch'[m]) \subseteq Range(batch[m]) /\ Range(working'[m]) \subseteq Range(working[m])
  BY <1>1, <1>4, <1>5
<1>7. x \in Has(n) /\ batch' \in [Nodes -> Seq(Task)]
  BY <1>0, <1>1, <1>3 DEF Has, DelegationTypes
<1>8. /\ Publish(Respond(x, state)) /\ rejected \subseteq rejected' /\ completed \subseteq completed'
      /\ state = "completed" /\ n # Me => x.id \in completed'
  BY <1>1, <1>3
<1> QED
  BY <1>1, <1>3, <1>4, <1>6, <1>7, <1>8, AnswerStep, Zenon

-------------------------------------------------------------------------------
(* The theorems *)

LEMMA DelegationStep ==
    ASSUME DelegationInv, [Next]_vars
    PROVE  DelegationInv'
<1>1. ASSUME NEW d \in Calls,
             \/ DelegateTask(d) \/ DelegateDirect(d) \/ DelegateBroadcast(d)
             \/ SendError(d) \/ PollError(d) \/ CallStep(d)
      PROVE  DelegationInv'
  <2>1. CASE DelegateTask(d) \/ DelegateDirect(d) \/ DelegateBroadcast(d)
    BY <2>1, ChooseStep
  <2>2. CASE SendError(d) \/ PollError(d) \/ Expire(d) \/ Return(d)
    BY <2>2, CallsStep
  <2>3. CASE SendSubtask(d)
    BY <2>3, SendSubtaskStep
  <2>4. CASE PollAnswer(d)
    BY <2>4, PollAnswerStep
  <2> QED
    BY <1>1, <2>1, <2>2, <2>3, <2>4 DEF CallStep
<1>2. ASSUME NEW n \in Agents,
             \/ DrainInbox(n) \/ RejectTask(n) \/ StartTask(n)
             \/ \E state \in {"completed", "failed"} : FinishTask(n, state)
      PROVE  DelegationInv'
  <2>1. n \in Nodes
    BY DEF Agents, Nodes
  <2> QED
    BY <1>2, <2>1, DrainInboxStep, RejectTaskStep, StartTaskStep, FinishTaskStep
<1>3. CASE UNCHANGED vars
  <2>1. /\ UNCHANGED <<pc, todo, target, results>> /\ UNCHANGED <<queue, batch, working>>
        /\ UNCHANGED <<reached, taken, rejected, completed, misjudged>> /\ UNCHANGED calls
    BY <1>3 DEF vars, calls, agents, histories
  <2>2. TasksKept /\ \A d \in Calls : Awaited(d)'
    BY <2>1, SameTasks
  <2>3. Addressed' /\ AnswersTrue' /\ \A d \in Calls, p \in Peers : Unsent(d, p) => Unsent(d, p)'
    BY <2>2, KeptTasks
  <2>4. queue' \in [Nodes -> Seq(Task)] /\ batch' \in [Nodes -> Seq(Task)] /\ working' \in [Nodes -> Seq(Task)]
    BY <2>1 DEF DelegationInv, DelegationTypes
  <2>5. DelegationTypes' /\ ResultsTrue' /\ AsksOnce' /\ misjudged' = FALSE
    BY <2>1, <2>3, <2>4, CallsKept, Zenon
  <2> QED
    BY <2>2, <2>3, <2>5 DEF DelegationInv
<1> QED
  BY <1>1, <1>2, <1>3 DEF Next

LEMMA DelegationStart == Init => DelegationInv
<1> SUFFICES ASSUME Init PROVE DelegationInv
  OBVIOUS
<1>1. DelegationTypes
  BY DEF Init, DelegationTypes, Nodes
<1>2. \A n \in Nodes : Range(queue[n]) = {} /\ Range(batch[n]) = {} /\ Range(working[n]) = {}
  BY EmptyRange DEF Init
<1>3. Me \in Nodes
  BY DEF Nodes
<1>4. Addressed /\ AnswersTrue
  BY <1>2, <1>3 DEF Addressed, AnswersTrue, Has
<1>5. ResultsTrue /\ \A d \in Calls : Awaited(d)
  BY DEF Init, ResultsTrue, Awaited
<1>6. AsksOnce
  BY <1>2 DEF Init, AsksOnce, Unsent, Has
<1> QED
  BY <1>1, <1>4, <1>5, <1>6 DEF Init, DelegationInv

\* However many peers there are, what they advertise and whoever else drains the queue of the node:
\* delegate_task picks a peer that is live, trusted and least loaded, refuses only when there is none, and
\* a success it or delegate_broadcast reports is of a subtask that was run or turned away.
THEOREM DelegationIsRightHolds == Spec => []DelegationIsRight
<1>1. DelegationInv => DelegationIsRight
  BY DEF DelegationInv, ResultsTrue, DelegationIsRight
<1> QED
  BY <1>1, DelegationStart, DelegationStep, PTL DEF Spec

LEMMA TimeoutStep ==
    ASSUME DelegationInv, Next, NEW d \in Calls, NEW r \in results'[d] \ results[d], r[2] = "timeout"
    PROVE  <<d, r[1]>> \notin Drained \ taken
<1>0. DelegationTypes /\ results' # results /\ \A e \in Calls : Awaited(e)
  BY DEF DelegationInv
<1>1. ASSUME NEW e \in Calls, NEW o, Finish(e, o), pc[e] = "poll", o = "timeout" \/ o \in {"success", "failure"}
      PROVE  <<d, r[1]>> \notin Drained \ taken
  <2>1. PICK f : f = <<target[e], o>>
    BY Zenon
  <2>2. f[1] = target[e] /\ f[2] = o
    BY <2>1
  <2>3. results' = [results EXCEPT ![e] = results[e] \cup {f}]
    BY <1>1, <2>1 DEF Finish
  <2>4. /\ results'[e] = results[e] \cup {f}
        /\ \A g \in Calls : g # e => results'[g] = results[g]
    BY <1>0, <2>3, AddedResult
  <2>5. d = e /\ r = f
    BY <2>4
  <2>6. <<d, target[d]>> \in reached => <<d, target[d]>> \in taken \/ InQueue(<<d, target[d]>>)
    BY <1>0, <1>1, <2>5 DEF Awaited
  <2>7. r[1] = target[d]
    BY <2>2, <2>5
  <2> QED
    BY <2>6, <2>7 DEF Drained, InQueue
<1>2. ASSUME NEW e \in Calls, NEW p, Fail(e, p) PROVE FALSE
  <2>1. r \in results[d] \/ r[2] = "failure"
    BY <1>2, FailStep
  <2> QED
    BY <2>1
<1>3. ASSUME NEW e \in Calls, PollAnswer(e) PROVE <<d, r[1]>> \notin Drained \ taken
  <2>1. PICK i \in DOMAIN queue[Me] : Finish(e, Outcome(queue[Me][i])) /\ pc[e] = "poll"
    BY <1>0, <1>3, Zenon DEF PollAnswer
  <2>2. Outcome(queue[Me][i]) \in {"success", "failure"}
    BY DEF Outcome
  <2> QED
    BY <1>1, <2>1, <2>2
<1>4. ASSUME NEW e \in Calls, Expire(e) PROVE <<d, r[1]>> \notin Drained \ taken
  BY <1>1, <1>4, Zenon DEF Expire
<1>5. ASSUME NEW e \in Calls, SendError(e) PROVE FALSE
  BY <1>2, <1>5 DEF SendError
<1>6. ASSUME NEW e \in Calls, PollError(e) PROVE FALSE
  BY <1>2, <1>6 DEF PollError
<1>7. ASSUME NEW e \in Calls,
             DelegateTask(e) \/ DelegateDirect(e) \/ DelegateBroadcast(e) \/ SendSubtask(e) \/ Return(e)
      PROVE  FALSE
  BY <1>0, <1>7, Zenon DEF DelegateTask, DelegateDirect, DelegateBroadcast, SendSubtask, Return
<1>8. ASSUME NEW n \in Agents,
             \/ DrainInbox(n) \/ RejectTask(n) \/ StartTask(n)
             \/ \E state \in {"completed", "failed"} : FinishTask(n, state)
      PROVE  FALSE
  BY <1>0, <1>8, Zenon DEF DrainInbox, RejectTask, StartTask, FinishTask, calls
<1> QED
  BY <1>3, <1>4, <1>5, <1>6, <1>7, <1>8, Zenon DEF Next, CallStep

\* A call of delegate_* that reports a timeout has not overlooked the answer of its peer: an answer that came and
\* is gone from the queue was taken by another call or the inbox loop.
THEOREM TimeoutIsJustifiedHolds == Spec => TimeoutIsJustified
<1>1. ASSUME DelegationInv, [Next]_vars
      PROVE  [\A d \in Calls : \A r \in results'[d] \ results[d] :
                  r[2] = "timeout" => <<d, r[1]>> \notin Drained \ taken]_vars
  BY <1>1, TimeoutStep
<1> QED
  BY <1>1, DelegationStart, DelegationStep, PTL DEF Spec, TimeoutIsJustified
===============================================================================
