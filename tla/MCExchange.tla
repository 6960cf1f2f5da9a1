------------------------------ MODULE MCExchange ------------------------------
(***************************************************************************)
(* The two ways a node has to get a task to another and hear of it:        *)
(* reliable sending (ReliableSend) and delegation (Delegation).  They      *)
(* share nothing, so a behaviour exercises the one that `way` picks.       *)
(***************************************************************************)
EXTENDS ReliableSend, Delegation

CONSTANTS t1, t2, r1, p2, d2

OneReceiver == [t \in Tasks |-> r1]

VARIABLE way

exchangeVars == <<way, reliableVars, vars>>

ExchangeInit ==
    /\ way \in {"send", "delegate"}
    /\ ReliableInit /\ Init
    /\ way = "send" => ~myInbox
    /\ way = "delegate" => prompt

ExchangeNext ==
    /\ UNCHANGED way
    /\ \/ /\ way = "send" /\ ReliableNext /\ UNCHANGED vars
          /\ errors' + lostData' + lostAcks' <= 2      \* bound: faults in all,
          /\ tries'[t2] = 0                            \* and no errors but of one call
       \/ /\ way = "delegate" /\ Next /\ UNCHANGED reliableVars
          /\ p2 \notin todo'[d2]                       \* which peer both calls ask does not matter

ExchangeSpec == ExchangeInit /\ [][ExchangeNext]_exchangeVars

\* ReliableFairness, or the fairness of a delegation, of the one that is exercised.
FairExchangeSpec ==
    /\ ExchangeSpec
    /\ WF_reliableVars(way = "send" /\ NetStep)
    /\ \A t \in Tasks : WF_reliableVars(way = "send" /\ SendStep(t))
    /\ \A d \in Calls : WF_vars(way = "delegate" /\ CallStep(d))
===============================================================================
