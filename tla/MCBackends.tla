------------------------------ MODULE MCBackends ------------------------------
(***************************************************************************)
(* What a node is built on, one thing at a time: a transport, a storage,   *)
(* the shim to the modules of Logos Core, the chain, the keys that open    *)
(* its envelopes, an encoding.  They share nothing, so a behaviour         *)
(* exercises the one that `part` picks.                                    *)
(***************************************************************************)
EXTENDS Transports, Storage, Shim, Chain, Envelope, Base64, TLC

VARIABLE part

vars == <<part, transportVars, storageVars, shimVars, chainVars, envelopeVars, plain>>

SomeBlob == CHOOSE b \in Blobs : TRUE
SomeWorker == CHOOSE w \in Workers : TRUE

\* A part that is not exercised starts in one fixed state.
Init ==
    /\ part \in {"transport", "storage", "shim", "chain", "envelope", "base64"}
    /\ \/ part = "transport"
       \/ part # "transport" /\ kind = "memory"
    /\ TransportInit
    /\ \/ part = "storage"
       \/ /\ part # "storage" /\ backend = "rest"
          /\ job = [w \in Workers |-> [what |-> "upload", blob |-> SomeBlob]]
    /\ StorageInit
    /\ job[SomeWorker].blob = SomeBlob     \* the blobs are interchangeable
    /\ ShimInit /\ Base64Init
    /\ \/ part = "chain"
       \/ part # "chain" /\ receipt = [state |-> "absent", logs |-> <<>>] /\ fee = 1 /\ account = "any" /\ contract = "any"
    /\ ChainInit
    \* The load of either agent is the same question, to which only the limit of the agent and the
    \* identity of its peer matter.
    /\ \/ part = "envelope" /\ about \in {"tasks", FirstAgent}
       \/ part # "envelope" /\ about = "tasks" /\ nodes = [n \in Agents |-> New(IF n = FirstAgent THEN 1 ELSE 2)]
    /\ EnvelopeInit
    /\ part # "envelope" => generated = 2
    /\ about = FirstAgent => nodes[FirstAgent].identity = None
    /\ nodes[PeerOf(FirstAgent)].max_concurrent = 1

Next ==
    /\ UNCHANGED part
    /\ \/ /\ part = "transport" /\ TransportNext
          /\ UNCHANGED <<storageVars, shimVars, chainVars, envelopeVars, plain>>
       \/ /\ part = "storage" /\ StorageNext
          /\ UNCHANGED <<transportVars, shimVars, chainVars, envelopeVars, plain>>
       \/ /\ part = "shim" /\ ShimNext
          /\ UNCHANGED <<transportVars, storageVars, chainVars, envelopeVars, plain>>
       \/ /\ part = "chain" /\ ChainNext
          /\ UNCHANGED <<transportVars, storageVars, shimVars, envelopeVars, plain>>
       \/ /\ part = "envelope" /\ EnvelopeNext
          /\ UNCHANGED <<transportVars, storageVars, shimVars, chainVars, plain>>
       \/ /\ part = "base64" /\ MoreData
          /\ UNCHANGED <<transportVars, storageVars, shimVars, chainVars, envelopeVars>>

Spec == Init /\ [][Next]_vars

Symmetry == Permutations(Callers) \cup Permutations(Topics) \cup Permutations(Threads)

\* The types of the parts that keep a type invariant of their own.
TypeOK == TransportTypeOK /\ StorageTypeOK /\ ShimTypeOK /\ ChainTypeOK
===============================================================================
