-------------------------------- MODULE FfiNode -------------------------------
(***************************************************************************)
(* The process-wide node behind the two C interfaces.  lmao-ffi makes its  *)
(* node on first use, in a OnceLock, and never releases it; the functions  *)
(* of logos-messaging-a2a-ffi share a Mutex<Option<LmaoNode>> that         *)
(* waku_a2a_init fills and waku_a2a_shutdown empties.  The host calls them *)
(* from several threads and frees the strings it gets.                     *)
(***************************************************************************)
EXTENDS Integers

CONSTANTS
    HostThreads,    \* threads of the host
    NobodyHolds,    \* no thread
    MaxNodes        \* bound: nodes made

ASSUME FfiAssumption == NobodyHolds \notin HostThreads /\ MaxNodes \in Nat \ {0}

VARIABLES
    api,        \* the interface: "lmao" or "waku"
    slot,       \* NODE: the number of the node in it, 0 for none
    made,       \* nodes made so far
    presented,  \* the nodes that were announced before a call could use them
    holder,     \* who holds the Mutex, or runs the closure of the OnceLock
    inCall,     \* the kind of call each thread is in, "none" outside
    stage,       \* where in the call it is
    using,      \* the node it works with
    owns        \* the host owes a free_string for the result

ffiVars == <<api, slot, made, presented, holder, inCall, stage, using, owns>>

\* "text" gives a string or null, "code" 0 or -1.
LmaoCalls == {"text", "version"}
WakuCalls == {"init", "shutdown", "text", "code"}

FfiInit ==
    /\ api \in {"lmao", "waku"}
    /\ slot = 0 /\ made = 0 /\ presented = {}
    /\ holder = NobodyHolds
    /\ inCall = [t \in HostThreads |-> "none"]
    /\ stage = [t \in HostThreads |-> "out"]
    /\ using = [t \in HostThreads |-> 0]
    /\ owns = [t \in HostThreads |-> FALSE]

Finish(t, string) ==
    /\ stage' = [stage EXCEPT ![t] = "back"]
    /\ owns' = [owns EXCEPT ![t] = string]

Work(t, node) ==
    /\ stage' = [stage EXCEPT ![t] = "work"]
    /\ using' = [using EXCEPT ![t] = node]

\* The host calls a function.
HostCalls(t, what) ==
    /\ inCall[t] = "none"
    /\ what \in IF api = "lmao" THEN LmaoCalls ELSE WakuCalls \ {"init"}
    /\ inCall' = [inCall EXCEPT ![t] = what]
    /\ stage' = [stage EXCEPT ![t] = "in"]
    /\ UNCHANGED <<api, slot, made, presented, holder, using, owns>>

-------------------------------------------------------------------------------
(* lmao-ffi *)

\* lmao_version, or arguments that are null, no JSON or incomplete: no node is needed.
ReturnEarly(t) ==
    /\ api = "lmao" /\ stage[t] = "in"
    /\ Finish(t, TRUE)
    /\ UNCHANGED <<api, slot, made, presented, holder, inCall, using>>

\* get_or_init_node: the node of the OnceLock, or the closure that makes it; a thread that
\* finds the closure running waits.
GetOrInitNode(t) ==
    /\ api = "lmao" /\ stage[t] = "in" /\ inCall[t] = "text"
    /\ \/ slot # 0 /\ Work(t, slot) /\ UNCHANGED <<made, holder>>
       \/ /\ slot = 0 /\ holder = NobodyHolds
          /\ made' = made + 1
          /\ holder' = t
          /\ stage' = [stage EXCEPT ![t] = "make"] /\ UNCHANGED using
    /\ UNCHANGED <<api, slot, presented, inCall, owns>>

\* Mutant: the node is in its place before it is announced.
PresentLater(t) ==
    /\ stage[t] = "make"
    /\ slot' = made /\ UNCHANGED presented
    /\ holder' = NobodyHolds
    /\ Work(t, made)
    /\ UNCHANGED <<api, made, inCall, owns>>

\* The end of the closure: announce was tried, its error ignored, and the node is in place.
Present(t) ==
    /\ stage[t] = "make"
    /\ presented' = presented \cup {made}
    /\ slot' = made
    /\ holder' = NobodyHolds
    /\ Work(t, made)
    /\ UNCHANGED <<api, made, inCall, owns>>

\* block_on returns: the result, or error_json, as a C string.
LmaoReturns(t) ==
    /\ api = "lmao" /\ stage[t] = "work"
    /\ Finish(t, TRUE)
    /\ UNCHANGED <<api, slot, made, presented, holder, inCall, using>>

-------------------------------------------------------------------------------
(* logos-messaging-a2a-ffi *)

\* waku_a2a_init makes a node, before it asks for the lock.
WakuNewNode(t) ==
    /\ api = "waku" /\ inCall[t] = "none" /\ made < MaxNodes
    /\ made' = made + 1
    /\ inCall' = [inCall EXCEPT ![t] = "init"]
    /\ stage' = [stage EXCEPT ![t] = "in"]
    /\ using' = [using EXCEPT ![t] = made + 1]
    /\ UNCHANGED <<api, slot, presented, holder, owns>>

\* The new node replaces the one that may be there.
WakuInit(t) ==
    /\ stage[t] = "in" /\ inCall[t] = "init"
    /\ holder = NobodyHolds
    /\ slot' = using[t]
    /\ Finish(t, FALSE)
    /\ UNCHANGED <<api, made, presented, holder, inCall, using>>

\* waku_a2a_shutdown.
WakuShutdown(t) ==
    /\ stage[t] = "in" /\ inCall[t] = "shutdown"
    /\ holder = NobodyHolds
    /\ slot' = 0
    /\ Finish(t, FALSE)
    /\ UNCHANGED <<api, made, presented, holder, inCall, using>>

\* The other functions: without a node -1 or null, else the lock is kept over block_on.
WakuLock(t) ==
    /\ api = "waku" /\ stage[t] = "in" /\ inCall[t] \in {"text", "code"}
    /\ holder = NobodyHolds
    /\ \/ slot = 0 /\ Finish(t, FALSE) /\ UNCHANGED <<holder, using>>
       \/ slot # 0 /\ holder' = t /\ Work(t, slot) /\ UNCHANGED owns
    /\ UNCHANGED <<api, slot, made, presented, inCall>>

\* block_on returns and the guard is dropped: a code, a string, or null for an error.
WakuReturns(t) ==
    /\ api = "waku" /\ stage[t] = "work"
    /\ holder' = NobodyHolds
    /\ \E string \in BOOLEAN : (string => inCall[t] = "text") /\ Finish(t, string)
    /\ UNCHANGED <<api, slot, made, presented, inCall, using>>

-------------------------------------------------------------------------------
(* The host *)

\* callFfiStr of the Qt module: the string, unless null, is copied and freed.
CallFfiStr(t) ==
    /\ stage[t] = "back"
    /\ inCall' = [inCall EXCEPT ![t] = "none"]
    /\ stage' = [stage EXCEPT ![t] = "out"]
    /\ using' = [using EXCEPT ![t] = 0]
    /\ owns' = [owns EXCEPT ![t] = FALSE]
    /\ UNCHANGED <<api, slot, made, presented, holder>>

FfiNext ==
    \E t \in HostThreads :
        \/ \E what \in LmaoCalls \cup WakuCalls : HostCalls(t, what)
        \/ ReturnEarly(t) \/ GetOrInitNode(t) \/ Present(t) \/ LmaoReturns(t)
        \/ WakuNewNode(t) \/ WakuInit(t) \/ WakuShutdown(t)
        \/ WakuLock(t) \/ WakuReturns(t) \/ CallFfiStr(t)

-------------------------------------------------------------------------------
(* Properties *)

\* Types of the shared node and of the threads.
FfiTypeOK ==
    /\ api \in {"lmao", "waku"}
    /\ slot \in 0..made /\ made \in 0..MaxNodes /\ presented \subseteq 1..made
    /\ holder \in HostThreads \cup {NobodyHolds}
    /\ inCall \in [HostThreads -> LmaoCalls \cup WakuCalls \cup {"none"}]
    /\ stage \in [HostThreads -> {"out", "in", "make", "work", "back"}]
    /\ using \in [HostThreads -> 0..MaxNodes] /\ owns \in [HostThreads -> BOOLEAN]

\* A call works with the node that is in place, so waku_a2a_shutdown and a second
\* waku_a2a_init return only when no call uses the node they drop; lmao-ffi makes one node
\* for the process, and announces it before any call has it; and a host that is in no call
\* owes no string.
NodeInUseIsCurrent ==
    \A t \in HostThreads :
        /\ stage[t] = "work" => using[t] = slot
        /\ api = "lmao" => made <= 1 /\ (stage[t] = "work" => using[t] \in presented)
        /\ inCall[t] = "none" => ~owns[t]
===============================================================================
