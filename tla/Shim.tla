--------------------------------- MODULE Shim ----------------------------------
(***************************************************************************)
(* The C++ shim of logos-core-bindings: synchronous calls of any thread to *)
(* a module of Logos Core, made one after the other by the thread of Qt.   *)
(*                                                                         *)
(* logos_shim_call posts a closure to the Qt thread and waits on a slot of *)
(* its own until a deadline; the closure runs even when its caller has     *)
(* given up, however late.  Time is left out: the deadline may pass at any *)
(* moment before the slot is filled, because the closure waits behind      *)
(* others, the SDK takes its time or the Qt thread is wedged for good, and *)
(* the thread may call again meanwhile.                                    *)
(***************************************************************************)
EXTENDS Integers, Sequences, FiniteSets

CONSTANTS
    Threads, NoThread,
    MaxCalls,   \* bound: calls and listens of a thread
    MaxEvents   \* bound: events in the queue

ASSUME ShimAssumption == NoThread \notin Threads /\ MaxCalls \in Nat

\* What a module returned, and the JSON the shim makes of it: a bare string becomes {}.
Raws == {"invalid", "failed", "void", "json", "string", "map", "number"}
VariantToJson(r) ==
    CASE r \in {"invalid", "failed", "number"} -> "error"
      [] r = "void" -> "true"
      [] r \in {"json", "map"} -> "value"
      [] r = "string" -> "{}"

\* The errors of Shim::new.  (InvalidUtf8 cannot be: the shim makes UTF-8 of a QString.)
NoShim == {"NotCompiledIn", "InitFailed", "NulInArg"}

VARIABLES
    made,       \* what Shim::new returned
    qt,         \* the thread of Qt: starting, ready, quitting (joined by destroy), gone
    posted,     \* closures posted to it, in order: for which call of which thread, and what they do
    running,    \* the closure it runs, or none
    slot,       \* of every call: the result its closure left in it
    caller,     \* a thread: idle, calling, listening
    nth,        \* how many calls a thread has made
    answer,     \* of every call: what logos_shim_call returned
    connected,  \* slots connected to the event
    queued,     \* events in the queue
    results     \* history: pairs of a call and what the module's answer to it is as JSON

shimVars == <<made, qt, posted, running, slot, caller, nth, answer, connected, queued, results>>

Calls == Threads \X (1 .. MaxCalls)
Closure(t, n, what) == [who |-> t, call |-> n, what |-> what]
Idle == Closure(NoThread, 0, "nothing")

\* The call a thread made last, which it waits for while it is calling.
Latest(t) == <<t, nth[t]>>

ShimInit ==
    /\ made = "pending" /\ qt = "starting" /\ posted = <<>> /\ running = Idle
    /\ slot = [c \in Calls |-> "none"] /\ answer = [c \in Calls |-> "none"]
    /\ caller = [t \in Threads |-> "idle"] /\ nth = [t \in Threads |-> 0]
    /\ connected = 0 /\ queued = 0 /\ results = {}

\* logos_shim_new returns once the Qt thread has published its application.
Ready ==
    /\ qt = "starting" /\ qt' = "ready" /\ made' = "ok"
    /\ UNCHANGED <<posted, running, slot, caller, nth, answer, connected, queued, results>>

NoThreadOfQt(error) ==
    /\ qt = "starting" /\ qt' = "gone" /\ made' = error
    /\ UNCHANGED <<posted, running, slot, caller, nth, answer, connected, queued, results>>

\* Shim::new fails: a name that is no C string, or a Qt thread that did not start.
NewFails == \E error \in NoShim \ {"NotCompiledIn"} : NoThreadOfQt(error)

\* The stub in a build without the SDK: there is never a Shim to call.
StubNew == NoThreadOfQt("NotCompiledIn")

Post(t, what, state) ==
    /\ qt = "ready" /\ caller[t] = "idle" /\ nth[t] < MaxCalls
    /\ nth' = [nth EXCEPT ![t] = @ + 1]
    /\ posted' = Append(posted, Closure(t, nth'[t], what))
    /\ caller' = [caller EXCEPT ![t] = state]
    /\ UNCHANGED <<made, qt, running, slot, answer, connected, queued, results>>

\* logos_shim_call: the closure is posted, the thread waits for its slot until the deadline.
Call(t) == Post(t, "call", "calling")

\* logos_shim_listen: the thread waits for the closure however long it takes.
Listen(t) == Post(t, "listen", "listening")

\* The Qt thread takes the next closure.
Take ==
    /\ running = Idle /\ posted # <<>>
    /\ running' = Head(posted)
    /\ posted' = Tail(posted)
    /\ UNCHANGED <<made, qt, slot, caller, nth, answer, connected, queued, results>>

\* Mutant: one slot for each thread, so that a closure fills the one its thread waits for now.
RunCallShared ==
    /\ running.what = "call"
    /\ \E r \in Raws :
        /\ slot' = [slot EXCEPT ![Latest(running.who)] = VariantToJson(r)]
        /\ results' = results \cup {<<<<running.who, running.call>>, VariantToJson(r)>>}
    /\ running' = Idle
    /\ UNCHANGED <<made, qt, posted, caller, nth, answer, connected, queued>>

\* invokeRemoteMethod returned, if it ever does, and the slot of the call is filled.
RunCall ==
    /\ running.what = "call"
    /\ \E r \in Raws :
        /\ slot' = [slot EXCEPT ![<<running.who, running.call>>] = VariantToJson(r)]
        /\ results' = results \cup {<<<<running.who, running.call>>, VariantToJson(r)>>}
    /\ running' = Idle
    /\ UNCHANGED <<made, qt, posted, caller, nth, answer, connected, queued>>

\* A slot is connected for the event, unless there is one or the module is not there.
RunListen ==
    /\ running.what = "listen"
    /\ connected' \in IF connected > 0 THEN {connected} ELSE {connected, connected + 1}
    /\ caller' = [caller EXCEPT ![running.who] = "idle"]
    /\ running' = Idle
    /\ UNCHANGED <<made, qt, posted, slot, nth, answer, queued, results>>

RunQuit ==
    /\ running.what = "quit"
    /\ running' = Idle
    /\ qt' = "gone"
    /\ UNCHANGED <<made, posted, slot, caller, nth, answer, connected, queued, results>>

Resume(t, a) ==
    /\ caller' = [caller EXCEPT ![t] = "idle"]
    /\ answer' = [answer EXCEPT ![Latest(t)] = a]
    /\ UNCHANGED <<made, qt, posted, running, slot, nth, connected, queued, results>>

\* The wait ends with the result, or at the deadline without one.
Answered(t) == caller[t] = "calling" /\ slot[Latest(t)] # "none" /\ Resume(t, slot[Latest(t)])
GiveUp(t) == caller[t] = "calling" /\ slot[Latest(t)] = "none" /\ Resume(t, "timeout")

\* The module emits the event; poll_event takes one from the queue.
EmitEvent ==
    /\ qt \in {"ready", "quitting"} /\ running = Idle
    /\ connected > 0 /\ queued + connected <= MaxEvents
    /\ queued' = queued + connected
    /\ UNCHANGED <<made, qt, posted, running, slot, caller, nth, answer, connected, results>>

TakeEvent ==
    /\ qt = "ready" /\ queued > 0
    /\ queued' = queued - 1
    /\ UNCHANGED <<made, qt, posted, running, slot, caller, nth, answer, connected, results>>

Unused == \A t \in Threads : caller[t] = "idle"

\* logos_shim_destroy, when the last user drops the shim: a quit is posted and the thread joined.
Destroy ==
    /\ qt = "ready" /\ Unused
    /\ qt' = "quitting"
    /\ posted' = Append(posted, Closure(NoThread, 0, "quit"))
    /\ UNCHANGED <<made, running, slot, caller, nth, answer, connected, queued, results>>

ShimNext ==
    \/ Ready \/ NewFails \/ StubNew \/ Take \/ RunCall \/ RunListen \/ RunQuit \/ EmitEvent \/ TakeEvent \/ Destroy
    \/ \E t \in Threads : Call(t) \/ Listen(t) \/ Answered(t) \/ GiveUp(t)

-------------------------------------------------------------------------------
(* Properties *)

ShimTypeOK ==
    /\ made \in {"pending", "ok"} \cup NoShim
    /\ qt \in {"starting", "ready", "quitting", "gone"}
    /\ \A c \in {running} \cup {posted[i] : i \in 1 .. Len(posted)} :
           c.who \in Threads \cup {NoThread} /\ c.call \in 0 .. MaxCalls /\ c.what \in {"nothing", "call", "listen", "quit"}
    /\ caller \in [Threads -> {"idle", "calling", "listening"}] /\ nth \in [Threads -> 0 .. MaxCalls]
    /\ answer \in [Calls -> {"none", "timeout", "error", "true", "value", "{}"}]
    /\ connected \in 0 .. 1 /\ queued \in 0 .. MaxEvents

\* A closure that runs after its caller has given up does no harm.  What logos_shim_call returns is
\* its own timeout or what the module answered to that very call, never the late answer to a call the
\* thread made before; and when the shim is freed no closure that uses it is left, because the quit is
\* posted behind them and the Qt thread joined.
LateCallsAreHarmless ==
    /\ \A c \in Calls : answer[c] \notin {"none", "timeout"} => <<c, answer[c]>> \in results
    /\ qt = "gone" => posted = <<>> /\ running = Idle
===============================================================================
