------------------------------- MODULE TrustStore -----------------------------
(***************************************************************************)
(* The trust list of a daemon and the file it is kept in: the trust        *)
(* commands of the CLI (cli/src/trust.rs), the requests they become when a *)
(* daemon listens (daemon/server.rs), the list behind its read-write lock  *)
(* (node/src/lib.rs) and the file (core/src/trust.rs).                     *)
(*                                                                         *)
(* A command probes the daemon once and then either sends a request or     *)
(* edits the file itself; import always edits the file.  A handler of the  *)
(* daemon takes the lock once per access, and keeps it while it saves.     *)
(* Saving truncates the file and then writes it; an empty file and a       *)
(* missing one both load as the empty list in mode Off.                    *)
(***************************************************************************)
EXTENDS Integers, FiniteSets

CONSTANTS
    Peers,
    Cmds,           \* trust commands, each a process of its own
    MaxStarts       \* bound: starts of the daemon

TrustMode == {"Off", "Enforce", "Log"}
TrustList == [mode : TrustMode, peers : SUBSET Peers]
Empty == [mode |-> "Off", peers |-> {}]

Op ==
    [kind : {"add", "remove", "import"}, peer : Peers] \cup [kind : {"mode"}, mode : TrustMode]
    \cup [kind : {"list", "export"}]
Shows(o) == o.kind \in {"list", "export"}

VARIABLES
    op,         \* what a command is asked to do
    step,       \* where it is
    view,       \* the list it has read: a snapshot of the daemon's, or the file
    mem,        \* the list of the daemon, and after its end the last one it had
    up,         \* a daemon runs
    starts,
    file,
    tainted,    \* history, since the last load: the file was edited, a change was not saved
    offAsked    \* history: mode Off was asked for, or peers were imported

trustVars == <<op, step, view, mem, up, starts, file, tainted, offAsked>>

TrustInit ==
    /\ op \in [Cmds -> Op]
    /\ step = [c \in Cmds |-> "start"]
    /\ view = [c \in Cmds |-> Empty]
    /\ mem = Empty /\ file = Empty
    /\ up = FALSE /\ starts = 0
    /\ tainted = FALSE /\ offAsked = FALSE

Handling == {"snapshot", "mutate", "persist", "saving"}    \* steps of a handler of the daemon
At(c, s) == step[c] = s
Go(c, s) == step' = [step EXCEPT ![c] = s]
\* The read-write lock: a save reads, and keeps the writers out.
Writable == \A c \in Cmds : ~At(c, "saving")

\* add: an entry replaces the one with its key.
AddTo(list, p) == [list EXCEPT !.peers = @ \cup {p}]
\* The first peer of a list that is off turns it on.
FirstAdd(list, p) ==
    AddTo([list EXCEPT !.mode = IF list = Empty THEN "Enforce" ELSE @], p)

\* remove and remove_by_nickname.
RemoveFrom(list, p) == [list EXCEPT !.peers = @ \ {p}]
\* merge adds what is not there, and keeps the mode of the list, whatever the imported one says.
Merge(list, imported) == [list EXCEPT !.peers = @ \cup imported]

Apply(o, list) ==
    CASE o.kind = "add" -> FirstAdd(list, o.peer)
      [] o.kind = "remove" -> RemoveFrom(list, o.peer)
      [] o.kind = "mode" -> [list EXCEPT !.mode = o.mode]
      [] o.kind = "import" -> Merge(list, {o.peer})

AsksOff(o) == o.kind = "import" \/ (o.kind = "mode" /\ o.mode = "Off")

-------------------------------------------------------------------------------
(* A command *)

Probe(c) ==
    /\ At(c, "start")
    /\ Go(c, IF up /\ op[c].kind \notin {"import", "export"} THEN "snapshot" ELSE "load")
    /\ UNCHANGED <<op, view, mem, up, starts, file, tainted, offAsked>>

\* The request finds no daemon any more.
RequestFails(c) ==
    /\ step[c] = "snapshot" /\ ~up
    /\ Go(c, "failed")
    /\ UNCHANGED <<op, view, mem, up, starts, file, tainted, offAsked>>

LoadFrom(c) ==
    /\ At(c, "load") /\ ~Shows(op[c])
    /\ view' = [view EXCEPT ![c] = file]
    /\ Go(c, IF op[c].kind = "remove" /\ op[c].peer \notin file.peers THEN "failed" ELSE "edit")
    /\ UNCHANGED <<op, mem, up, starts, file, tainted, offAsked>>

\* list and export print the file as it is.
List(c) ==
    /\ At(c, "load") /\ op[c].kind = "list"
    /\ view' = [view EXCEPT ![c] = file]
    /\ Go(c, "done")
    /\ UNCHANGED <<op, mem, up, starts, file, tainted, offAsked>>

Export(c) ==
    /\ At(c, "load") /\ op[c].kind = "export"
    /\ view' = [view EXCEPT ![c] = file]
    /\ Go(c, "done")
    /\ UNCHANGED <<op, mem, up, starts, file, tainted, offAsked>>

\* fs::write truncates ...
SaveTo(c) ==
    /\ At(c, "edit")
    /\ file' = Empty /\ tainted' = TRUE
    /\ Go(c, "write")
    /\ UNCHANGED <<op, view, mem, up, starts, offAsked>>

\* ... and writes, unless the command is stopped here.
WriteFile(c) ==
    /\ At(c, "write")
    /\ \/ file' = Apply(op[c], view[c]) /\ offAsked' = (offAsked \/ AsksOff(op[c]))
       \/ UNCHANGED <<file, offAsked>>
    /\ tainted' = TRUE
    /\ Go(c, "done")
    /\ UNCHANGED <<op, view, mem, up, starts>>

-------------------------------------------------------------------------------
(* A handler of the daemon *)

\* What the request TrustList answers.
TrustSnapshot == mem

\* The list is looked at under the lock, and the lock is given back.
Snapshot(c) ==
    /\ At(c, "snapshot") /\ up /\ ~Shows(op[c])
    /\ view' = [view EXCEPT ![c] = mem]
    /\ Go(c, IF op[c].kind = "add" /\ mem = Empty THEN "bump"
             ELSE IF op[c].kind = "mode" /\ op[c].mode = mem.mode THEN "done" ELSE "mutate")
    /\ UNCHANGED <<op, mem, up, starts, file, tainted, offAsked>>

\* The request of `trust list` answers with a snapshot, which the command prints.
ListViaDaemon(c) ==
    /\ At(c, "snapshot") /\ up /\ op[c].kind = "list"
    /\ view' = [view EXCEPT ![c] = TrustSnapshot]
    /\ Go(c, "done")
    /\ UNCHANGED <<op, mem, up, starts, file, tainted, offAsked>>

TrustSetMode(c) ==
    /\ At(c, "bump") /\ up /\ Writable
    /\ mem' = [mem EXCEPT !.mode = "Enforce"]
    /\ Go(c, "mutate")
    /\ UNCHANGED <<op, view, up, starts, file, tainted, offAsked>>

TrustAdd(c) ==
    /\ At(c, "mutate") /\ up /\ Writable /\ op[c].kind = "add"
    /\ mem' = AddTo(mem, op[c].peer)
    /\ Go(c, "persist")
    /\ UNCHANGED <<op, view, up, starts, file, tainted, offAsked>>

TrustRemove(c) ==
    /\ At(c, "mutate") /\ up /\ Writable /\ op[c].kind = "remove"
    /\ mem' = Apply(op[c], mem)
    /\ Go(c, IF op[c].peer \in mem.peers THEN "persist" ELSE "failed")
    /\ UNCHANGED <<op, view, up, starts, file, tainted, offAsked>>

TrustModeSet(c) ==
    /\ At(c, "mutate") /\ up /\ Writable /\ op[c].kind = "mode"
    /\ mem' = Apply(op[c], mem)
    /\ offAsked' = (offAsked \/ AsksOff(op[c]))
    /\ Go(c, "persist")
    /\ UNCHANGED <<op, view, up, starts, file, tainted>>

\* Mutant: what is saved is the list the handler looked at, with its own change.
PersistStale(c) ==
    /\ At(c, "persist") /\ up
    /\ view' = [view EXCEPT ![c] = Apply(op[c], @)]
    /\ file' = Empty
    /\ Go(c, "saving")
    /\ UNCHANGED <<op, mem, up, starts, tainted, offAsked>>

\* persist_trust: the text is made, and the file truncated, under the read lock.
Persist(c) ==
    /\ At(c, "persist") /\ up
    /\ view' = [view EXCEPT ![c] = mem]
    /\ file' = Empty
    /\ Go(c, "saving")
    /\ UNCHANGED <<op, mem, up, starts, tainted, offAsked>>

\* An error is logged; the change stays in memory.
PersistFails(c) ==
    /\ At(c, "persist") /\ up
    /\ tainted' = TRUE
    /\ Go(c, "done")
    /\ UNCHANGED <<op, view, mem, up, starts, file, offAsked>>

Persisted(c) ==
    /\ At(c, "saving") /\ up
    /\ file' = view[c]
    /\ Go(c, "done")
    /\ UNCHANGED <<op, view, mem, up, starts, tainted, offAsked>>

-------------------------------------------------------------------------------
(* The daemon *)

\* `agent run` loads the file; a command may be half-way through writing it.
Start ==
    /\ ~up /\ starts < MaxStarts
    /\ up' = TRUE /\ starts' = starts + 1
    /\ mem' = file
    /\ tainted' = (\E c \in Cmds : At(c, "write"))
    /\ UNCHANGED <<op, step, view, file, offAsked>>

InHandler(c) == step[c] \in Handling \cup {"bump"}

\* A crash, or the exit of a shutdown, at any point of any handler.
Stop ==
    /\ up /\ up' = FALSE
    /\ step' = [c \in Cmds |-> IF InHandler(c) /\ ~At(c, "snapshot") THEN "failed" ELSE step[c]]
    /\ tainted' = (tainted \/ \E c \in Cmds : step[c] \in {"mutate", "persist", "saving"})
    /\ UNCHANGED <<op, view, mem, starts, file, offAsked>>

TrustNext ==
    \/ Start \/ Stop
    \/ \E c \in Cmds :
        \/ Probe(c) \/ RequestFails(c) \/ LoadFrom(c) \/ SaveTo(c) \/ WriteFile(c)
        \/ List(c) \/ Export(c) \/ ListViaDaemon(c)
        \/ Snapshot(c) \/ TrustSetMode(c) \/ TrustAdd(c) \/ TrustRemove(c) \/ TrustModeSet(c)
        \/ Persist(c) \/ PersistFails(c) \/ Persisted(c)

-------------------------------------------------------------------------------
(* Properties *)

TrustTypeOK ==
    /\ op \in [Cmds -> Op]
    /\ step \in [Cmds -> Handling \cup {"start", "load", "edit", "write", "bump", "done", "failed"}]
    /\ view \in [Cmds -> TrustList] /\ mem \in TrustList /\ file \in TrustList
    /\ up \in BOOLEAN /\ starts \in 0 .. MaxStarts
    /\ tainted \in BOOLEAN /\ offAsked \in BOOLEAN

\* What the daemon enforces and what its trust file says are the same list whenever no request is
\* being handled, before and after the daemon ends, however the handlers interleave: unless somebody
\* edited the file directly, a save failed, or the daemon ended between a change and its save.  And a
\* list that names peers is in mode Off only when somebody asked for that: the first `trust add` turns
\* enforcement on, on the file and in the daemon, whatever other commands do meanwhile, and no
\* `trust list` or `trust export` shows anything else.
TrustListIsKept ==
    /\ starts > 0 /\ ~tainted /\ (\A c \in Cmds : ~InHandler(c) \/ At(c, "snapshot")) => file = mem
    /\ file.peers # {} /\ file.mode = "Off" => offAsked
    /\ mem.peers # {} /\ mem.mode = "Off" => offAsked
    /\ \A c \in Cmds : Shows(op[c]) /\ view[c].peers # {} /\ view[c].mode = "Off" => offAsked
===============================================================================
