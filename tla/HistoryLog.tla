------------------------------- MODULE HistoryLog -----------------------------
(***************************************************************************)
(* The task history of a daemon (node/src/history.rs): a file of JSON      *)
(* lines, a row appended for every task delegated and every task answered. *)
(*                                                                         *)
(* The file is a sequence of what was written: a whole row, a piece of one *)
(* (Torn, or Cut when it ends inside a multi-byte character), a line feed. *)
(* A row can be read back when it is alone on its line; a line that is not *)
(* UTF-8 fails the call that reads it.  Each append writes its row and     *)
(* then the line feed, under a lock that the daemon's end releases; an     *)
(* append may fail between the two.                                        *)
(***************************************************************************)
EXTENDS Integers, Sequences, FiniteSets, SequencesExt

CONSTANTS
    Rows,           \* the appends, each of a row with a task id of its own
    MaxTears        \* bound: appends that end before their line feed is written

Torn == "torn"
Cut == "cut"
LF == "lf"

\* What HistoryFilter looks at in a row.  Any other field is written and read back as it is.
HistoryEntry == [direction : {"delegated", "received"}, capability : {"", "code"}, created_at_ms : Nat]
\* No filter on a field is "any", and no since_ms is 0.
HistoryFilter ==
    [direction : {"any", "delegated", "received"}, capability : {"any", "code"}, since_ms : 0 .. 1]

VARIABLES
    log,        \* the file
    entry,      \* the row of each append
    clock,      \* time of the last row that was made
    at,         \* where each append is
    writeLock,  \* the appends that hold write_lock: at most one
    tears       \* history: appends that ended half-way

historyVars == <<log, entry, clock, at, writeLock, tears>>

HistoryInit ==
    /\ log = <<>>
    /\ entry = [r \in Rows |-> [direction |-> "received", capability |-> "", created_at_ms |-> 0]]
    /\ clock = 0
    /\ at = [r \in Rows |-> "none"]
    /\ writeLock = {} /\ tears = 0

Reach(r, s) == at' = [at EXCEPT ![r] = s]

\* next_line succeeds on every line of the file; otherwise list and get return its error.
Readable(f) == ~Contains(f, Cut)

\* The lines of the file that hold one whole row; list and get skip all others they can read.
Whole(f) ==
    {i \in 1 .. Len(f) :
        /\ f[i] \in Rows
        /\ i = 1 \/ f[i - 1] = LF
        /\ i = Len(f) \/ f[i + 1] = LF}

Matches(e, filter) ==
    /\ filter.direction \in {"any", e.direction}
    /\ filter.capability \in {"any", e.capability}
    /\ e.created_at_ms >= filter.since_ms

\* list, of a file it can read: what matches, newest first (the sort is stable), skip(offset) and take(limit).
ListRows(limit, offset, filter) ==
    LET whole == Whole(log)
        lines == SelectSeq([i \in 1 .. Len(log) |-> i],
                           LAMBDA i : i \in whole /\ Matches(entry[log[i]], filter))
        time(i) == entry[log[i]].created_at_ms
        all == SortSeq(lines, LAMBDA i, j : time(i) > time(j) \/ (time(i) = time(j) /\ i < j))
    IN  [k \in 1 .. Min({limit, Len(all) - offset}) |-> log[all[offset + k]]]

\* get, of a file it can read: a task id that was found on some line, the last one of it.
GetRow(r) == \E i \in Whole(log) : log[i] = r

-------------------------------------------------------------------------------
\* Its row is made, stamped with now_ms, and the append called.
Record(r, direction, capability) ==
    /\ at[r] = "none"
    /\ clock' \in {clock, clock + 1}
    /\ entry' = [entry EXCEPT ![r] =
                    [direction |-> direction, capability |-> capability, created_at_ms |-> clock']]
    /\ Reach(r, "lock")
    /\ UNCHANGED <<log, writeLock, tears>>

\* The capability of a delegation is that of its strategy, if it matches one.
CapabilityOf(strategy) == IF strategy = "CapabilityMatch" THEN "code" ELSE ""

\* A delegation has ended, with a result or at its timeout.
RecordDelegation(r) ==
    \E strategy \in {"CapabilityMatch", "FirstAvailable"} : Record(r, "delegated", CapabilityOf(strategy))

\* A response to a task was published.
RecordResponse(r) == Record(r, "received", "")

\* Mutant: the append takes no lock.
AppendLockless(r) ==
    /\ at[r] = "lock"
    /\ Reach(r, "row")
    /\ UNCHANGED <<log, entry, clock, writeLock, tears>>

\* The lock is taken and the file opened.
Append_(r) ==
    /\ at[r] = "lock" /\ writeLock = {}
    /\ writeLock' = {r}
    /\ Reach(r, "row")
    /\ UNCHANGED <<log, entry, clock, tears>>

WriteRow(r) ==
    /\ at[r] = "row"
    /\ log' = Append(log, r)
    /\ Reach(r, "lf")
    /\ UNCHANGED <<entry, clock, writeLock, tears>>

\* The line feed is written and flushed, the lock released, the caller told.
WriteLf(r) ==
    /\ at[r] = "lf"
    /\ log' = Append(log, LF)
    /\ writeLock' = writeLock \ {r}
    /\ Reach(r, "kept")
    /\ UNCHANGED <<entry, clock, tears>>

\* What an append that ends early leaves: nothing, a piece of its row, or the row with no line feed.
Left(r) == {log} \cup (IF at[r] = "row" THEN {Append(log, Torn), Append(log, Cut)} ELSE {})

\* A write fails: the error is logged, the row is given up.
AppendFails(r) ==
    /\ at[r] \in {"row", "lf"} /\ tears < MaxTears
    /\ log' \in Left(r)
    /\ writeLock' = writeLock \ {r}
    /\ tears' = tears + 1
    /\ Reach(r, "lost")
    /\ UNCHANGED <<entry, clock>>

\* The daemon ends and is started again: the appends it was in are gone, with their lock.
Restart ==
    /\ \E r \in Rows : at[r] \in {"lock", "row", "lf"}
    /\ tears < MaxTears
    /\ log' \in UNION {Left(r) : r \in {x \in Rows : x \in writeLock}} \cup
               (IF writeLock = {} THEN {log} ELSE {})
    /\ tears' = tears + Cardinality(writeLock)
    /\ writeLock' = {}
    /\ at' = [r \in Rows |-> IF at[r] \in {"lock", "row", "lf"} THEN "lost" ELSE at[r]]
    /\ UNCHANGED <<entry, clock>>

HistoryNext ==
    \/ Restart
    \/ \E r \in Rows :
           \/ RecordDelegation(r) \/ RecordResponse(r)
           \/ Append_(r) \/ WriteRow(r) \/ WriteLf(r) \/ AppendFails(r)

-------------------------------------------------------------------------------
(* Properties *)

HistoryTypeOK ==
    /\ entry \in [Rows -> HistoryEntry] /\ clock \in 0 .. Cardinality(Rows)
    /\ log \in Seq(Rows \cup {Torn, Cut, LF})
    /\ at \in [Rows -> {"none", "lock", "row", "lf", "kept", "lost"}]
    /\ writeLock \subseteq Rows /\ Cardinality(writeLock) <= 1
    /\ tears \in 0 .. MaxTears

Kept == {r \in Rows : at[r] = "kept"}

\* As long as no append was cut short inside a multi-byte character, which makes every later call of
\* list and get fail: an append that is cut short costs at most one row that was reported as written
\* (the one that is joined to what it left), and concurrent appends and restarts lose none by
\* themselves.  A listing shows what get finds and its filter asks for, newest first, although rows
\* are stamped before they wait for the lock; its pages, put together, are the listing.
OneRowPerTear ==
    LET n == Cardinality(Rows) IN
    Readable(log) /\ log # <<>> =>
        /\ Cardinality({r \in Kept : ~GetRow(r)}) <= tears
        /\ \A filter \in HistoryFilter :
            \E all \in {ListRows(n, 0, filter)} :
                /\ ToSet(all) = {r \in Rows : GetRow(r) /\ Matches(entry[r], filter)}
                /\ IsInjective(all)
                /\ \A i, j \in DOMAIN all :
                       i < j => entry[all[i]].created_at_ms >= entry[all[j]].created_at_ms
                /\ filter.direction = "any" => FlattenSeq([k \in 1 .. n |-> ListRows(1, k - 1, filter)]) = all
===============================================================================
