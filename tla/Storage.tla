-------------------------------- MODULE Storage --------------------------------
(***************************************************************************)
(* The backends of the StorageBackend trait (storage/src): the REST API of *)
(* Codex, the embedded node of libstorage, the storage module reached      *)
(* through the C++ shim, and the one reached through the C API of the      *)
(* host.  `backend` picks one for a behaviour.                             *)
(*                                                                         *)
(* Workers upload and download concurrently.  A blob is a sequence of      *)
(* chunks, and its CID stands for its content: an upload results in the    *)
(* content the node stored, a download in the bytes it returned.  The node *)
(* has every blob, and any call of it may fail.                            *)
(***************************************************************************)
EXTENDS Integers, Sequences

CONSTANTS
    StorageKinds,   \* the backends to explore: of rest, libstorage, module, core
    Workers, Blobs,
    Chunks          \* chunks of a blob

ASSUME StorageAssumption ==
    StorageKinds \subseteq {"rest", "libstorage", "module", "core"} /\ Chunks \in Nat

Data(b) == [i \in 1 .. Chunks |-> <<b, i>>]
Missing == <<"no file">>

VARIABLES
    backend,
    embedded,   \* libstorage: the node in the process: down, up, failed or stopped
    job,        \* what a worker does, with which blob
    at,         \* where it is
    handed,     \* uploads: the next chunk, and what the session of the node holds
    out,        \* the result: content behind the CID of an upload, bytes of a download
    scratch,    \* libstorage: the file dl-<cid> of the scratch directory
    due,        \* core: workers whose done event the node has yet to emit
    feed,       \* core: chunks the node has emitted for a download
    chunkRx, doneRx,    \* core: the channels of the listeners of a worker
    excused     \* history: workers whose operation met one of the hazards

storageVars == <<backend, embedded, job, at, handed, out, scratch, due, feed, chunkRx, doneRx, excused>>
coreVars == <<due, feed, chunkRx, doneRx>>

StorageInit ==
    /\ backend \in StorageKinds /\ embedded = "down"
    /\ job \in [Workers -> [what : {"upload", "download"}, blob : Blobs]]
    /\ at = [w \in Workers |-> "idle"]
    /\ handed = [w \in Workers |-> [next |-> 1, held |-> <<>>]]
    /\ out = [w \in Workers |-> <<>>]
    /\ scratch = [b \in Blobs |-> Missing]
    /\ due = {} /\ feed = [w \in Workers |-> 0]
    /\ chunkRx = [w \in Workers |-> <<>>] /\ doneRx = [w \in Workers |-> <<>>]
    /\ excused = {}

Is(w, k, what, here) == backend = k /\ job[w].what = what /\ at[w] = here
Busy(w) == at[w] \notin {"idle", "done", "error"}
MoveTo(w, l) == at' = [at EXCEPT ![w] = l]
Fail(w) == MoveTo(w, "error")
Yield(w, v) == MoveTo(w, "done") /\ out' = [out EXCEPT ![w] = v]
Blob(w) == job[w].blob

\* Two operations that share something a backend does not keep apart: the file dl-<cid> of
\* libstorage, the events of the storage module for uploads or for downloads.  These the node emits
\* also for an operation whose caller has left it.
Clash(w, v) ==
    /\ v # w /\ job[v].what = job[w].what
    /\ \/ backend = "core" /\ (Busy(v) \/ v \in due)
       \/ backend = "libstorage" /\ Busy(v) /\ job[w].what = "download" /\ Blob(v) = Blob(w)

First ==
    [k \in {"rest", "libstorage", "module", "core"} |->
        [upload |-> IF k \in {"rest", "libstorage"} THEN "send" ELSE "init",
         download |-> "fetch"]]

\* LibstorageBackend::with_config: the directory, the node and its start can each fail.
WithStorageConfig ==
    /\ backend = "libstorage" /\ embedded = "down"
    /\ embedded' \in {"up", "failed"}
    /\ UNCHANGED <<backend, job, at, handed, out, scratch, coreVars, excused>>

\* shutdown consumes the backend, so no operation of it is running; it ends it even if stop fails.
ShutdownStorage ==
    /\ backend = "libstorage" /\ embedded = "up" /\ \A w \in Workers : ~Busy(w)
    /\ embedded' = "stopped"
    /\ UNCHANGED <<backend, job, at, handed, out, scratch, coreVars, excused>>

\* upload or download is called; the backend of the host registers its listeners.
StartOp(w) ==
    /\ at[w] = "idle" /\ (backend = "libstorage" => embedded = "up")
    /\ MoveTo(w, First[backend][job[w].what])
    /\ excused' = LET vs == {v \in Workers : Clash(w, v)}
                  IN IF vs = {} THEN excused ELSE excused \cup vs \cup {w}
    /\ UNCHANGED <<backend, embedded, job, handed, out, scratch, coreVars>>

-------------------------------------------------------------------------------
(* REST, and uploads of libstorage from a temporary file of their own *)

Upload(w) ==
    /\ backend \in {"rest", "libstorage"} /\ job[w].what = "upload" /\ at[w] = "send"
    /\ Yield(w, Data(Blob(w))) \/ (Fail(w) /\ UNCHANGED out)
    /\ UNCHANGED <<backend, embedded, job, handed, scratch, coreVars, excused>>

RestDownload(w) ==
    /\ Is(w, "rest", "download", "fetch")
    /\ Yield(w, Data(Blob(w))) \/ (Fail(w) /\ UNCHANGED out)
    /\ UNCHANGED <<backend, embedded, job, handed, scratch, coreVars, excused>>

\* libstorage: download_stream creates, then fills the file dl-<cid>; it is read, then removed.
LibDownload(w) ==
    /\ backend = "libstorage" /\ job[w].what = "download"
    /\ \/ /\ at[w] = "fetch"
          /\ scratch' = [scratch EXCEPT ![Blob(w)] = <<>>]
          /\ MoveTo(w, "stream") /\ UNCHANGED out
       \/ /\ at[w] = "stream"
          /\ scratch' = [scratch EXCEPT ![Blob(w)] = Data(Blob(w))]
          /\ MoveTo(w, "read") /\ UNCHANGED out
       \/ /\ at[w] \in {"fetch", "stream"}
          /\ Fail(w) /\ UNCHANGED <<scratch, out>>
       \/ /\ at[w] = "read" /\ scratch[Blob(w)] = Missing
          /\ Fail(w) /\ UNCHANGED <<scratch, out>>
       \/ /\ at[w] = "read" /\ scratch[Blob(w)] # Missing
          /\ out' = [out EXCEPT ![w] = scratch[Blob(w)]]
          /\ MoveTo(w, "remove") /\ UNCHANGED scratch
       \/ /\ at[w] = "remove"
          /\ scratch' = [scratch EXCEPT ![Blob(w)] = Missing]
          /\ MoveTo(w, "done") /\ UNCHANGED out
    /\ UNCHANGED <<backend, embedded, job, handed, coreVars, excused>>

-------------------------------------------------------------------------------
(* The storage module through the shim.  The JSON answer of a call is one of
   the shapes below; the shim makes them of what the module returned, see Shim. *)

Shapes == {"value", "true", "{}", "error", "kind=error"}

ExtractValue(a) == a = "value"
SaysError(a) == a = "kind=error"

Session(w, keep) ==
    handed' = [handed EXCEPT ![w] =
        [next |-> @.next + 1, held |-> IF keep THEN Append(@.held, Data(Blob(w))[@.next]) ELSE @.held]]

InitModule(w, a) ==
    /\ Is(w, "module", "upload", "init")
    /\ MoveTo(w, IF ExtractValue(a) THEN "chunk" ELSE "error")
    /\ UNCHANGED <<backend, embedded, job, handed, out, scratch, coreVars, excused>>

\* Mutant: the answer of the module is not looked at.
ChunkModuleBlind(w, a) ==
    /\ Is(w, "module", "upload", "chunk") /\ handed[w].next <= Chunks
    /\ Session(w, a # "kind=error")
    /\ excused' = IF a = "error" THEN excused \cup {w} ELSE excused
    /\ UNCHANGED <<backend, embedded, job, at, out, scratch, coreVars>>

\* A chunk that failed with {"error"}, as when the shim gave up on the call, may be stored or not.
ChunkModule(w, a) ==
    /\ Is(w, "module", "upload", "chunk") /\ handed[w].next <= Chunks
    /\ \/ SaysError(a) /\ Fail(w) /\ UNCHANGED handed
       \/ ~SaysError(a) /\ UNCHANGED at /\ \E keep \in {a # "error", TRUE} : Session(w, keep)
    /\ excused' = IF a = "error" THEN excused \cup {w} ELSE excused
    /\ UNCHANGED <<backend, embedded, job, out, scratch, coreVars>>

FinalizeModule(w, a) ==
    /\ Is(w, "module", "upload", "chunk") /\ handed[w].next > Chunks
    /\ IF ExtractValue(a) THEN Yield(w, handed[w].held) ELSE Fail(w) /\ UNCHANGED out
    /\ UNCHANGED <<backend, embedded, job, handed, scratch, coreVars, excused>>

\* The file is read back after {"error"} too, with what downloadFile had written of it.
DownloadModule(w, a) ==
    /\ Is(w, "module", "download", "fetch")
    /\ \/ SaysError(a) /\ Fail(w) /\ UNCHANGED out
       \/ a \in {"value", "true", "{}"} /\ Yield(w, Data(Blob(w)))
       \/ a = "error" /\ \E n \in 0 .. Chunks : Yield(w, SubSeq(Data(Blob(w)), 1, n))
    /\ excused' = IF a = "error" THEN excused \cup {w} ELSE excused
    /\ UNCHANGED <<backend, embedded, job, handed, scratch, coreVars>>

-------------------------------------------------------------------------------
(* The storage module through the C API of the host.  Events carry no session:
   every listener of an event gets it, as long as its receiver is there. *)

Listening(what) == {w \in Workers : Busy(w) /\ job[w].what = what}
ToAll(rx, what, v) == [w \in Workers |-> IF w \in Listening(what) THEN Append(rx[w], v) ELSE rx[w]]

\* call_method: the callback of the one call answers it, with the result or an error.
CallMethod(w, l) == MoveTo(w, l) \/ Fail(w)
CallFailed(w) == at'[w] = "error"

InitCore(w) ==
    /\ Is(w, "core", "upload", "init")
    /\ CallMethod(w, "chunk")
    /\ UNCHANGED <<backend, embedded, job, handed, out, scratch, coreVars, excused>>

ChunkCore(w) ==
    /\ Is(w, "core", "upload", "chunk") /\ handed[w].next <= Chunks
    /\ CallMethod(w, "chunk")
    /\ IF CallFailed(w) THEN UNCHANGED handed ELSE Session(w, TRUE)
    /\ UNCHANGED <<backend, embedded, job, out, scratch, coreVars, excused>>

FinalizeCore(w) ==
    /\ Is(w, "core", "upload", "chunk") /\ handed[w].next > Chunks
    /\ CallMethod(w, "await")
    /\ due' = IF CallFailed(w) THEN due ELSE due \cup {w}
    /\ UNCHANGED <<backend, embedded, job, handed, out, scratch, feed, chunkRx, doneRx, excused>>

\* The node is done with an upload, or it failed, and emits storageUploadDone.
NodeUploaded(w) ==
    /\ backend = "core" /\ job[w].what = "upload" /\ w \in due
    /\ due' = due \ {w}
    /\ \E v \in {handed[w].held, Missing} : doneRx' = ToAll(doneRx, "upload", v)
    /\ UNCHANGED <<backend, embedded, job, at, handed, out, scratch, feed, chunkRx, excused>>

AwaitCid(w) ==
    /\ Is(w, "core", "upload", "await") /\ doneRx[w] # <<>>
    /\ IF Head(doneRx[w]) = Missing THEN Fail(w) /\ UNCHANGED out ELSE Yield(w, Head(doneRx[w]))
    /\ doneRx' = [doneRx EXCEPT ![w] = Tail(@)]
    /\ UNCHANGED <<backend, embedded, job, handed, scratch, due, feed, chunkRx, excused>>

DownloadCore(w) ==
    /\ Is(w, "core", "download", "fetch")
    /\ CallMethod(w, "collect")
    /\ due' = IF CallFailed(w) THEN due ELSE due \cup {w}
    /\ UNCHANGED <<backend, embedded, job, handed, out, scratch, feed, chunkRx, doneRx, excused>>

\* The node emits the chunks of a download in order, then storageDownloadDone.
NodeFeeds(w) ==
    /\ backend = "core" /\ job[w].what = "download" /\ w \in due
    /\ IF feed[w] < Chunks
       THEN /\ feed' = [feed EXCEPT ![w] = @ + 1]
            /\ chunkRx' = ToAll(chunkRx, "download", Data(Blob(w))[feed[w] + 1])
            /\ UNCHANGED <<due, doneRx>>
       ELSE /\ due' = due \ {w}
            /\ doneRx' = ToAll(doneRx, "download", Blob(w))
            /\ UNCHANGED <<feed, chunkRx>>
    /\ UNCHANGED <<backend, embedded, job, at, handed, out, scratch, excused>>

\* Or it gives up on it with an error event.
NodeFails(w) ==
    /\ backend = "core" /\ job[w].what = "download" /\ w \in due
    /\ due' = due \ {w}
    /\ chunkRx' = ToAll(chunkRx, "download", Missing)
    /\ UNCHANGED <<backend, embedded, job, at, handed, out, scratch, feed, doneRx, excused>>

CollectChunk(w) ==
    /\ Is(w, "core", "download", "collect") /\ chunkRx[w] # <<>>
    /\ IF Head(chunkRx[w]) = Missing
       THEN Fail(w) /\ UNCHANGED out
       ELSE out' = [out EXCEPT ![w] = Append(@, Head(chunkRx[w]))] /\ UNCHANGED at
    /\ chunkRx' = [chunkRx EXCEPT ![w] = Tail(@)]
    /\ UNCHANGED <<backend, embedded, job, handed, scratch, due, feed, doneRx, excused>>

\* tokio::select! picks either of two branches that are ready: chunks may be left behind.
CollectDone(w) ==
    /\ Is(w, "core", "download", "collect") /\ doneRx[w] # <<>>
    /\ MoveTo(w, "done")
    /\ doneRx' = [doneRx EXCEPT ![w] = Tail(@)]
    /\ excused' = IF chunkRx[w] # <<>> THEN excused \cup {w} ELSE excused
    /\ UNCHANGED <<backend, embedded, job, handed, out, scratch, due, feed, chunkRx>>

-------------------------------------------------------------------------------
StorageNext ==
    \/ WithStorageConfig \/ ShutdownStorage
    \/ \E w \in Workers :
          \/ StartOp(w) \/ Upload(w) \/ RestDownload(w) \/ LibDownload(w)
          \/ \E a \in Shapes :
              InitModule(w, a) \/ ChunkModule(w, a) \/ FinalizeModule(w, a) \/ DownloadModule(w, a)
          \/ InitCore(w) \/ ChunkCore(w) \/ FinalizeCore(w) \/ NodeUploaded(w) \/ AwaitCid(w)
          \/ DownloadCore(w) \/ NodeFeeds(w) \/ NodeFails(w) \/ CollectChunk(w) \/ CollectDone(w)

-------------------------------------------------------------------------------
(* Properties *)

StorageTypeOK ==
    /\ backend \in StorageKinds /\ embedded \in {"down", "up", "failed", "stopped"}
    /\ at \in [Workers -> {"idle", "send", "init", "chunk", "await", "fetch", "stream", "read",
                           "remove", "collect", "done", "error"}]
    /\ \A w \in Workers : handed[w].next \in 1 .. Chunks + 1 /\ Len(handed[w].held) < handed[w].next
    /\ due \subseteq Workers /\ feed \in [Workers -> 0 .. Chunks] /\ excused \subseteq Workers

\* An upload that succeeds gives the CID of its data, and a download that succeeds all the bytes of
\* its CID, whatever fails in between: unless an answer of the module was {"error"}, operations of
\* the backend clashed (Clash), or the done event overtook a chunk (CollectDone).
StorageIsFaithful ==
    \A w \in Workers : at[w] = "done" /\ w \notin excused => out[w] = Data(Blob(w))
===============================================================================
