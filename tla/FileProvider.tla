---------------------------- MODULE FileProvider ----------------------------
(***************************************************************************)
(* The file provider (src/providers/file-provider.ts): an in-memory store  *)
(* whose every write waits until a JSON snapshot of the whole store has    *)
(* replaced the file.  A snapshot holds every write applied before it was  *)
(* taken, so a state of the store, a snapshot and the file are each the    *)
(* number of writes they hold.                                             *)
(*                                                                         *)
(* The awaits are the file system calls, the embedder inside a write and   *)
(* the shared promises loading and pendingPersist.  The process may die    *)
(* between any two of them; what the file system was told stays (no fsync: *)
(* a crash here is one of the process, not of the machine).                *)
(***************************************************************************)
EXTENDS Naturals

CONSTANTS
  Caller,      \* requests that may be in flight at once
  MaxVersion,  \* bound on the writes of a run
  Absent,      \* no such file
  Torn         \* a partly written file

VARIABLES
  store,     \* writes the inner provider holds
  disk,      \* the store file and <file>.tmp
  loading,   \* the single-flight load
  batch,     \* the single-flight persist: pendingPersist and where it stands
  dirty,     \* a write has joined since the last snapshot was taken
  calls,     \* the write each caller is waiting for
  acked      \* the latest write any caller was told is stored

vars == <<store, disk, loading, batch, dirty, calls, acked>>

Version == 0 .. MaxVersion
Image == Version \cup {Absent, Torn}

Loading == {"none", "mkdir", "access", "read", "createWrite", "createRename",
            "done", "rejected"}
Batch == [stage: {"none", "check", "write", "rename"}, snapshot: Version]
NoBatch == [stage |-> "none", snapshot |-> 0]

Call == [phase: {"idle", "loading", "applied", "waiting"}, needs: Version]
IdleCall == [phase |-> "idle", needs |-> 0]

ASSUME ConstantsAssumption ==
  /\ MaxVersion \in Nat
  /\ Absent \notin Version /\ Torn \notin Version /\ Absent # Torn

TypeOK ==
  /\ store \in Version
  /\ disk \in [file: Image, tmp: Image]
  /\ loading \in Loading
  /\ batch \in Batch
  /\ dirty \in BOOLEAN
  /\ calls \in [Caller -> Call]
  /\ acked \in Version

FileVersion == IF disk.file \in Version THEN disk.file ELSE 0

In(phase) == {c \in Caller : calls[c].phase = phase}

\* A settled promise answers every call that awaits it.
Answered(phase) == [c \in Caller |-> IF calls[c].phase = phase THEN IdleCall ELSE calls[c]]

(***************************************************************************)
(* persist(): writeFile(tmp) truncates the file before it fills it, rename *)
(* publishes it.                                                           *)
(***************************************************************************)
WriteBeginsInPlace(d) == [d EXCEPT !.tmp = Torn, !.file = Torn]  \* mutant: no temporary file
WriteBegins(d) == [d EXCEPT !.tmp = Torn]
WriteEnds(d, snapshot) == [d EXCEPT !.tmp = snapshot]
Renamed(d) == [file |-> d.tmp, tmp |-> Absent]

(***************************************************************************)
(* load().                                                                 *)
(***************************************************************************)
\* ensureLoaded() starts the load once; a load that was rejected for good fails the call.
Begin(c) ==
  /\ calls[c] = IdleCall
  /\ loading # "rejected"
  /\ loading' = IF loading = "none" THEN "mkdir" ELSE loading
  /\ calls' = [calls EXCEPT ![c] = [phase |-> "loading", needs |-> 0]]
  /\ UNCHANGED <<store, disk, batch, dirty, acked>>

LoadStep(from, to) ==
  /\ loading = from
  /\ loading' = to

\* A failed step rejects every caller of this load; "none" lets the next caller retry.
LoadFails(from, to) ==
  /\ LoadStep(from, to)
  /\ calls' = Answered("loading")
  /\ UNCHANGED <<store, disk, batch, dirty, acked>>

MkdirLands ==
  /\ LoadStep("mkdir", "access")
  /\ UNCHANGED <<store, disk, batch, dirty, calls, acked>>

AccessLands ==
  /\ LoadStep("access", "read")
  /\ UNCHANGED <<store, disk, batch, dirty, calls, acked>>

LoadedEmpty(d) == 0  \* mutant: an unreadable store starts empty
Loaded(d) == d.file

ReadLands ==
  /\ LoadStep("read", "done")
  /\ disk.file \in Version
  /\ store' = Loaded(disk)
  /\ UNCHANGED <<disk, batch, dirty, calls, acked>>

ReadMissing ==
  /\ LoadStep("read", "createWrite")
  /\ disk.file = Absent
  /\ disk' = WriteBegins(disk)
  /\ UNCHANGED <<store, batch, dirty, calls, acked>>

CreateWritten ==
  /\ LoadStep("createWrite", "createRename")
  /\ disk' = WriteEnds(disk, store)
  /\ UNCHANGED <<store, batch, dirty, calls, acked>>

CreateRenamed ==
  /\ LoadStep("createRename", "done")
  /\ disk' = Renamed(disk)
  /\ UNCHANGED <<store, batch, dirty, calls, acked>>

MkdirFails == LoadFails("mkdir", "rejected")
AccessFails == LoadFails("access", "none")
ReadFails == LoadFails("read", "none")
CreateFails == LoadFails("createWrite", "rejected") \/ LoadFails("createRename", "rejected")

(***************************************************************************)
(* A write: applied to the inner store, which may await the embedder, then *)
(* queued; its caller is answered when the batch it joined is.             *)
(***************************************************************************)
Apply(c) ==
  /\ calls[c].phase = "loading"
  /\ loading = "done"
  /\ store < MaxVersion
  /\ store' = store + 1
  /\ calls' = [calls EXCEPT ![c] = [phase |-> "applied", needs |-> store + 1]]
  /\ UNCHANGED <<disk, loading, batch, dirty, acked>>

\* Nothing to write (an unknown id, another scope): answered without a persist.
Reject(c) ==
  /\ calls[c].phase = "loading"
  /\ loading = "done"
  /\ calls' = [calls EXCEPT ![c] = IdleCall]
  /\ UNCHANGED <<store, disk, loading, batch, dirty, acked>>

JoinedOnly == batch  \* mutant: nobody starts the batch
Joined == IF batch.stage = "none" THEN [batch EXCEPT !.stage = "check"] ELSE batch

QueuePersist(c) ==
  /\ calls[c].phase = "applied"
  /\ dirty' = TRUE
  /\ batch' = Joined
  /\ calls' = [calls EXCEPT ![c].phase = "waiting"]
  /\ UNCHANGED <<store, disk, loading, acked>>

\* flush() and close(): join the batch that is running, whatever it carries.
Flush(c) ==
  /\ calls[c] = IdleCall
  /\ batch.stage # "none"
  /\ \E needs \in {calls[w].needs : w \in In("waiting")} :
       /\ \A w \in In("waiting") : calls[w].needs <= needs
       /\ calls' = [calls EXCEPT ![c] = [phase |-> "waiting", needs |-> needs]]
  /\ UNCHANGED <<store, disk, loading, batch, dirty, acked>>

(***************************************************************************)
(* queuePersist()'s loop.                                                  *)
(***************************************************************************)
SnapshotTaken ==
  /\ batch.stage = "check" /\ dirty
  /\ dirty' = FALSE
  /\ batch' = [stage |-> "write", snapshot |-> store]
  /\ disk' = WriteBegins(disk)
  /\ UNCHANGED <<store, loading, calls, acked>>

SnapshotWritten ==
  /\ batch.stage = "write"
  /\ batch' = [batch EXCEPT !.stage = "rename"]
  /\ disk' = WriteEnds(disk, batch.snapshot)
  /\ UNCHANGED <<store, loading, dirty, calls, acked>>

SnapshotRenamed ==
  /\ batch.stage = "rename"
  /\ batch' = [batch EXCEPT !.stage = "check"]
  /\ disk' = Renamed(disk)
  /\ UNCHANGED <<store, loading, dirty, calls, acked>>

\* The write or the rename fails: every caller of the batch gets the error, and nothing
\* is marked for another attempt.
PersistFails ==
  /\ batch.stage \in {"write", "rename"}
  /\ batch' = NoBatch
  /\ calls' = Answered("waiting")
  /\ UNCHANGED <<store, disk, loading, dirty, acked>>

LatestNeed(seen) ==
  {n \in Version : /\ n = seen \/ \E c \in In("waiting") : n = calls[c].needs
                   /\ seen <= n
                   /\ \A c \in In("waiting") : calls[c].needs <= n}

BatchMayEndDirty == batch.stage = "check"  \* mutant: one snapshot per batch, joined or not
BatchMayEnd == batch.stage = "check" /\ ~dirty

BatchEnds ==
  /\ BatchMayEnd
  /\ batch' = NoBatch
  /\ calls' = Answered("waiting")
  /\ acked' \in LatestNeed(acked)
  /\ UNCHANGED <<store, disk, loading, dirty>>

\* The process dies: memory is gone, and a half-written temporary file stays behind.
Crash ==
  /\ store' = 0 /\ loading' = "none" /\ batch' = NoBatch /\ dirty' = FALSE
  /\ calls' = [c \in Caller |-> IdleCall]
  /\ UNCHANGED <<disk, acked>>

(***************************************************************************)
(* Specification.                                                          *)
(***************************************************************************)
Init ==
  /\ store = 0
  /\ disk = [file |-> Absent, tmp |-> Absent]
  /\ loading = "none"
  /\ batch = NoBatch
  /\ dirty = FALSE
  /\ calls = [c \in Caller |-> IdleCall]
  /\ acked = 0

LoadSteps ==
  \/ MkdirLands \/ MkdirFails \/ AccessLands \/ AccessFails
  \/ ReadLands \/ ReadMissing \/ ReadFails
  \/ CreateWritten \/ CreateRenamed \/ CreateFails

BatchSteps ==
  \/ SnapshotTaken \/ SnapshotWritten \/ SnapshotRenamed \/ PersistFails \/ BatchEnds

CallSteps(c) == Begin(c) \/ Apply(c) \/ Reject(c) \/ QueuePersist(c) \/ Flush(c)

Next == LoadSteps \/ BatchSteps \/ Crash \/ \E c \in Caller : CallSteps(c)

Spec == Init /\ [][Next]_vars

\* File system calls settle one way or the other, the embedder answers or times out, and
\* the event loop runs every continuation.  Requests and crashes are not fair.
FileFairness ==
  /\ WF_vars(LoadSteps) /\ WF_vars(BatchSteps)
  /\ \A c \in Caller : WF_vars(Apply(c) \/ Reject(c)) /\ WF_vars(QueuePersist(c))

(***************************************************************************)
(* Properties.                                                             *)
(***************************************************************************)

\* The store file is never a partly written one: the load's own persist and the batched
\* one share <file>.tmp and must not overlap, and a failed or killed write must not be
\* published by the next rename.
FileIsWhole == disk.file # Torn

\* A write whose caller was told it is stored is in the file, and so survives a crash at
\* any later moment: coalescing, failed batches and restarts included.
AckedIsDurable == acked <= FileVersion

\* Every call is answered, with its result or with an error.
EveryCallAnswered == \A c \in Caller : calls[c].phase # "idle" ~> calls[c].phase = "idle"

\* The provider keeps the promise of DurableStore.
Durable == INSTANCE DurableStore WITH
  written <- IF loading = "done" THEN store ELSE FileVersion,
  durable <- FileVersion,
  acked <- acked

ImplementsDurableStore == Durable!Spec
=============================================================================
