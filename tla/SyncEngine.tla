----------------------------- MODULE SyncEngine -----------------------------
(***************************************************************************)
(* The sync engine of the plugin (src/sync/engine.ts) on several devices,  *)
(* all in sync with one vault of the server.                               *)
(*                                                                         *)
(* An action is the code between two awaits: the engine of a device may be *)
(* interrupted, and its user and every other device may act, wherever the  *)
(* code awaits the network, the vault or the plugin's storage.  `pc` names *)
(* the await an engine is at, `state` is the EngineState object in memory, *)
(* `disk` the copy of it in sync-state.json, `pendingFile` the bytes in    *)
(* pending-upload.json, and `work` the local variables of the cycle.       *)
(*                                                                         *)
(* To the engine the server is its history, one entry per revision.        *)
(* Contents, and so digests, are numbers.  The server's handler, the users *)
(* and the system they form with the engines are in SyncSystem.            *)
(***************************************************************************)
EXTENDS Integers, Sequences, Protocol, PacketSize

CONSTANTS
  Devices,
  MAX_ROUNDS,     \* rounds of one cycle (8 in the code)
  PULL_BATCH,     \* revisions applied at once (16 MiB of packets in the code)
  OpIds,          \* operation IDs, random in the code
  MaxFaults       \* bound: interruptions and damaged state files

ASSUME SyncEngineAssumption ==
  /\ MAX_ROUNDS \in Nat \ {0} /\ PULL_BATCH \in Nat \ {0}
  /\ OpIds \subseteq Nat /\ 0 \in OpIds
  /\ MaxFaults \in Nat

VARIABLES
  log,          \* the vault's history on the server
  net,          \* uploads on their way to the server
  reply,        \* the answer to a device's upload, None before it arrives
  files,        \* the vault on each device
  disk,         \* sync-state.json of each device, None if missing or damaged
  pendingFile,  \* pending-upload.json of each device, None if missing or torn
  pc,           \* where the engine of a device waits
  state,        \* EngineState in memory
  work,         \* the variables of the running cycle
  faults

server == <<log, net>>
plugin == <<reply, disk, pendingFile, pc, state, work>>

-----------------------------------------------------------------------------
(* The engine: its states between two awaits. *)

FreshState == [revision |-> 0, digests |-> NoFiles, pending |-> None]

NewWork ==
  [ctx |-> "pull",            \* what the scan or the upload is part of
   round |-> 0, head |-> 0, end |-> 0,
   remote |-> NoFiles, local |-> NoFiles, todo |-> {},
   large |-> {},              \* the scanned files with an "oversize:" digest
   deletes |-> {}, copies |-> EmptyPacket, puts |-> {},
   batch |-> EmptyPacket, body |-> EmptyPacket,
   merging |-> FALSE]         \* ghost: a fresh merge is going on

(* Some fixed order, as the code's sort() gives. *)
First(S) == CHOOSE x \in S : TRUE

(* The end of a cycle, by return or by exception: memory is forgotten. *)
Stop(d) ==
  /\ pc' = [pc EXCEPT ![d] = "idle"]
  /\ state' = [state EXCEPT ![d] = FreshState]
  /\ work' = [work EXCEPT ![d] = NewWork]

(* saveState. *)
SaveState(d, new) ==
  /\ state' = [state EXCEPT ![d] = new]
  /\ disk' = [disk EXCEPT ![d] = new]

(* storage.remove(PENDING_FILE), whose failure is ignored. *)
RemovePending(d) ==
  \/ pendingFile' = [pendingFile EXCEPT ![d] = None]
  \/ faults < MaxFaults /\ UNCHANGED pendingFile

Goto(d, label) == pc' = [pc EXCEPT ![d] = label]

(* A new round starts from nothing but the engine's state. *)
NewRound(d, round) ==
  work' = [work EXCEPT ![d] = [NewWork EXCEPT !.round = round,
                                              !.merging = work[d].merging]]

(* The start of a cycle: loadState. *)
LoadState(d) ==
  /\ pc[d] = "idle"
  /\ state' = [state EXCEPT ![d] = IF disk[d] = None THEN FreshState ELSE disk[d]]
  /\ work' = [work EXCEPT ![d].merging = (disk[d] = None)]
  /\ Goto(d, IF state'[d].pending # None THEN "submit" ELSE "head")
  /\ UNCHANGED <<server, reply, files, disk, pendingFile, faults>>

-----------------------------------------------------------------------------
(* submitPending, called at the start of a cycle (ctx = "pull") and by     *)
(* upload (ctx = "push").                                                  *)

PendingIsWhole(d) ==
  /\ pendingFile[d] # None
  /\ state[d].pending.expected = state[d].revision
  /\ pendingFile[d] = state[d].pending.digest

(* dropPending, then the caller: a dropped upload ends the round of a push *)
(* and is forgotten at the start of a cycle.                               *)
DropPending(d) ==
  /\ SaveState(d, [state[d] EXCEPT !.pending = None])
  /\ RemovePending(d)

AfterDrop(d) ==
  \/ /\ work[d].ctx = "pull"
     /\ DropPending(d)
     /\ Goto(d, "head")
     /\ UNCHANGED work
  \/ /\ work[d].ctx = "push"
     /\ work[d].round + 1 < MAX_ROUNDS
     /\ DropPending(d)
     /\ Goto(d, "head")
     /\ NewRound(d, work[d].round + 1)
  \/ /\ work[d].ctx = "push"        \* "The server kept changing during sync."
     /\ work[d].round + 1 >= MAX_ROUNDS
     /\ disk' = [disk EXCEPT ![d] = [state[d] EXCEPT !.pending = None]]
     /\ RemovePending(d)
     /\ Stop(d)

SubmitPending(d) ==
  /\ pc[d] = "submit"
  /\ \/ /\ ~PendingIsWhole(d)
        /\ AfterDrop(d)
        /\ UNCHANGED net
     \/ /\ PendingIsWhole(d)
        /\ net' = net \cup {[dev |-> d, op |-> state[d].pending.op,
                             expected |-> state[d].pending.expected,
                             body |-> pendingFile[d], late |-> FALSE]}
        /\ Goto(d, "reply")
        /\ UNCHANGED <<disk, pendingFile, state, work>>
  /\ UNCHANGED <<log, reply, files, faults>>

Outcome(d) == classifyUploadResponse(reply[d], state[d].pending.expected)

(* Seeded fault: the pending upload is not cleared. *)
ConfirmedStateMutant(d) ==
  [state[d] EXCEPT !.revision = state[d].pending.expected + 1,
                   !.digests = ApplyPacket(@, pendingFile[d])]

ConfirmedState(d) ==
  [revision |-> state[d].pending.expected + 1,
   digests |-> ApplyPacket(state[d].digests, pendingFile[d]),
   pending |-> None]

Confirm(d) ==
  /\ SaveState(d, ConfirmedState(d))
  /\ RemovePending(d)
  /\ Goto(d, IF work[d].ctx = "push" THEN "pack" ELSE "head")
  /\ work' = [work EXCEPT ![d].body = EmptyPacket]

(* Seeded fault: a conflict keeps the packet. *)
MustDropMutant(d) == reply[d].status = 413

(* Replies that end the life of a stored packet. *)
MustDrop(d) == Outcome(d) = "conflict" \/ reply[d].status \in {409, 413}

UploadReply(d) ==
  /\ pc[d] = "reply"
  /\ reply[d] # None
  /\ reply' = [reply EXCEPT ![d] = None]
  /\ \/ /\ Outcome(d) \in {"applied", "replayed"}
        /\ Confirm(d)
     \/ /\ Outcome(d) \notin {"applied", "replayed"}
        /\ MustDrop(d)
        /\ AfterDrop(d)
     \/ /\ Outcome(d) \notin {"applied", "replayed"}
        /\ ~MustDrop(d)
        /\ Stop(d)
        /\ UNCHANGED <<disk, pendingFile>>
  /\ UNCHANGED <<server, files, faults>>

-----------------------------------------------------------------------------
(* pull *)

(* Seeded fault: the digests of the lost history stay. *)
ResetStateMutant(d) == [state[d] EXCEPT !.revision = 0, !.pending = None]

(* The server was restored: merge again from an empty base. *)
ResetState(d) == FreshState

ResetBase(d) ==
  /\ Len(log) < state[d].revision
  /\ SaveState(d, ResetState(d))
  /\ RemovePending(d)
  /\ work' = [work EXCEPT ![d].merging = TRUE]
  /\ UNCHANGED pc

UpToDate(d) ==
  /\ Len(log) = state[d].revision
  /\ work' = [work EXCEPT ![d].ctx = "push", ![d].merging = FALSE]
  /\ Goto(d, "list")
  /\ UNCHANGED <<disk, pendingFile, state>>

StartBatch(d) ==
  /\ Len(log) > state[d].revision
  /\ work' = [work EXCEPT ![d].head = Len(log), ![d].end = state[d].revision,
                          ![d].remote = state[d].digests]
  /\ Goto(d, "fetch")
  /\ UNCHANGED <<disk, pendingFile, state>>

AskHead(d) ==
  /\ pc[d] = "head"
  /\ ResetBase(d) \/ UpToDate(d) \/ StartBatch(d)
  /\ UNCHANGED <<server, reply, files, faults>>

BatchEnds(d, end) == end = work[d].head \/ end - state[d].revision >= PULL_BATCH

Fetch(d) ==
  /\ pc[d] = "fetch"
  /\ LET next == work[d].end + 1 IN
     \/ /\ next <= Len(log)
        /\ work' = [work EXCEPT ![d].end = next,
                                ![d].remote = ApplyPacket(@, log[next].body)]
        /\ Goto(d, IF BatchEnds(d, next) THEN "list" ELSE "fetch")
        /\ UNCHANGED state
     \/ /\ next > Len(log)      \* 404: the history became shorter
        /\ Stop(d)
  /\ UNCHANGED <<server, reply, files, disk, pendingFile, faults>>

(* scanLocal: the files are listed at once.  The digest of a cached file,  *)
(* and of an oversized one, is the one at that moment; the others are read *)
(* one by one, and a file that is gone by then is left out.                *)
ListVault(d) ==
  /\ pc[d] = "list"
  /\ \E known \in SUBSET Present(files[d]) :
       /\ \A p \in Present(files[d]) : files[d][p] \in Oversized => p \in known
       /\ work' = [work EXCEPT
            ![d].local = [p \in Paths |-> IF p \in known THEN files[d][p] ELSE None],
            ![d].todo = Present(files[d]) \ known,
            ![d].large = {p \in known : files[d][p] \in Oversized}]
  /\ Goto(d, "scan")
  /\ UNCHANGED <<server, reply, files, disk, pendingFile, state, faults>>

ReadFile(d) ==
  /\ pc[d] = "scan"
  /\ work[d].todo # {}
  /\ LET p == First(work[d].todo) IN
       work' = [work EXCEPT ![d].local[p] = files[d][p], ![d].todo = @ \ {p}]
  /\ UNCHANGED <<server, reply, files, disk, pendingFile, pc, state, faults>>

-----------------------------------------------------------------------------
(* applyRemote: the plan for a batch. *)

Base(d) == state[d].digests
Local(d) == work[d].local
Remote(d) == work[d].remote

(* Paths that take the remote version: only the server changed them, or    *)
(* the device deleted a file that the server changed.                      *)
Incoming(d) ==
  Pulls(Base(d), Local(d), Remote(d))
  \cup {p \in Conflicts(Base(d), Local(d), Remote(d)) : Local(d)[p] = None}

(* Paths both sides changed: the local file stays, a remote edit becomes a *)
(* copy, a remote deletion loses to the local edit.                        *)
Copied(d) ==
  {p \in Conflicts(Base(d), Local(d), Remote(d)) :
     Local(d)[p] # None /\ Remote(d)[p] # None}

(* Seeded fault: no conflict copies. *)
NeedCopyMutant(d) == {}

NeedCopy(d) == {p \in Copied(d) : ~HasCopy(Local(d), p, Remote(d)[p])}

PlannedDeletes(d) == {p \in Incoming(d) : Remote(d)[p] = None}
PlannedPuts(d) == {p \in Incoming(d) : Remote(d)[p] # None}
FinalPaths(d) == (Present(Local(d)) \ PlannedDeletes(d)) \cup PlannedPuts(d)

CopiesNamed(d, name) ==
  [q \in {name[p] : p \in DOMAIN name} |->
     Remote(d)[CHOOSE p \in DOMAIN name : name[p] = q]]

PlanRemote(d) ==
  /\ pc[d] = "scan" /\ work[d].ctx = "pull" /\ work[d].todo = {}
  /\ LET names == {name \in CopyNamings(NeedCopy(d), FinalPaths(d)) :
                     Portable(FinalPaths(d) \cup {name[p] : p \in NeedCopy(d)})}
     IN \/ /\ names = {}
           /\ Stop(d)
        \/ \E name \in names :
             /\ work' = [work EXCEPT ![d].deletes = PlannedDeletes(d),
                                     ![d].copies = CopiesNamed(d, name),
                                     ![d].puts = PlannedPuts(d)]
             /\ Goto(d, "apply")
             /\ UNCHANGED state
  /\ UNCHANGED <<server, reply, files, disk, pendingFile, faults>>

(* Seeded fault: the file is not checked again. *)
AsScannedMutant(d, p) == TRUE

(* The plan is applied: deletions, then copies, then the other writes.     *)
(* currentDigest is read again before each, and the file is changed after  *)
(* the await that reading takes.                                           *)
AsScanned(d, p) == files[d][p] = Local(d)[p]

NextDelete(d) == First(work[d].deletes)
NextCopy(d) == First(DOMAIN work[d].copies)
NextPut(d) == First(work[d].puts)

CheckDelete(d) ==
  /\ pc[d] = "apply" /\ work[d].deletes # {}
  /\ LET p == NextDelete(d) IN
     \/ /\ files[d][p] = None
        /\ work' = [work EXCEPT ![d].deletes = @ \ {p}]
        /\ UNCHANGED <<pc, state>>
     \/ /\ files[d][p] # None
        /\ AsScanned(d, p)
        /\ Goto(d, "trash")
        /\ UNCHANGED <<state, work>>
     \/ /\ files[d][p] # None
        /\ ~AsScanned(d, p)
        /\ Stop(d)
  /\ UNCHANGED <<server, reply, files, disk, pendingFile, faults>>

TrashFile(d) ==
  /\ pc[d] = "trash"
  /\ files' = [files EXCEPT ![d][NextDelete(d)] = None]
  /\ work' = [work EXCEPT ![d].deletes = @ \ {NextDelete(d)}]
  /\ Goto(d, "apply")
  /\ UNCHANGED <<server, reply, disk, pendingFile, state, faults>>

(* vault.stat and vault.write with no await between them. *)
WriteCopy(d) ==
  /\ pc[d] = "apply" /\ work[d].deletes = {} /\ DOMAIN work[d].copies # {}
  /\ LET q == NextCopy(d) IN
     \/ /\ files[d][q] = None
        /\ files' = [files EXCEPT ![d][q] = work[d].copies[q]]
        /\ work' = [work EXCEPT ![d].copies =
                      [r \in DOMAIN @ \ {q} |-> @[r]]]
        /\ UNCHANGED <<pc, state>>
     \/ /\ files[d][q] # None
        /\ Stop(d)
        /\ UNCHANGED files
  /\ UNCHANGED <<server, reply, disk, pendingFile, faults>>

CheckPut(d) ==
  /\ pc[d] = "apply" /\ work[d].deletes = {} /\ DOMAIN work[d].copies = {}
  /\ work[d].puts # {}
  /\ LET p == NextPut(d) IN
     \/ /\ files[d][p] = Remote(d)[p]
        /\ work' = [work EXCEPT ![d].puts = @ \ {p}]
        /\ UNCHANGED <<pc, state>>
     \/ /\ files[d][p] # Remote(d)[p]
        /\ AsScanned(d, p)
        /\ Goto(d, "write")
        /\ UNCHANGED <<state, work>>
     \/ /\ files[d][p] # Remote(d)[p]
        /\ ~AsScanned(d, p)
        /\ Stop(d)
  /\ UNCHANGED <<server, reply, files, disk, pendingFile, faults>>

WriteFile(d) ==
  /\ pc[d] = "write"
  /\ files' = [files EXCEPT ![d][NextPut(d)] = Remote(d)[NextPut(d)]]
  /\ work' = [work EXCEPT ![d].puts = @ \ {NextPut(d)}]
  /\ Goto(d, "apply")
  /\ UNCHANGED <<server, reply, disk, pendingFile, state, faults>>

(* All files of the batch are in place: the base advances. *)
Applied(d) ==
  work[d].deletes = {} /\ DOMAIN work[d].copies = {} /\ work[d].puts = {}

(* Seeded fault: the base is taken to be at the head. *)
BatchRevisionMutant(d) == work[d].head

BatchRevision(d) == work[d].end

SaveBatch(d) ==
  /\ pc[d] = "apply" /\ Applied(d)
  /\ SaveState(d, [revision |-> BatchRevision(d), digests |-> Remote(d), pending |-> None])
  /\ work' = [work EXCEPT ![d] = [NewWork EXCEPT
                !.round = work[d].round,
                !.merging = work[d].merging /\ work[d].end # work[d].head]]
  /\ Goto(d, "head")
  /\ UNCHANGED <<server, reply, files, pendingFile, faults>>

-----------------------------------------------------------------------------
(* push *)

(* planSync(base, local, base): every difference is a push. *)
Changed(d) == Pushes(Base(d), Local(d), Base(d))

PushedPuts(d) == {p \in Changed(d) \ work[d].large : Local(d)[p] # None}
PushedDeletes(d) == {p \in Changed(d) : Local(d)[p] = None}

(* Seeded fault: no check of names before a push. *)
LocalIsPortableMutant(d) == TRUE

LocalIsPortable(d) == Portable(Present(Local(d)))

PlanPush(d) ==
  /\ pc[d] = "scan" /\ work[d].ctx = "push" /\ work[d].todo = {}
  /\ \/ /\ LocalIsPortable(d)
        /\ work' = [work EXCEPT ![d].deletes = PushedDeletes(d),
                                ![d].puts = PushedPuts(d)]
        /\ Goto(d, "pack")
        /\ UNCHANGED state
     \/ /\ ~LocalIsPortable(d)
        /\ Stop(d)
  /\ UNCHANGED <<server, reply, files, disk, pendingFile, faults>>

(* Seeded fault: the change that did not fit is forgotten. *)
NextPacketMutant(d, p, value) == EmptyPacket

(* A change joins the packet; a packet that has no room for it is uploaded *)
(* first.                                                                  *)
NextPacket(d, p, value) == WithChange(EmptyPacket, p, value)

HasRoom(d, p, value) ==
  DOMAIN work[d].batch = {} \/ Estimate(work[d].batch) + Cost(p, value) <= PACKET_LIMIT

(* flush: the packet is encoded, which may throw, to be uploaded, and push *)
(* goes on with `rest`.                                                    *)
Flush(d, rest) ==
  \/ /\ Encodable(work[d].batch)
     /\ work' = [work EXCEPT ![d] = [rest EXCEPT !.body = work[d].batch]]
     /\ Goto(d, "persist")
     /\ UNCHANGED state
  \/ ~Encodable(work[d].batch) /\ Stop(d)

AddChange(d, p, value) ==
  LET rest == [work[d] EXCEPT !.deletes = @ \ {p}, !.puts = @ \ {p}] IN
    \/ /\ HasRoom(d, p, value)
       /\ work' = [work EXCEPT ![d] = [rest EXCEPT !.batch = WithChange(@, p, value)]]
       /\ UNCHANGED <<pc, state>>
    \/ /\ ~HasRoom(d, p, value)
       /\ Flush(d, [rest EXCEPT !.batch = NextPacket(d, p, value)])

PackDelete(d) ==
  /\ pc[d] = "pack" /\ work[d].deletes # {}
  /\ AddChange(d, NextDelete(d), None)
  /\ UNCHANGED <<server, reply, files, disk, pendingFile, faults>>

PackPut(d) ==
  /\ pc[d] = "pack" /\ work[d].deletes = {} /\ work[d].puts # {}
  /\ LET p == NextPut(d) IN
     \/ files[d][p] = Local(d)[p] /\ AddChange(d, p, Local(d)[p])
     \/ files[d][p] # Local(d)[p] /\ Stop(d)
  /\ UNCHANGED <<server, reply, files, disk, pendingFile, faults>>

(* The last flush of push, or its return when nothing is left. *)
FlushLast(d) ==
  /\ pc[d] = "pack" /\ work[d].deletes = {} /\ work[d].puts = {}
  /\ \/ /\ DOMAIN work[d].batch # {}
        /\ Flush(d, [work[d] EXCEPT !.batch = EmptyPacket])
     \/ /\ DOMAIN work[d].batch = {}
        /\ Goto(d, "done")
        /\ UNCHANGED <<state, work>>
  /\ UNCHANGED <<server, reply, files, disk, pendingFile, faults>>

(* Seeded fault: old bytes are not overwritten. *)
StoredPacketMutant(d) ==
  IF pendingFile[d] = None THEN work[d].body ELSE pendingFile[d]

(* upload: the bytes are stored before the record that refers to them. *)
StoredPacket(d) == work[d].body

PersistPacket(d) ==
  /\ pc[d] = "persist"
  /\ pendingFile' = [pendingFile EXCEPT ![d] = StoredPacket(d)]
  /\ Goto(d, "record")
  /\ UNCHANGED <<server, reply, files, disk, state, work, faults>>

(* A random ID is one that nothing in the system refers to. *)
UsedOps ==
  {log[r].op : r \in 1 .. Len(log)} \cup {m.op : m \in net}
  \cup {state[d].pending.op : d \in {e \in Devices : state[e].pending # None}}
  \cup {disk[d].pending.op :
          d \in {e \in Devices : disk[e] # None /\ disk[e].pending # None}}

NewOp(op) == op \notin UsedOps /\ \A other \in OpIds : other < op => other \in UsedOps

PendingUpload(d, op) ==
  [op |-> op, expected |-> state[d].revision, digest |-> work[d].body]

(* Seeded fault: the base advances before the server has confirmed. *)
RecordedStateMutant(d, op) ==
  [state[d] EXCEPT !.pending = PendingUpload(d, op),
                   !.digests = ApplyPacket(@, work[d].body)]

RecordedState(d, op) == [state[d] EXCEPT !.pending = PendingUpload(d, op)]

RecordPending(d) ==
  /\ pc[d] = "record"
  /\ \E op \in OpIds : NewOp(op) /\ SaveState(d, RecordedState(d, op))
  /\ Goto(d, "submit")
  /\ UNCHANGED <<server, reply, files, pendingFile, work, faults>>

(* The cycle returns its report. *)
Report(d) ==
  /\ pc[d] = "done"
  /\ Stop(d)
  /\ UNCHANGED <<server, reply, files, disk, pendingFile, faults>>

-----------------------------------------------------------------------------
(* Failures. *)

(* Where the engine may be writing sync-state.json. *)
Saving == {"submit", "reply", "head", "apply", "record"}

(* The network fails, the plugin is unloaded or the app is killed: the     *)
(* cycle ends where it is.  An upload on its way may still arrive, and     *)
(* sync-state.json or pending-upload.json, if it was being written, may be *)
(* damaged: a state that does not parse counts as none, and bytes with     *)
(* another digest than the recorded one as no bytes.  A note damaged in    *)
(* its writing is a content of its own, as if the user had made it.        *)
Interrupt(d) ==
  /\ faults < MaxFaults
  /\ faults' = faults + 1
  /\ pc[d] # "idle"
  /\ Stop(d)
  /\ reply' = [reply EXCEPT ![d] = None]
  /\ net' = {IF m.dev = d THEN [m EXCEPT !.late = TRUE] ELSE m : m \in net}
  /\ \/ UNCHANGED <<disk, pendingFile>>
     \/ /\ pc[d] \in Saving
        /\ disk' = [disk EXCEPT ![d] = None]
        /\ UNCHANGED pendingFile
     \/ /\ pc[d] = "persist"
        /\ pendingFile' = [pendingFile EXCEPT ![d] = None]
        /\ UNCHANGED disk
  /\ UNCHANGED <<log, files>>

(* sync-state.json is lost, or does not parse. *)
DamageState(d) ==
  /\ faults < MaxFaults
  /\ faults' = faults + 1
  /\ pc[d] = "idle" /\ disk[d] # None
  /\ disk' = [disk EXCEPT ![d] = None]
  /\ UNCHANGED <<server, reply, files, pendingFile, pc, state, work>>

-----------------------------------------------------------------------------
(* The steps of a device. *)

PullStep(d) ==
  \/ AskHead(d) \/ Fetch(d) \/ ListVault(d) \/ ReadFile(d) \/ PlanRemote(d)
  \/ CheckDelete(d) \/ TrashFile(d) \/ WriteCopy(d) \/ CheckPut(d) \/ WriteFile(d)
  \/ SaveBatch(d)

PushStep(d) ==
  \/ PlanPush(d) \/ PackDelete(d) \/ PackPut(d) \/ FlushLast(d)
  \/ PersistPacket(d) \/ RecordPending(d) \/ Report(d)

EngineStep(d) ==
  \/ LoadState(d) \/ SubmitPending(d) \/ UploadReply(d) \/ PullStep(d) \/ PushStep(d)

Failure(d) == Interrupt(d) \/ DamageState(d)
=============================================================================
