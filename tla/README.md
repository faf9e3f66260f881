# Verification of Own Sync

TLA+ models of Own Sync, the Obsidian plugin (`src/src`) and its server
(`src/server`), the TLC runs that check them, and TLAPS proofs about them.
Paths below are relative to the repository's `src/` (so `src/sync/engine.ts` is
`src/src/sync/engine.ts` in `PROJECT.json`). `PROJECT.json` maps each definition
to the lines it stands for and lists the hazards, runs, findings and theorems.

## The system

| Part | State | Operations | Talks to |
| --- | --- | --- | --- |
| Commit rule (`revision.rs`) | none | `decide_commit`: what becomes of an upload | called in the store's write transaction |
| Database (`store.rs`, `migrations/`) | users, devices, members, vaults with a revision, commits | bootstrap, users, devices, vaults, grant, revoke, commit, read, backup | SQLite; opened anew for each request and each command |
| HTTP API (`api.rs`) | requests in progress | `head`, `read_packet`, `commit_packet`, `capabilities` | plugin by HTTP, store |
| Sync engine (`engine.ts`) | `EngineState` in memory and in `sync-state.json`, `pending-upload.json`, `hash-cache.json` | one cycle: repeat the pending upload, pull, apply, push | vault, server and storage ports, all asynchronous |
| Planner (`plan.ts`) | none | three-way plan, portable names | engine |
| Packets (`packet.ts`, `capabilities.ts`, `files.ts`) | none | encode, decode, classify a reply, limits, path rules | engine |
| Scheduler and interface (`main.ts`) | timer, running and requested flags, settings | timers, vault events, manual sync | engine |
| Commands (`bootstrap.rs`, `backup_to`, `main.rs`) | credentials files, copies of the database | first owner, further devices, backup, serve | store, file system |
| Deployment, scripts | none | - | - |

A device's engine runs one cycle at a time, but every `await` of it - network,
vault, storage - lets the user edit, other devices commit, and the app be
killed. The server handles requests concurrently, each on connections of its
own; only SQLite's write transactions are serial. A vault's history is a list
of packets, one per revision; a device's *base* is the revision it has
confirmed and the digests of the files at it.

What is hard:

* **Interleaving at awaits.** The scan, the plan, the check before a write and
  the write happen at different moments of a vault that its user is editing.
* **Doubtful uploads.** A reply may be lost after the commit. The packet and its
  ID are kept in two files written one after the other, and a copy of the
  request may arrive later.
* **Interruption.** A cycle may end at any await; the next one starts from the
  files in the plugin's directory and must recognise its own half-done work.
* **Merges from an empty base**: first sync, damaged state, restored server.
* **Access that changes during a request**: three checks, one of which counts.
* **Commands over files and a database**, several at a time, that may fail,
  be killed or lose power between any two steps.
* **Timers and flags** of automatic sync, set by events that come during a
  cycle, in a hidden app or while the setting is being saved.
* **Agreement.** Conflict copies are uploaded too; devices must come to an end.

What makes each part correct: the commit rule and the database - one commit per
operation and per revision, a history without gaps, confirmation only of what
is stored, no vault without an owner; the API - the same for concurrent
requests, no commit without write access, no damaged bytes given out; the
engine - no version of a file disappears without its user, the base is what the
server has, a reported success is one, devices converge; the scheduler - every
change is eventually followed by a cycle; the commands - what they report is
done and stays, what fails leaves no access; packets - what is batched fits.

## Modules

| Module | Models | Uses |
| --- | --- | --- |
| `Revision` | `decide_commit` | |
| `Protocol` | replies: decision to status (`api.rs`), status to outcome (`packet.ts`) | `Revision` |
| `Plan` | `planSync`, packets as changes, portable names, names of conflict copies | |
| `PacketSize` | bytes of a packet (`encodePacket`), what the engine estimates for them (`putCost`, `deleteCost`), `maxFileBytes` | `Plan` |
| `SyncEngine` | `engine.ts`: the engines of several devices | `Protocol`, `PacketSize` |
| `SyncSystem` | the engines with their users, uploads in the network, the server, its restoration | `SyncEngine` |
| `Store` | `store.rs`: one action per transaction | `Revision` |
| `Api` | `api.rs`: uploads and reads in progress over `Store` | `Store`, `Protocol` |
| `Provision` | the commands: `bootstrap.rs`, `main.rs`, opening, migration and backup of `store.rs` | `Store` |
| `HashCache` | digests by mtime and size: `loadCache`, `scanLocal`, `saveCache` | |
| `Scheduler` | `main.ts`: timer, events, manual sync, the setting | `HashCache` |
| `VaultLog` | the promise of the server: a log that grows by new operations | |
| `StoreProofs`, `ApiProofs`, `ProvisionProofs`, `SchedulerProofs`, `EngineProofs`, `LossProofs`, `PacketProofs` | theorems about `Store`, `Api`, `Provision`, `Scheduler` and, the last three, `SyncSystem` | those |
| `MCSyncSystem`, `MCApi`, `MCProvision` | instances for TLC | |

**Engine.** `pc[d]` names the await at which the engine of device `d` is; an
action is the code up to the next one. `state` is the `EngineState` object,
`disk` and `pendingFile` are the two files, `work` holds the locals of the
cycle (`local`, `remote`, `deletes`, `copies`, `puts`, `batch`). A cycle goes
`idle` - `LoadState` - (`SubmitPending` - `UploadReply`) - `AskHead` - `Fetch`
for each revision of a batch - `ListVault`, `ReadFile` - `PlanRemote` -
`CheckDelete`/`TrashFile`, `WriteCopy`, `CheckPut`/`WriteFile` - `SaveBatch` -
back to `AskHead` until up to date - `ListVault`, `ReadFile` - `PlanPush` -
`PackDelete`, `PackPut` - `PersistPacket` - `RecordPending` - `SubmitPending` -
`Report`. `Stop` is every thrown error. A scan takes some digests at the
listing (files in the hash cache, oversized ones) and reads the others one by
one. `large` is the files that were listed as too large; a file that grows after
the listing is not among them, and the packet it is put into cannot be encoded,
which ends the cycle (`Flush`). `PackDelete` and `PackPut` estimate as the code
does and start the next packet when the estimate passes the limit. The deletion and the write of a file are steps of their own after its
check, because `currentDigest` awaits; a conflict copy is created right after
its `stat`. Failures: `Interrupt` ends a cycle at any await, leaves its upload
in the network and may damage `sync-state.json` or `pending-upload.json`, if it
was being written; `DamageState`
loses the state between cycles; `RemovePending` may fail silently, as in the
code. A note that is torn while the engine writes it is not an interruption of its
own: the engine cannot tell it from an edit that the user makes right after the
write, which the models have at that point. A path's digest is a number, `None` where the code's map has no key;
names, stamps and encodings are left out, and which copy names a note can have
is a constant.

**Server.** In `SyncSystem` it is the history and `decide_commit`; `Store` and
`Api` have it in full. `Store` does not take the schema's constraints as guards:
`SchemaHolds` shows that they are never hit. A step that returns an error is no
step. `Api` splits an upload as the code does: check of access before the body,
check before hashing, and the transaction with the last check, the decision and
the two writes. The replies it gives out are remembered in `answered`, the
packets in `served`; a client's repetition is another request that is the same.

`ApiSpec` starts with a vault and its
members - what `bootstrap_owner`, `create_user`, `issue_device` and `grant_member`
make -, `ServerSpec` with an empty database; `ImplementsStore` says that what
the requests do to the database are `Store`'s transactions, so that the proofs
about `Store` are about the server as well. `Corrupt` damages a stored packet:
`ServedAsCommitted` says that a reader does not get it, `ConfirmedIsIntact` that a
retry of its upload is not told it is stored. A request whose connection breaks
during its transaction is not stopped (`spawn_blocking`): it is one that stays
in its slot.

**Commands.** In `Provision` each command (`at[j]`) looks whether its target is
free, opens the database - which reads the version, and reads it again in the
transaction that migrates - changes it with an action of `Store`, writes its
file and gives it its name (`Persist`), and syncs the directory (`Finish`); for
bootstrap the sync of the database's directory follows (`FinishBootstrap`). Then
it reports. `file` tells apart the versions that `initialize_schema` does: version 1
without records is migrated; version 1 with vaults or commits is refused and left
alone (`LegacyVaultsNeedOwner`), as another program's file is. `entry` is what the paths hold, `durable` the names that are
synced; temporary files are not seen by anybody and are left out. `LosePower`
keeps or loses each name that is not synced and tears a file that was not. A
provision that fails after `Issue` goes to `Revoke`. `Serve` commits while a
server runs.

**Scheduler.** `timer`, `phase` (the cycle; `idle` is `syncRunning = false`),
`requested`, `automatic` and `hidden` are the plugin's fields. Delays are left
out: a timer that is set may fire at any time, and one set again is one timer. A
cycle is the scan of `HashCache` with its listing, reading and hashing as steps
of their own, remote writes, a push that reads the file again, and the writing
of the cache. One file stands for all; contents are numbered as they are
written, stamps as they change. A *quiet* edit leaves mtime and size alone.
`saves` is the calls of `setAutomaticSync` that wait for their save: the code has
no guard against a second one, and a call goes on with the value it was given. That
Obsidian ends the saves in the order they began is assumed; it is not in `src/`.

Definitions marked *Seeded fault* are wrong on purpose. Each stands before the
definition it would replace; `PROJECT.json` says which property notices it.

## Runs

`tlc -workers 2 -config <cfg> <module>`; states are distinct states.

| Run | Asks | States |
| --- | --- | --- |
| `EngineRaces` | edits of one note on two devices, in every interleaving with both engines, one change per packet and one revision per batch, a file that is too large or becomes so, users who settle conflicts: `NoSilentLoss`, `OnlyBaseIsReplaced`, `SuccessMeansSynced`, `BaseIsServerContents`, `PacketsFit` | 634 k |
| `EngineFaults` | edits with one fault anywhere: `BaseIsServerContents`, `PendingBytesAreStored`, `NoSilentLoss`, `FreshMergeKeepsFiles` | 632 k |
| `EngineClash` | two names that differ by case, edits and renames on two devices, one change per packet, the server restored from a backup at any point: `ServerIsPortable` until it is, `FreshMergeKeepsFiles` after it | 974 k |
| `EngineConverges` | `Convergence` under fairness, with one fault | 453 k |
| `Server` | from an empty database on: every order of administration, uploads up to the highest revision, reads, a damaged packet; `HeadStays`, `ServedAsCommitted`, refinement of `Store` | 105 k |
| `Api` | four uploads that race, repeat and reuse IDs; a change of access within a request; a packet damaged on disk: `AckedIsDurable`, `ConflictIsFinal`, `OnlyWritersCommit`, `ConfirmedIsIntact`, refinement of `VaultLog` | 710 k |
| `Provision` | two bootstraps, two provisions, a backup and a server at once, two faults: `ReportedCredentialsWork`, `ReportedBackupIsComplete`, `WholeFiles`, `FailedLeavesNoDevice`, `OnlyUnusableIsRefused` | 1.68 M |
| `Scheduler` | edits, timers, failures, a restart, the setting switched at any moment, with the hash cache: `EveryEditIsSynced` under fairness, `AutomaticIsAllowed`, `ScanIsCurrent`, `CacheTruthful` | 870 k |

The properties are stated with comments in `SyncSystem`, `Store`, `Api`,
`Provision`, `HashCache` and `Scheduler`.

**Bounds.** `Devices`: two; the engine never looks at who made a commit, so a
third device only adds commits that one of the two can make. The runs of safety
properties that pass take states that differ only by the devices' names as one
(`DeviceSymmetry`): no definition depends on which device is which. `Paths`: a note
and the names its conflict copies may take - two where concurrent edits can
make two copies. The instances list the names in the order the code's `sort()`
gives them, which TLC's `CHOOSE` follows: a conflict copy before its note. `MaxEdits`: 2 or 3, enough for edit against edit, edit against
deletion, an edit of a file being applied and one more while the answer to the
first is outstanding. `MaxFaults = 1`. `MAX_ROUNDS = 2` (8 in the code): with
two edits the rounds do run out, which the code answers with "busy".
`PULL_BATCH` counts revisions where the code counts bytes; the value 1 makes
every pull one of several parts. Packets are counted in bytes, on a small scale:
names of 320 bytes, `PACKET_RESERVE = 544` instead of 64 KiB, so that
`maxFileBytes` is 189 in a limit of 796. That limit makes a push of two changes
two packets, and 2000 makes it one. Files have 3 bytes, or exactly 189 in
`EngineClash` and `EngineRaces`, where one content has 252, which is too large. A
content above `maxFileBytes` fits into no packet (`OversizedAssumption`): the few
sizes that would fit, thanks to the reserve, are left out. `OpIds` has
more IDs than can be used: an ID is one that nothing refers to any more, as the
code's are random. `MAX_REVISION = 2` in the server's runs, so that the last
revision is reached; 1000 in the engine's, where it is not the question.
`EngineConverges` starts with an empty vault to keep the graph small.
`EditsInWindow = FALSE` in the runs that pass keeps users from editing a file
between its last check and its replacement, because of the first finding below;
`TakingCopies = FALSE` in `EngineFaults` and the runs below it, because of the
second; in `EngineRaces`, where users do take copies, one revision per batch
keeps the conflict and the deletion of its copy apart. `Edited` is the notes and
not the conflict copies, because of the last of the findings; `EngineRaces` still lets users put
a copy in place of its note.

In `Provision` every command is given once; the second provision acts with the
credentials that the first one writes, and asks for the path of the backup, so
that it may find it taken and its own access revoked. Two faults let both
provisions fail. The database file is absent, of the old version with or without
records, or another program's at first. `Users`, `Operations` and `Payloads` have one member there,
enough for a commit during a backup. In `Scheduler` two edits of which one may be quiet, one failed cycle and
one restart: an edit before, during and after a cycle. One choice is being saved at
a time. Two in flight pass as well, with some of the other bounds given up
(`MaxRestarts = 0`, 908 k states, or one edit that is not quiet and no failure, 279 k): a choice, a
second one and the undoing of the first come in every order.
`AutomaticCyclesAreAllowed` is for any number. In `EngineClash` three edits pass
without a restoration (`MaxRestores = 0`, 349 k); with one the graph is too large.
`Watched` names the uploads whose replies are remembered; `Server` checks
nothing of replies and remembers none.

**Deadlock** is checked, except in `Server`, which stops when every device is
revoked and no rows can be added, and in `Provision`, where commands end.

**Fairness.** `EngineConverges`: `WF(Sync(d))`, because the scheduler starts a
cycle every 30 seconds and after each error (`main.ts:153`, `252`), and a cycle
goes on because each of its awaits ends, with a result or an exception. Weak
fairness of the handling of an upload somebody waits for: HTTP requests are
answered or fail. Nothing is assumed of late copies of an upload, of users, or
of the choice between outcomes. With automatic sync switched off the assumption
does not hold, and nothing converges until the user syncs by hand.
`Scheduler`: a set timer fires, a cycle goes on, a setting is saved or is not.
Nothing is assumed of the poll, so that `EveryEditIsSynced` is what the events
alone achieve.

## Findings

Four runs are expected to fail; each checks a sentence of the repository.

1. `WindowEdit`: `applyRemote` compares a file and replaces it in a later step
   (`engine.ts:500-503`, `513-516`). An edit in between is overwritten, against
   `test/engine.test.mjs:408` and `docs/PACKET_V0.md:41`. The window is one read
   and one hash long.
2. `CopyReused`: a conflict copy found by the scan stands for the copy of a new
   conflict (`482-484`) even if the same batch deletes it (`499-505`). The
   remote version is gone, against `docs/ARCHITECTURE.md:55`.
3. `UnnoticedRestore`: a restored server that has been pushed to until its head
   reaches a device's revision looks like the old one (`398`), so that the base
   is not what `engine.ts:85` says it is.
4. `FreshMergeBatches`: a merge from an empty base that takes several batches
   moves a file to the trash when a later batch deletes what an earlier one
   matched, against `engine.ts:263` and `docs/PACKET_V0.md:44`. In one batch the
   same history deletes nothing.

The proof of `VersionsAreKept` led to one more, which has no run among these. A
device that pulls a settled conflict writes the conflict copy first and the new
note after it (`512-518`; names sort that way, `plan.ts:41`). In between the copy
looks like a duplicate of the note. A user who edits or removes it gives nothing
up, and then the note is replaced: the version is nowhere, against
`docs/ARCHITECTURE.md:55`. TLC finds it in one minute, in 63 states, with
`EngineFaults` changed to `Paths <- OneNote`, `Edited = {copy, note}`,
`MaxEdits = 3` and `MaxFaults = 0`.

## Proofs

Theorems hold for every value of the constants: any number of devices, users,
paths, requests, commands, edits, faults and revisions. Each rests on an
inductive invariant, which TLC checked first.

**`StoreProofs`**, from `MaxRevisionAssumption` (the highest revision is
positive) and `StoreAssumption` (finitely many users, `NoUser` is none of them):

* `TypeCorrect`: `TypeOK` is inductive. What an upload applies is the revision
  after the current one and in range (`AppliedIsNext`), which rests on
  `NewApplies` and `StoredNeverApplies` about `decide_commit`.
* `HistoryCorrect`: `SchemaHolds /\ HistoryIsContiguous`. The two are inductive
  only together and with `TypeOK`: that a new row's revision is unused needs
  that no row lies above the current revision; that the history is complete
  needs that `applied = expected + 1 = current + 1`. A damaged packet changes
  neither, and a new vault starts empty because no row can belong to a vault
  that has no revision.
* `OwnersRemain`: `VaultHasOwner`. `AnotherOwnerExists` turns the count of
  owners in `ensure_another_owner` into another owner, with the cardinality of
  finite sets; the owner who is left is not the one demoted or removed.

**`ApiProofs`**, from `ApiAssumption` (requests refer to the store's constants,
bodies are payloads) for both of the server's specifications:

* `ServerIsStore`, a refinement: each step of a request is a transaction of
  `Store` or changes no row. A request is checked three steps before it writes;
  the step needs that its expected revision is in range when it is hashed
  (`HashedInRange`), and that who may write to a vault has one. So
  `ServerKeepsSchema`: what is proved of `Store` holds of the server.
* `ApiTypeCorrect`: requests, replies and heads have their types, and what reaches
  the transaction expects a revision in range. `ApiTypeOK` serves the proofs and is
  in no run.
* `CommitsKept` says what any transaction does to the commits, seen from
  outside: old ones stay up to damage, at most one is added, at the next
  revision. `ToldHeadsStay`, `ReadersAgree`, `WritersCommit` and `AcksAreDurable`
  follow from it, with the history's invariants (`ReadInv`).
* `ConfirmationsAreIntact`: what a transaction confirms is either the row it adds or
  one it has found undamaged.
* `ConflictsAreFinal`: when a conflict was given, the vault had passed the
  revision the upload expects and no commit was the upload (`ConflictInv`); what
  is added later lies above the current revision.
* `ServerKeepsPromise`, the refinement of `VaultLog`: the mapping takes the
  commit of each revision with `CHOOSE`, and the proof that it is a function of
  the revision is `HistoryIsContiguous` again.

**`ProvisionProofs`**, from `ProvisionAssumption` (each command issues a device
of its own - IDs are random - for an existing user and vault). One invariant
serves all six theorems, `ProvisionInv`: where a command is, says what it has
read, of which kind the file is (`FileOK`: once it is refused for good, no command
goes on with it - which is `MigrationsDoNotClash`), what its path holds (`NamesOK`: a
name that a command has taken stays its own, and is durable when the command
reports), which devices have access (`DevicesOK`: a device has no row until its
command has acted, and only that command takes it back) and what a backup has
copied (`BackupOK`: all that had been reported when it began). `History` carries
`StoreProofs` into a database that is copied while it is written. Power may be
lost between any two steps.

**`SchedulerProofs`**, from `HashCacheAssumption` and `SchedulerAssumption` (the bound
on saves in flight is a number): `DigestsAreRight`,
`ScansAreCurrent` and `SchedulerTypeCorrect` by `CacheInv`, which adds to
`CacheTruthful` and `ScanIsCurrent` what a cycle has between its steps: the digest about to be remembered is right for the stamp of
the listing while the file has that stamp, unless a quiet edit came later
(`DigestIsRight`); nothing in the cache is newer than the file
(`NothingIsNewer`), and a full scan finds no entry.
`AutomaticCyclesAreAllowed` by `TimerIsAllowed`: a set timer means that automatic
sync is on, is being switched off, or could not be saved as off.

**`EngineProofs`** is about whole systems: engines, users, network and server.
From `SyncSystemAssumption` (devices start with the same portable files, `None`
is none of the values), `PacketSizeAssumption` (finitely many paths, a name fits
into the reserve with what surrounds it), `SyncEngineAssumption` and
`PlanAssumption`:

* `EngineTypeCorrect` and `PendingUploadsHaveBytes`: memory is `FreshState`
  between cycles and equals `sync-state.json` during one unless the file was
  lost, an upload is pending exactly while it is submitted, and
  `pending-upload.json` is written before and removed after the state that names
  it (`PendingInv`). Faults and restorations are included.
* `BasesAreRight`, until the server is restored: `BaseInv`. A confirmed
  upload may move the base only if the reply is about that very upload
  (`NetOK`, `ReplyOK`) and the log's entry has the bytes that are pending; a
  replayed one may be several revisions old, and its contents are then those of
  the history at that revision.
* `ReportsAreRight`, until the server is restored: at the end of a push, what
  is neither in the batch nor still to be packed is equal in the scan and in
  the base, or was listed as too large and is (`PushInv`).
* `EditsAreNotOverwritten`, if users do not edit a file between its check and
  its write; restorations are included. `PlanInv`: what is to be deleted or
  written is, in the scan, absent or in the base; the check compares with the
  scan, and in `trash` and `write` the file is the one checked.
* `FreshMergesKeepFiles`, with that condition and if the history fits into one
  batch of a pull: with an empty base nothing is planned for deletion, and a
  batch that ends at the head ends the merge (`MergeInv`).
* `ServerNamesArePortable`, until the server is restored (see below): each packet of a push
  either only deletes or follows all the deletions, so that what it makes of the
  contents it expects has names of the base or of the scan (`PacketFits`); late
  copies keep that, because they expect the same revision (`PortableInv`).

**`LossProofs`** is about the same systems and goes on from the invariants of
`EngineProofs` (`SystemInv`). `VersionsAreKept` is `NoSilentLoss` for any number
of devices, notes and edits, with every fault of the model. `NoSilentLoss` alone
is far from inductive: it says that a version is somewhere, and a step that takes
it away from one place needs to know why it may. `LossInv` says that of every
holder. A version is *settled* (`Settled`) when its user has replaced or dismissed
it, or when it is in a conflict copy; and whoever differs from a holder has
settled what it does not have:

* `HistoryKept`: what a later revision does not have of an earlier one is
  settled. An upload in the network (`UploadsKept`) and a pending one replace
  what is settled at the revision they expect - which is the current one if they
  are applied (`AppliedOnTop`).
* `BaseKept`: what the base says and the vault does not have is settled; `ScanKept`
  and `PushKept` the same of the scan and of the base it is compared with;
  `PacketKept` of the bytes to be uploaded.
* `ApplyKept`: during a pull, each path the plan still has to delete or write, or
  whose copy it still has to write, may differ; for all others what is pulled is
  already there, or settled. What is overwritten is, by `BaseIsServerContents`
  and `PlanInv`, an earlier revision's, so settled by `HistoryKept`.

That settled versions stay settled (`SettledStays`) is where the conflict copies
come in: nobody removes one, because `CopyNames` are never settled.

**`PacketProofs`**, on the invariants of `EngineProofs`: `PacketsAlwaysFit` is
`PacketsFit` for all sizes of files and names, any limit and reserve that
`PacketSizeAssumption` allows and any number of changes, with faults and
restorations. `Total`, the sum in the estimate, is the number of pairs of a path
and a byte, so that the lemmas on finite sets carry the arithmetic: it grows with
its parts (`TotalGrows`), and one change adds at most its cost (`TotalAdds`,
`EstimateAdds`). No change takes more bytes than it costs (`CostBounds`,
`EstimateBounds`), and a file of at most `maxFileBytes` fits alone, Base64's
rounding included (`SmallFits`). `PackInv`: what is packed is estimated to fit, or
has a file in it that grew after its listing; no file that was listed as too
large is still to be put. `OversizedAssumption` is not needed.

The hypotheses on constants and behaviour are the ones the code needs. Without
them the statements are false, and TLC shows each: `UnnoticedRestore` (a server
that is restored; a restoration also takes back versions that only the server
had, and lets names clash, as described below), `WindowEdit` (an edit between check and write), `FreshMergeBatches` (a merge
in several batches), `CopyReused` (`TakingCopies`) and the last of the findings
(users who edit conflict copies). `NamesAreUnique` in `VersionsAreKept` says that
the time in a copy's name, to the second, makes it new (`engine.ts:486`): two
devices that make copies of one note in the same second may give two versions
the same name. TLC finds no loss in `EngineRaces` without this assumption, and
with users who take copies between their pulls.

Only model-checked: what of `NoSilentLoss` those hypotheses leave out, and the
four runs that are expected to fail. Out of the prover's reach and left to TLC:
`Convergence` and `EveryEditIsSynced` (liveness under fairness).

What the models show of the code without a document that says otherwise, and
what the properties therefore leave out:

* A restored server may come to hold a file and its twin. Device 1 edits `note` and
  uploads it, expecting revision 1; while the upload is on its way the server is
  restored to revision 0. Device 2 has renamed `note` to `Note`, notices the
  restoration and pushes `Note` as the new revision 1. The late upload is applied
  to it (`revision.rs:66`), though it was made for another revision 1. The addition
  of a rename in two packets can come late in the same way. Devices that pull the
  result stop with "names differ only by letter case" (`engine.ts:497`). TLC finds
  it in half a minute with `EngineClash` changed to `MaxEdits = 3`, if
  `ServerIsPortable` is stated without its condition `restores = 0`; it is claimed, and
  proved, of a server that has not been restored.
* A file that grows past `maxFileBytes` between the listing and its reading ends
  the cycle with an error (`engine.ts:538`, `packet.ts:104`), and with it the
  push of every other file. The next cycle lists it as too large. `PacketsFit`
  says that this is the only way to a packet that cannot be encoded.
* A cached digest that is wrong - the file was edited without a change of mtime
  and size - is not forgotten when the re-read finds another one
  (`engine.ts:502`, `515`, `552`): each automatic cycle ends as busy until
  "Sync now" scans everything.
* "Sync now" during a cycle becomes an automatic cycle, and none at all with
  automatic sync off (`main.ts:231`, `254`).
* A setting that cannot be saved leaves the timer that was set while it counted
  (`main.ts:190`).
* A provision whose file cannot be written and whose revocation fails too leaves
  a device with access (`bootstrap.rs:101`).
* A bootstrap that ends after its transaction leaves a database nobody has
  credentials for; `docs/BOOTSTRAP.md` says so.

## Not modelled

* The hash cache together with several files and devices: `SyncEngine` takes a
  cached digest for a right one, `HashCache` says when it is. The bytes of what
  is pulled (`PULL_BATCH` counts revisions). Syntax of paths, encodings, texts;
  names are taken to be well-formed Unicode, which JSON does not escape.
* Delays of timers, changes of the connection, two engines at once after a
  reload.
* A server without the experimental API, which has no database. Permissions of
  files, and directories on Windows, which are not synced there.
* SHA-256 is injective and random IDs are fresh. SQLite's transactions are
  atomic, serial and durable, as `synchronous = FULL` makes them, and make the
  name of their file durable.

## Plan

Done, in this order: `Revision`, `Protocol`, `Plan`, `SyncEngine` with
`SyncSystem`, `Store`, `Api` over `VaultLog`, `StoreProofs`, `Server` as a
refinement of `Store`, `Provision`, `HashCache` with `Scheduler`, `PacketSize`,
and the proofs about all of them. To come:

1. Two engines over one directory after a reload.
2. The bytes of a pull, as `PacketSize` has those of a push.
