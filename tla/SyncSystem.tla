----------------------------- MODULE SyncSystem -----------------------------
(***************************************************************************)
(* Several devices that run SyncEngine, their users, and the server they   *)
(* share: its handling of uploads (server/src/api.rs with the commit rule  *)
(* of server/src/revision.rs, in full in Api), and its restoration from a  *)
(* backup.  The history keeps the contents of the vault after each of its  *)
(* revisions; each edit makes a new content.                               *)
(***************************************************************************)
EXTENDS SyncEngine

CONSTANTS
  Edited,         \* bound: the paths the users edit
  MaxEdits,       \* bound: the edits of all users together
  MaxRestores,    \* bound: times the server is restored from a backup
  TakingCopies,   \* may a user put a conflict copy in place of its note?
  EditsInWindow,  \* may a user edit between the check of a file and its write?
  SharedStart     \* the files all devices start in sync with, NoFiles for none

StartContents == Cardinality(Present(SharedStart))
Contents == 1 .. StartContents + 2 * MaxEdits
Digests == [Paths -> Contents \cup {None}]
Packets == UNION {[changed -> Contents \cup {None}] : changed \in SUBSET Paths}

Pendings == [op : OpIds, expected : Revisions, digest : Packets]

(* A stored pending upload is for the revision it is stored with: what     *)
(* readState insists on.                                                   *)
StateFields == [revision : Revisions, digests : Digests, pending : Pendings \cup {None}]
States == {s \in StateFields : s.pending # None => s.pending.expected = s.revision}

Results ==
  {"applied", "replayed", "conflict", "operation_id_reused", "invalid_request",
   "revision_exhausted", "internal_error"}
Replies ==
  [status : {200, 201, 400, 409, 500}, result : Results, revision : Revisions \cup {-1}]

ASSUME SyncSystemAssumption ==
  /\ Edited \subseteq Paths
  /\ MaxEdits \in Nat /\ MaxRestores \in Nat
  /\ TakingCopies \in BOOLEAN /\ EditsInWindow \in BOOLEAN
  /\ SharedStart \in Digests /\ Portable(Present(SharedStart))
  /\ \A p \in Paths : SharedStart[p] \in (1 .. StartContents) \cup {None}
  /\ Contents \subseteq DOMAIN ContentBytes
  /\ None \notin Contents \cup Packets \cup Pendings \cup States \cup Replies

VARIABLES
  live,         \* ghost: <<path, content>> no user has replaced or dismissed
  edits,        \* contents made so far
  restores

user == <<live, edits>>
vars == <<log, net, reply, files, disk, pendingFile, pc, state, work, faults,
          live, edits, restores>>

-----------------------------------------------------------------------------
(* The server's history. *)

ContentsAt(revision) ==
  IF revision = 0 THEN NoFiles ELSE log[revision].contents
Now == ContentsAt(Len(log))

(* The stored commit of an operation, as decide_commit wants it. *)
Stored(op) ==
  IF \E r \in 1 .. Len(log) : log[r].op = op
    THEN LET r == CHOOSE r \in 1 .. Len(log) : log[r].op = op
         IN [operation_id |-> op, expected_revision |-> log[r].expected,
             payload_digest |-> log[r].body, applied_revision |-> r]
    ELSE NoCommit

DecisionFor(m) ==
  decide_commit(Len(log), Stored(m.op),
    [operation_id |-> m.op, expected_revision |-> m.expected,
     payload_digest |-> m.body])

(* commit_packet of a device that may write.  The device of a late upload  *)
(* no longer waits for the answer.                                         *)
HandleUpload(m) ==
  /\ log' = IF DecisionFor(m).kind = "Apply"
              THEN Append(log, [op |-> m.op, expected |-> m.expected, body |-> m.body,
                                contents |-> ApplyPacket(Now, m.body)])
              ELSE log
  /\ reply' = IF m.late THEN reply
              ELSE [reply EXCEPT ![m.dev] = CommitReply(DecisionFor(m))]
  /\ net' = net \ {m}
  /\ UNCHANGED <<files, disk, pendingFile, pc, state, work, faults, user, restores>>

(* The operator puts an older backup in place of the database. *)
Restore(revision) ==
  /\ restores < MaxRestores
  /\ restores' = restores + 1
  /\ log' = SubSeq(log, 1, revision)
  /\ UNCHANGED <<net, plugin, files, faults, user>>

-----------------------------------------------------------------------------
(* The users. *)

(* What a user who replaces or removes path p puts aside: the version seen *)
(* at p, and the version p is a conflict copy of.                          *)
Dismissed(d, p) ==
  {<<r, files[d][p]>> :
     r \in {p} \cup {q \in Paths : p \in CopiesOf[q] /\ files[d][q] # files[d][p]}}

MayEdit(d) == EditsInWindow \/ pc[d] \notin {"trash", "write"}

(* What the next edit writes: a content never seen before, or one of       *)
(* another size, if the instance has two sizes for this edit.              *)
NewContents ==
  LET plain == StartContents + edits + 1
      other == plain + MaxEdits
  IN {plain} \cup {c \in {other} : ContentBytes[c] # ContentBytes[plain]}

UserWrite(d, p) ==
  /\ edits < MaxEdits
  /\ MayEdit(d)
  /\ \E content \in NewContents :
       /\ files' = [files EXCEPT ![d][p] = content]
       /\ live' = (live \ Dismissed(d, p)) \cup {<<p, content>>}
  /\ edits' = edits + 1
  /\ UNCHANGED <<server, plugin, faults, restores>>

UserDelete(d, p) ==
  /\ edits < MaxEdits
  /\ MayEdit(d)
  /\ files[d][p] # None
  /\ files' = [files EXCEPT ![d][p] = None]
  /\ live' = live \ Dismissed(d, p)
  /\ edits' = edits + 1
  /\ UNCHANGED <<server, plugin, faults, restores>>

(* A conflict is settled for the other version: the copy becomes the note. *)
UserTakeCopy(d, p, q) ==
  /\ TakingCopies
  /\ edits < MaxEdits
  /\ MayEdit(d)
  /\ files[d][q] \notin {None, files[d][p]}
  /\ files' = [files EXCEPT ![d][p] = files[d][q], ![d][q] = None]
  /\ live' = live \ {<<p, files[d][p]>>, <<q, files[d][q]>>}
  /\ edits' = edits + 1
  /\ UNCHANGED <<server, plugin, faults, restores>>

UserStep(d) ==
  \E p \in Edited :
    \/ UserWrite(d, p)
    \/ UserDelete(d, p)
    \/ \E q \in CopiesOf[p] : UserTakeCopy(d, p, q)

-----------------------------------------------------------------------------
(* The specification. *)

StartLog ==
  IF SharedStart = NoFiles THEN <<>>
  ELSE <<[op |-> 0, expected |-> 0, contents |-> SharedStart,
          body |-> [p \in Present(SharedStart) |-> SharedStart[p]]]>>

StartDisk ==
  IF SharedStart = NoFiles THEN None
  ELSE [revision |-> 1, digests |-> SharedStart, pending |-> None]

Init ==
  /\ log = StartLog
  /\ net = {}
  /\ reply = [d \in Devices |-> None]
  /\ files = [d \in Devices |-> SharedStart]
  /\ disk = [d \in Devices |-> StartDisk]
  /\ pendingFile = [d \in Devices |-> None]
  /\ pc = [d \in Devices |-> "idle"]
  /\ state = [d \in Devices |-> FreshState]
  /\ work = [d \in Devices |-> NewWork]
  /\ live = {version \in Paths \X Contents :
               \E q \in {version[1]} \cup CopiesOf[version[1]] :
                 SharedStart[q] = version[2]}
  /\ edits = 0 /\ faults = 0 /\ restores = 0

ServerStep ==
  \/ \E m \in net : HandleUpload(m)
  \/ \E revision \in 0 .. Len(log) : Restore(revision)

(* A step of the engine leaves the users and the operator alone. *)
Sync(d) == EngineStep(d) /\ UNCHANGED <<user, restores>>
Fail(d) == Failure(d) /\ UNCHANGED <<user, restores>>

Next ==
  \/ ServerStep
  \/ \E d \in Devices : UserStep(d) \/ Sync(d) \/ Fail(d)

Spec == Init /\ [][Next]_vars

(* The scheduler runs a cycle every 30 seconds, a cycle goes on as long as *)
(* its awaits return, and the server answers a request somebody waits for. *)
Fairness ==
  /\ \A d \in Devices : WF_vars(Sync(d))
  /\ \A d \in Devices :
       WF_vars(\E m \in net : m.dev = d /\ ~m.late /\ HandleUpload(m))

FairSpec == Spec /\ Fairness

-----------------------------------------------------------------------------
(* Properties. *)

Labels ==
  {"idle", "submit", "reply", "head", "fetch", "list", "scan", "apply", "trash",
   "write", "pack", "persist", "record", "done"}

Entries == [op : OpIds, expected : Revisions, body : Packets, contents : Digests]
Uploads == [dev : Devices, op : OpIds, expected : Revisions, body : Packets, late : BOOLEAN]

Works ==
  [ctx : {"pull", "push"}, round : Nat, head : Revisions, end : Revisions,
   remote : Digests, local : Digests, todo : SUBSET Paths,
   large : SUBSET Paths, deletes : SUBSET Paths, copies : Packets, puts : SUBSET Paths,
   batch : Packets, body : Packets, merging : BOOLEAN]

(* Every variable has its type, and what a state file says fits together.  *)
SystemTypeOK ==
  /\ log \in Seq(Entries)
  /\ Len(log) \in Revisions
  /\ net \subseteq Uploads
  /\ reply \in [Devices -> Replies \cup {None}]
  /\ files \in [Devices -> Digests]
  /\ disk \in [Devices -> States \cup {None}]
  /\ pendingFile \in [Devices -> Packets \cup {None}]
  /\ pc \in [Devices -> Labels]
  /\ state \in [Devices -> States]
  /\ work \in [Devices -> Works]
  /\ faults \in Nat /\ edits \in 0 .. MaxEdits /\ restores \in Nat
  /\ live \subseteq Paths \X Contents

(* A state whose revision the server does not have any more is reset by    *)
(* the next pull; any other one must be right.                             *)
IsBase(s) == s.revision <= Len(log) => s.digests = ContentsAt(s.revision)

(* "The confirmed base: server contents at `revision`" (engine.ts, the     *)
(* comment on EngineState): in memory and in sync-state.json, whatever     *)
(* uploads were lost, repeated or answered late.                           *)
BaseIsServerContents ==
  \A d \in Devices : IsBase(state[d]) /\ (disk[d] # None => IsBase(disk[d]))

(* A sync-state.json that names a pending upload is never without the      *)
(* bytes of that upload, wherever the plugin was killed: otherwise a       *)
(* change the server may have accepted would be planned a second time.     *)
PendingBytesAreStored ==
  \A d \in Devices :
    disk[d] # None /\ disk[d].pending # None => pendingFile[d] = disk[d].pending.digest

(* A cycle that reports success has seen local files equal to the server's *)
(* contents at the revision it reports, except for files it listed as too  *)
(* large.                                                                  *)
SuccessMeansSynced ==
  \A d \in Devices : pc[d] = "done" /\ state[d].revision <= Len(log) =>
    \A p \in Paths :
      \/ Local(d)[p] = ContentsAt(state[d].revision)[p]
      \/ p \in work[d].large /\ Local(d)[p] \in Oversized

(* "Largest file that always fits into one packet under `packetLimit`"     *)
(* (engine.ts): what push has packed can be encoded, whatever its costs    *)
(* were estimated at, unless a file grew between the scan's listing, which *)
(* found it small enough, and its reading.                                 *)
PacketsFit ==
  \A d \in Devices :
    LET batch == work[d].batch IN
      \/ Encodable(batch)
      \/ \E p \in DOMAIN batch \ work[d].large : batch[p] \in Oversized

(* Where a user can still find a version of p. *)
Visible(p, content) ==
  \E q \in {p} \cup CopiesOf[p] :
    Now[q] = content \/ \E d \in Devices : files[d][q] = content

(* "No version disappears silently" (docs/ARCHITECTURE.md): a version that *)
(* no user replaced or dismissed is at its path or in a conflict copy,     *)
(* on some device or on the server, at every moment of every schedule.     *)
NoSilentLoss == \A version \in live : Visible(version[1], version[2])

(* The engine overwrites and removes only what the confirmed base holds,   *)
(* so never a local edit that has not been uploaded (test/engine.test.mjs: *)
(* "a local edit made during a remote apply is never overwritten").        *)
OnlyBaseIsReplaced ==
  [][edits' = edits =>
       \A d \in Devices, p \in Paths :
         files'[d][p] # files[d][p] => files[d][p] \in {None, Base(d)[p]}]_vars

(* No two paths of the server's contents exclude each other on a case-     *)
(* insensitive file system, at any revision, though a rename that changes  *)
(* only the case is uploaded as a deletion and an addition that may be in  *)
(* different packets (assertPortablePaths).  It is claimed for a server    *)
(* that is not restored: after a restore another device's commit may bring *)
(* the history to the revision that a late upload expects.                 *)
ServerIsPortable ==
  restores = 0 => \A r \in 0 .. Len(log) : Portable(Present(ContentsAt(r)))

(* While a fresh merge goes on - no state, a damaged one, or a server      *)
(* restored from a backup - the engine only adds files to the vault.       *)
FreshMergeKeepsFiles ==
  [][edits' = edits =>
       \A d \in Devices, p \in Paths :
         work[d].merging /\ files[d][p] # None => files'[d][p] = files[d][p]]_vars

(* "a fresh merge, which never deletes files" (engine.ts, loadState). *)
FreshMergeNeverDeletes ==
  [][edits' = edits =>
       \A d \in Devices, p \in Paths :
         work[d].merging /\ files[d][p] # None => files'[d][p] # None]_vars

(* "replanning from the base converges": once the users stop, all devices *)
(* come to hold the server's contents, and stay so.                        *)
InSync == \A d \in Devices : files[d] = Now
Convergence == <>[]InSync
=============================================================================
