---------------------------- MODULE EngineProofs ----------------------------
(***************************************************************************)
(* Proofs about SyncSystem - the sync engine on any number of devices,     *)
(* their users and the server - for any paths, contents and packets, any   *)
(* number of edits, rounds and faults.                                     *)
(***************************************************************************)
EXTENDS SyncSystem, SequenceTheorems, FiniteSetTheorems, TLAPS

-----------------------------------------------------------------------------
(* The inductive invariant. *)

(* Pending uploads. *)

(* Memory is forgotten between cycles and agrees with sync-state.json      *)
(* during one, unless that file was lost.                                  *)
MemoryOK(d) ==
  /\ pc[d] = "idle" => state[d] = FreshState /\ work[d] = NewWork
  /\ pc[d] # "idle" => disk[d] = state[d] \/ (disk[d] = None /\ state[d] = FreshState)
  /\ state[d].pending # None <=> pc[d] \in {"submit", "reply"}

(* The bytes in pending-upload.json are the ones the state refers to, or   *)
(* is about to.                                                            *)
BytesOK(d) ==
  /\ pc[d] = "reply" => PendingIsWhole(d)
  /\ pc[d] = "record" => pendingFile[d] = work[d].body
  /\ disk[d] # None /\ disk[d].pending # None => pendingFile[d] = disk[d].pending.digest

(* What a scan or an upload is part of. *)
ContextOK(d) ==
  /\ pc[d] \in {"idle", "head", "fetch", "apply", "trash", "write"} => work[d].ctx = "pull"
  /\ pc[d] \in {"pack", "persist", "record", "done"} => work[d].ctx = "push"

PendingInv == \A d \in Devices : MemoryOK(d) /\ BytesOK(d) /\ ContextOK(d)

-----------------------------------------------------------------------------
(* The base. *)

LogOK ==
  \A r \in 1 .. Len(log) : log[r].contents = ApplyPacket(ContentsAt(r - 1), log[r].body)

Known(s) == s.revision <= Len(log) /\ s.digests = ContentsAt(s.revision)

BaseOK(d) == Known(state[d]) /\ (disk[d] # None => Known(disk[d]))

(* What has been fetched is the server's contents at the last revision     *)
(* that was fetched.                                                       *)
Pulling(d) ==
  work[d].ctx = "pull" /\ pc[d] \in {"fetch", "list", "scan", "apply", "trash", "write"}

FetchedOK(d) ==
  Pulling(d) =>
    /\ work[d].end <= work[d].head /\ work[d].head <= Len(log)
    /\ pc[d] = "fetch" => work[d].end # work[d].head
    /\ Remote(d) = ContentsAt(work[d].end)

(* An upload that somebody waits for is the one that is pending.           *)
NetOK ==
  \A m \in net : ~m.late =>
    /\ pc[m.dev] = "reply" /\ reply[m.dev] = None
    /\ m.op = state[m.dev].pending.op
    /\ m.expected = state[m.dev].pending.expected
    /\ m.body = pendingFile[m.dev]

(* A reply that confirms the pending upload is right: the server has the   *)
(* packet as the next revision after the base.                             *)
ReplyOK(d) ==
  reply[d] # None =>
    /\ pc[d] = "reply"
    /\ Outcome(d) \in {"applied", "replayed"} =>
         LET next == state[d].pending.expected + 1
         IN next <= Len(log) /\ log[next].body = pendingFile[d]

BaseInv ==
  LogOK /\ NetOK /\ \A d \in Devices : BaseOK(d) /\ FetchedOK(d) /\ ReplyOK(d)

-----------------------------------------------------------------------------
(* What is pushed. *)

Pushing(d) ==
  /\ work[d].ctx = "push"
  /\ pc[d] \in {"pack", "persist", "record", "submit", "reply", "done"}
Flushing(d) == pc[d] \in {"persist", "record", "submit", "reply"}

(* Every difference between the scan and the base is on its way, or was    *)
(* listed as too large.                                                    *)
OnItsWay(d) ==
  work[d].deletes \cup work[d].puts \cup DOMAIN work[d].batch
  \cup (IF Flushing(d) THEN DOMAIN work[d].body ELSE {})

PushOK(d) ==
  /\ Pushing(d) =>
       /\ \A p \in Paths :
            Local(d)[p] # Base(d)[p] => p \in OnItsWay(d) \/ p \in work[d].large
       /\ \A p \in work[d].deletes : Local(d)[p] = None
       /\ \A p \in work[d].puts : Local(d)[p] # None
       /\ \A p \in DOMAIN work[d].batch : work[d].batch[p] = Local(d)[p]
       /\ Flushing(d) => \A p \in DOMAIN work[d].body : work[d].body[p] = Local(d)[p]
       /\ pc[d] \in {"submit", "reply"} => pendingFile[d] = work[d].body
       /\ pc[d] = "done" => OnItsWay(d) = {}
  /\ ~Pushing(d) => DOMAIN work[d].batch = {}

(* A file listed as too large is not read after that.                      *)
LargeOK(d) ==
  \A p \in work[d].large : p \notin work[d].todo /\ Local(d)[p] \in Oversized

PushInv == \A d \in Devices : PushOK(d) /\ LargeOK(d)

-----------------------------------------------------------------------------
(* What is replaced. *)

(* What the plan replaces or removes is absent or in the base, and in the  *)
(* window it still is as it was scanned.                                   *)
PlanOK(d) ==
  /\ pc[d] \in {"apply", "trash", "write"} =>
       \A p \in work[d].deletes \cup work[d].puts : Local(d)[p] \in {None, Base(d)[p]}
  /\ pc[d] = "trash" => work[d].deletes # {} /\ AsScanned(d, NextDelete(d))
  /\ pc[d] = "write" => work[d].puts # {} /\ AsScanned(d, NextPut(d))

PlanInv == \A d \in Devices : PlanOK(d)

(* During a fresh merge the base is empty, and the batch ends at the head. *)
MergeOK(d) ==
  work[d].merging =>
    /\ work[d].ctx = "pull" /\ pc[d] \notin {"submit", "reply"}
    /\ Base(d) = NoFiles /\ state[d].revision = 0
    /\ Pulling(d) =>
         /\ work[d].end <= work[d].head /\ work[d].head <= PULL_BATCH
         /\ pc[d] = "fetch" <=> work[d].end # work[d].head

MergeInv == \A d \in Devices : MergeOK(d)

-----------------------------------------------------------------------------
(* Names. *)

(* What a packet makes of the contents it is for. *)
Fits(expected, packet) ==
  expected <= Len(log) /\ Portable(Present(ApplyPacket(ContentsAt(expected), packet)))

NamesOK(d) ==
  /\ Pushing(d) => Portable(Present(Local(d)))
  /\ Pushing(d) => work[d].deletes = {} \/ \A p \in DOMAIN work[d].batch : Local(d)[p] = None
  /\ pc[d] \in {"persist", "record"} => Fits(state[d].revision, work[d].body)
  /\ \A s \in {state[d], disk[d]} \ {None} :
       s.pending # None => Fits(s.revision, s.pending.digest)

AllPortable == \A r \in 0 .. Len(log) : Portable(Present(ContentsAt(r)))

PortableInv ==
  /\ AllPortable
  /\ \A m \in net : Fits(m.expected, m.body)
  /\ \A d \in Devices : NamesOK(d)

-----------------------------------------------------------------------------
(* Types of files and packets. *)

LEMMA PacketType ==
  ASSUME NEW changed \in SUBSET Paths, NEW packet \in [changed -> Contents \cup {None}]
  PROVE  packet \in Packets
  BY DEF Packets

LEMMA PacketParts ==
  ASSUME NEW packet \in Packets
  PROVE  /\ DOMAIN packet \in SUBSET Paths
         /\ packet \in [DOMAIN packet -> Contents \cup {None}]
  BY DEF Packets

LEMMA EmptyPacketType == EmptyPacket \in Packets /\ DOMAIN EmptyPacket = {}
<1>1. EmptyPacket \in [{} -> Contents \cup {None}] /\ DOMAIN EmptyPacket = {}
  BY DEF EmptyPacket
<1>2. {} \in SUBSET Paths
  OBVIOUS
<1> QED
  BY <1>1, <1>2, PacketType

LEMMA ApplyPacketType ==
  ASSUME NEW digests \in Digests, NEW packet \in Packets
  PROVE  ApplyPacket(digests, packet) \in Digests
  BY PacketParts DEF ApplyPacket, Digests

LEMMA WithChangeType ==
  ASSUME NEW packet \in Packets, NEW p \in Paths, NEW value \in Contents \cup {None}
  PROVE  /\ WithChange(packet, p, value) \in Packets
         /\ DOMAIN WithChange(packet, p, value) = DOMAIN packet \cup {p}
         /\ \A q \in DOMAIN packet \cup {p} :
              WithChange(packet, p, value)[q] = IF q = p THEN value ELSE packet[q]
<1>1. WithChange(packet, p, value) \in [DOMAIN packet \cup {p} -> Contents \cup {None}]
  BY PacketParts DEF WithChange
<1> QED
  BY <1>1, PacketParts, PacketType DEF WithChange

LEMMA FreshTypes ==
  /\ NoFiles \in Digests /\ FreshState \in States /\ NewWork \in Works
<1>1. NoFiles \in Digests
  BY DEF NoFiles, Digests
<1>2. 0 \in Revisions
  BY MaxRevisionAssumption DEF Revisions
<1> QED
  BY <1>1, <1>2, EmptyPacketType DEF FreshState, States, StateFields, NewWork, Works

LEMMA StateParts ==
  ASSUME NEW s \in States
  PROVE  /\ s.revision \in Revisions /\ s.digests \in Digests
         /\ s.pending \in Pendings \cup {None}
         /\ s.pending # None =>
              /\ s.pending.expected = s.revision /\ s.pending.op \in OpIds
              /\ s.pending.digest \in Packets
  BY DEF States, StateFields, Pendings

LEMMA LogEntry ==
  ASSUME SystemTypeOK, NEW r \in 1 .. Len(log)
  PROVE  /\ log[r].op \in OpIds /\ log[r].expected \in Revisions
         /\ log[r].body \in Packets /\ log[r].contents \in Digests
<1>1. log \in Seq(Entries)
  BY DEF SystemTypeOK
<1>2. log[r] \in Entries
  BY <1>1, ElementOfSeq
<1> QED
  BY <1>2 DEF Entries

LEMMA NoneIsNone ==
  /\ None \notin Packets /\ None \notin Pendings /\ None \notin States
  /\ None \notin Replies /\ None \notin Contents
  BY SyncSystemAssumption

-----------------------------------------------------------------------------
(* Types of the variables of a cycle. *)

LEMMA FirstIsIn ==
  ASSUME NEW S, S # {}
  PROVE  First(S) \in S
  BY DEF First

LEMMA StopTypes ==
  ASSUME SystemTypeOK, NEW d \in Devices, Stop(d)
  PROVE  /\ work' \in [Devices -> Works] /\ state' \in [Devices -> States]
         /\ pc' \in [Devices -> Labels]
  BY FreshTypes DEF SystemTypeOK, Stop, Labels

LEMMA WorkTypeStep ==
  ASSUME SystemTypeOK, NEW d \in Devices, EngineStep(d) \/ Failure(d)
  PROVE  work' \in [Devices -> Works]
<1> USE FreshTypes, EmptyPacketType DEF SystemTypeOK
<1>0. work[d] \in Works
  OBVIOUS
<1>1. ASSUME Stop(d)
      PROVE  work' \in [Devices -> Works]
  BY <1>1, StopTypes
<1>2. ASSUME NEW w \in Works, work' = [work EXCEPT ![d] = w]
      PROVE  work' \in [Devices -> Works]
  BY <1>2
<1>3. CASE LoadState(d)
  <2>1. work' = [work EXCEPT ![d] = [work[d] EXCEPT !.merging = (disk[d] = None)]]
    BY <1>3 DEF LoadState
  <2>2. [work[d] EXCEPT !.merging = (disk[d] = None)] \in Works
    BY <1>0 DEF Works
  <2> QED
    BY <1>2, <2>1, <2>2
<1>4. ASSUME AfterDrop(d)
      PROVE  work' \in [Devices -> Works]
  <2>1. ASSUME NewRound(d, work[d].round + 1)
        PROVE  work' \in [Devices -> Works]
    <3>1. work[d].round + 1 \in Nat /\ work[d].merging \in BOOLEAN
      BY <1>0 DEF Works
    <3>2. \A n \in Nat, b \in BOOLEAN : [NewWork EXCEPT !.round = n, !.merging = b] \in Works
      BY DEF Works
    <3> QED
      BY <1>2, <2>1, <3>1, <3>2 DEF NewRound
  <2> QED
    BY <1>1, <1>4, <2>1 DEF AfterDrop
<1>5. ASSUME Confirm(d)
      PROVE  work' \in [Devices -> Works]
  <2>1. work' = [work EXCEPT ![d] = [work[d] EXCEPT !.body = EmptyPacket]]
    BY <1>5 DEF Confirm
  <2>2. [work[d] EXCEPT !.body = EmptyPacket] \in Works
    BY <1>0 DEF Works
  <2> QED
    BY <1>2, <2>1, <2>2
<1>6. CASE SubmitPending(d) \/ UploadReply(d)
  BY <1>1, <1>4, <1>5, <1>6 DEF SubmitPending, UploadReply
<1>7. CASE AskHead(d)
  <2>1. CASE ResetBase(d)
    <3>1. work' = [work EXCEPT ![d] = [work[d] EXCEPT !.merging = TRUE]]
      BY <2>1 DEF ResetBase
    <3>2. [work[d] EXCEPT !.merging = TRUE] \in Works
      BY <1>0 DEF Works
    <3> QED
      BY <1>2, <3>1, <3>2
  <2>2. CASE UpToDate(d)
    <3>1. work' = [work EXCEPT ![d] = [work[d] EXCEPT !.ctx = "push", !.merging = FALSE]]
      BY <2>2 DEF UpToDate
    <3>2. [work[d] EXCEPT !.ctx = "push", !.merging = FALSE] \in Works
      BY <1>0 DEF Works
    <3> QED
      BY <1>2, <3>1, <3>2
  <2>3. CASE StartBatch(d)
    <3> DEFINE w == [work[d] EXCEPT !.head = Len(log), !.end = state[d].revision,
                                    !.remote = state[d].digests]
    <3>1. work' = [work EXCEPT ![d] = w]
      BY <2>3 DEF StartBatch
    <3>2. w \in Works
      BY <1>0, StateParts DEF Works
    <3> QED
      BY <1>2, <3>1, <3>2
  <2> QED
    BY <1>7, <2>1, <2>2, <2>3 DEF AskHead
<1>8. CASE Fetch(d)
  <2>1. CASE work[d].end + 1 <= Len(log)
    <3> DEFINE w == [work[d] EXCEPT !.end = work[d].end + 1,
                       !.remote = ApplyPacket(work[d].remote, log[work[d].end + 1].body)]
    <3>1. work[d].end \in Revisions /\ work[d].remote \in Digests
      BY <1>0 DEF Works
    <3>2. work' = [work EXCEPT ![d] = w]
      <4>1. ~(work[d].end + 1 > Len(log))
        BY <2>1, <3>1, MaxRevisionAssumption DEF Revisions
      <4>2. work' = [work EXCEPT ![d].end = work[d].end + 1,
              ![d].remote = ApplyPacket(@, log[work[d].end + 1].body)]
        BY <1>8, <4>1 DEF Fetch
      <4> QED
        BY <4>2
    <3>3. work[d].end + 1 \in 1 .. Len(log) /\ work[d].end + 1 \in Revisions
      BY <2>1, <3>1, MaxRevisionAssumption DEF Revisions
    <3>4. log[work[d].end + 1].body \in Packets
      BY <3>3, LogEntry
    <3>5. ApplyPacket(work[d].remote, log[work[d].end + 1].body) \in Digests
      BY <3>1, <3>4, ApplyPacketType
    <3>6. w \in Works
      BY <1>0, <3>3, <3>5 DEF Works
    <3> QED
      BY <1>2, <3>2, <3>6
  <2>2. CASE Stop(d)
    BY <1>1, <2>2
  <2> QED
    BY <1>8, <2>1, <2>2 DEF Fetch
<1>9. CASE ListVault(d)
  <2>1. PICK known \in SUBSET Present(files[d]) :
          work' = [work EXCEPT
            ![d].local = [p \in Paths |-> IF p \in known THEN files[d][p] ELSE None],
            ![d].todo = Present(files[d]) \ known,
            ![d].large = {p \in known : files[d][p] \in Oversized}]
    BY <1>9 DEF ListVault
  <2> DEFINE found == [p \in Paths |-> IF p \in known THEN files[d][p] ELSE None]
             large == {p \in known : files[d][p] \in Oversized}
             w == [work[d] EXCEPT !.local = found, !.todo = Present(files[d]) \ known,
                                  !.large = large]
  <2>2. found \in Digests
    BY DEF Digests
  <2> HIDE DEF found, large
  <2>3. work' = [work EXCEPT ![d] = w]
    BY <2>1 DEF found, large
  <2>4. w \in Works
    <3>1. large \subseteq Paths
      BY DEF large, Present
    <3> QED
      BY <1>0, <2>2, <3>1 DEF Works, Present
  <2> QED
    BY <1>2, <2>3, <2>4
<1>10. CASE ReadFile(d)
  <2> DEFINE p == First(work[d].todo)
             w == [work[d] EXCEPT !.local = [work[d].local EXCEPT ![p] = files[d][p]],
                                  !.todo = work[d].todo \ {p}]
  <2>1. p \in Paths /\ work[d].local \in Digests /\ files[d][p] \in Contents \cup {None}
    <3>1. p \in work[d].todo
      BY <1>10, FirstIsIn DEF ReadFile
    <3>2. work[d].todo \subseteq Paths /\ work[d].local \in Digests
      BY <1>0 DEF Works
    <3> QED
      BY <3>1, <3>2 DEF Digests
  <2>2. [work[d].local EXCEPT ![p] = files[d][p]] \in Digests
    BY <2>1 DEF Digests
  <2>3. work' = [work EXCEPT ![d] = w]
    BY <1>10 DEF ReadFile
  <2>4. w \in Works
    BY <1>0, <2>2 DEF Works
  <2> QED
    BY <1>2, <2>3, <2>4
<1>11. CASE PlanRemote(d)
  <2>1. CASE Stop(d)
    BY <1>1, <2>1
  <2>2. ASSUME NEW name \in [NeedCopy(d) -> Paths],
               work' = [work EXCEPT ![d].deletes = PlannedDeletes(d),
                                    ![d].copies = CopiesNamed(d, name),
                                    ![d].puts = PlannedPuts(d)]
        PROVE  work' \in [Devices -> Works]
    <3> DEFINE w == [work[d] EXCEPT !.deletes = PlannedDeletes(d),
                                    !.copies = CopiesNamed(d, name),
                                    !.puts = PlannedPuts(d)]
    <3>1. PlannedDeletes(d) \subseteq Paths /\ PlannedPuts(d) \subseteq Paths
      BY DEF PlannedDeletes, PlannedPuts, Incoming, Pulls, Conflicts
    <3>2. CopiesNamed(d, name) \in Packets
      <4>1. Remote(d) \in Digests
        BY <1>0 DEF Remote, Works
      <4>2. NeedCopy(d) \subseteq Paths
        BY DEF NeedCopy, Copied, Conflicts
      <4>3. CopiesNamed(d, name) \in
              [{name[p] : p \in DOMAIN name} -> Contents \cup {None}]
        BY <4>1, <4>2 DEF CopiesNamed, Digests
      <4>4. {name[p] : p \in DOMAIN name} \in SUBSET Paths
        OBVIOUS
      <4> QED
        BY <4>3, <4>4, PacketType
    <3>3. work' = [work EXCEPT ![d] = w]
      BY <2>2
    <3>4. w \in Works
      BY <1>0, <3>1, <3>2 DEF Works
    <3> QED
      BY <1>2, <3>3, <3>4
  <2> QED
    BY <1>11, <2>1, <2>2 DEF PlanRemote, CopyNamings
<1>12. ASSUME NEW S \in SUBSET Paths,
              \/ work' = [work EXCEPT ![d].deletes = S]
              \/ work' = [work EXCEPT ![d].puts = S]
       PROVE  work' \in [Devices -> Works]
  <2>1. \/ work' = [work EXCEPT ![d] = [work[d] EXCEPT !.deletes = S]]
        \/ work' = [work EXCEPT ![d] = [work[d] EXCEPT !.puts = S]]
    BY <1>12
  <2>2. /\ [work[d] EXCEPT !.deletes = S] \in Works
        /\ [work[d] EXCEPT !.puts = S] \in Works
    BY <1>0 DEF Works
  <2> QED
    BY <1>2, <2>1, <2>2
<1>13. CASE CheckDelete(d) \/ TrashFile(d) \/ CheckPut(d) \/ WriteFile(d)
  <2>1. /\ work[d].deletes \ {NextDelete(d)} \in SUBSET Paths
        /\ work[d].puts \ {NextPut(d)} \in SUBSET Paths
    BY <1>0 DEF Works
  <2> QED
    BY <1>1, <1>12, <1>13, <2>1 DEF CheckDelete, TrashFile, CheckPut, WriteFile
<1>14. CASE WriteCopy(d)
  <2> DEFINE q == NextCopy(d)
             rest == [r \in DOMAIN work[d].copies \ {q} |-> work[d].copies[r]]
             w == [work[d] EXCEPT !.copies = rest]
  <2>1. CASE Stop(d)
    BY <1>1, <2>1
  <2>2. CASE work' = [work EXCEPT ![d].copies = [r \in DOMAIN @ \ {q} |-> @[r]]]
    <3>1. work[d].copies \in Packets
      BY <1>0 DEF Works
    <3>2. rest \in Packets
      <4>1. rest \in [DOMAIN work[d].copies \ {q} -> Contents \cup {None}]
        BY <3>1, PacketParts
      <4> HIDE DEF rest
      <4> QED
        BY <3>1, <4>1, PacketParts, PacketType
    <3> HIDE DEF rest
    <3>3. work' = [work EXCEPT ![d] = w]
      BY <2>2 DEF rest
    <3>4. w \in Works
      BY <1>0, <3>2 DEF Works
    <3> QED
      BY <1>2, <3>3, <3>4
  <2> QED
    BY <1>14, <2>1, <2>2 DEF WriteCopy
<1>15. CASE SaveBatch(d)
  <2> DEFINE w == [NewWork EXCEPT !.round = work[d].round,
                     !.merging = work[d].merging /\ work[d].end # work[d].head]
  <2>1. work' = [work EXCEPT ![d] = w]
    BY <1>15 DEF SaveBatch
  <2>2. w \in Works
    BY <1>0 DEF Works
  <2> QED
    BY <1>2, <2>1, <2>2
<1>16. CASE PlanPush(d)
  <2> DEFINE w == [work[d] EXCEPT !.deletes = PushedDeletes(d), !.puts = PushedPuts(d)]
  <2>1. CASE Stop(d)
    BY <1>1, <2>1
  <2>2. CASE work' = [work EXCEPT ![d].deletes = PushedDeletes(d), ![d].puts = PushedPuts(d)]
    <3>1. work' = [work EXCEPT ![d] = w]
      BY <2>2
    <3>2. w \in Works
      BY <1>0 DEF Works, PushedDeletes, PushedPuts, Changed, Pushes
    <3> QED
      BY <1>2, <3>1, <3>2
  <2> QED
    BY <1>16, <2>1, <2>2 DEF PlanPush
<1>17. ASSUME NEW rest \in Works, Flush(d, rest)
       PROVE  work' \in [Devices -> Works]
  <2>1. [rest EXCEPT !.body = work[d].batch] \in Works
    BY <1>0 DEF Works
  <2> QED
    BY <1>1, <1>2, <1>17, <2>1 DEF Flush
<1>18. ASSUME NEW p \in Paths, NEW value \in Contents \cup {None}, AddChange(d, p, value)
       PROVE  work' \in [Devices -> Works]
  <2> DEFINE rest == [work[d] EXCEPT !.deletes = @ \ {p}, !.puts = @ \ {p}]
             joined == WithChange(work[d].batch, p, value)
             next == NextPacket(d, p, value)
  <2>1. joined \in Packets /\ next \in Packets
    BY <1>0, <1>18, WithChangeType DEF Works, NextPacket
  <2>2. rest \in Works /\ rest.batch = work[d].batch
    BY <1>0 DEF Works
  <2>3. \/ work' = [work EXCEPT ![d] = [rest EXCEPT !.batch = WithChange(@, p, value)]]
        \/ Flush(d, [rest EXCEPT !.batch = next])
    BY <1>18 DEF AddChange
  <2> HIDE DEF rest, next
  <2>4. [rest EXCEPT !.batch = WithChange(@, p, value)] \in Works
    <3>1. [rest EXCEPT !.batch = joined] \in Works
      <4> HIDE DEF joined
      <4> QED
        BY <2>1, <2>2 DEF Works
    <3> QED
      BY <2>2, <3>1
  <2>5. [rest EXCEPT !.batch = next] \in Works
    BY <2>1, <2>2 DEF Works
  <2> QED
    BY <1>2, <1>17, <2>3, <2>4, <2>5
<1>19. CASE PackDelete(d)
  <2>1. NextDelete(d) \in Paths
    BY <1>0, <1>19, FirstIsIn DEF PackDelete, NextDelete, Works
  <2> QED
    BY <1>18, <1>19, <2>1 DEF PackDelete
<1>20. CASE PackPut(d)
  <2>1. NextPut(d) \in Paths /\ Local(d) \in Digests
    BY <1>0, <1>20, FirstIsIn DEF PackPut, NextPut, Local, Works
  <2>2. Local(d)[NextPut(d)] \in Contents \cup {None}
    BY <2>1 DEF Digests
  <2> QED
    BY <1>1, <1>18, <1>20, <2>1, <2>2 DEF PackPut
<1>21. CASE FlushLast(d)
  <2>1. [work[d] EXCEPT !.batch = EmptyPacket] \in Works
    BY <1>0 DEF Works
  <2> QED
    BY <1>17, <1>21, <2>1 DEF FlushLast
<1>22. CASE PersistPacket(d) \/ RecordPending(d) \/ Report(d)
  BY <1>1, <1>22 DEF PersistPacket, RecordPending, Report
<1>23. CASE Failure(d)
  BY <1>1, <1>23 DEF Failure, Interrupt, DamageState
<1> QED
  BY <1>3, <1>6, <1>7, <1>8, <1>9, <1>10, <1>11, <1>13, <1>14, <1>15, <1>16, <1>19,
     <1>20, <1>21, <1>22, <1>23
  DEF EngineStep, PullStep, PushStep

-----------------------------------------------------------------------------
(* The packing of a packet, but for a packet that is too large. *)

Joined(d, p, value) ==
  /\ work' = [work EXCEPT ![d].batch = WithChange(work[d].batch, p, value),
                          ![d].deletes = @ \ {p}, ![d].puts = @ \ {p}]
  /\ UNCHANGED pc

Started(d, p, value) ==
  /\ work' = [work EXCEPT ![d].body = work[d].batch,
                          ![d].batch = NextPacket(d, p, value),
                          ![d].deletes = @ \ {p}, ![d].puts = @ \ {p}]
  /\ Goto(d, "persist")

Added(d, p, value) ==
  (Joined(d, p, value) \/ Started(d, p, value)) /\ UNCHANGED state

Flushed(d) ==
  /\ work' = [work EXCEPT ![d].body = work[d].batch, ![d].batch = EmptyPacket]
  /\ Goto(d, "persist")
  /\ UNCHANGED state

Finished(d) ==
  /\ DOMAIN work[d].batch = {}
  /\ Goto(d, "done") /\ UNCHANGED <<state, work>>

LEMMA AddChangeCases ==
  ASSUME SystemTypeOK, NEW d \in Devices, NEW p, NEW value, AddChange(d, p, value)
  PROVE  Added(d, p, value) \/ Stop(d)
<1> DEFINE rest == [work[d] EXCEPT !.deletes = @ \ {p}, !.puts = @ \ {p}]
<1>1. work \in [Devices -> Works] /\ work[d] \in Works
  BY DEF SystemTypeOK
<1>2. CASE /\ work' = [work EXCEPT ![d] = [rest EXCEPT !.batch = WithChange(@, p, value)]]
           /\ UNCHANGED <<pc, state>>
  <2>1. work' = [work EXCEPT ![d].batch = WithChange(work[d].batch, p, value),
                             ![d].deletes = @ \ {p}, ![d].puts = @ \ {p}]
    BY <1>1, <1>2 DEF Works
  <2> QED
    BY <1>2, <2>1 DEF Added, Joined
<1>3. CASE Flush(d, [rest EXCEPT !.batch = NextPacket(d, p, value)]) /\ ~Stop(d)
  <2> DEFINE next == NextPacket(d, p, value)
  <2>1. /\ work' = [work EXCEPT ![d] = [[rest EXCEPT !.batch = next] EXCEPT
                                          !.body = work[d].batch]]
        /\ Goto(d, "persist") /\ UNCHANGED state
    BY <1>3 DEF Flush
  <2> HIDE DEF next
  <2>2. work' = [work EXCEPT ![d].body = work[d].batch, ![d].batch = next,
                             ![d].deletes = @ \ {p}, ![d].puts = @ \ {p}]
    BY <1>1, <2>1 DEF Works
  <2> QED
    BY <2>1, <2>2 DEF Added, Started, next
<1> QED
  BY <1>2, <1>3 DEF AddChange

LEMMA FlushLastCases ==
  ASSUME SystemTypeOK, NEW d \in Devices, FlushLast(d)
  PROVE  Flushed(d) \/ Finished(d) \/ Stop(d)
<1>1. work \in [Devices -> Works] /\ work[d] \in Works
  BY DEF SystemTypeOK
<1>2. CASE Flush(d, [work[d] EXCEPT !.batch = EmptyPacket]) /\ ~Stop(d)
  <2>1. /\ work' = [work EXCEPT ![d] = [[work[d] EXCEPT !.batch = EmptyPacket] EXCEPT
                                          !.body = work[d].batch]]
        /\ Goto(d, "persist") /\ UNCHANGED state
    BY <1>2 DEF Flush
  <2>2. work' = [work EXCEPT ![d].body = work[d].batch, ![d].batch = EmptyPacket]
    BY <1>1, <2>1 DEF Works
  <2> QED
    BY <2>1, <2>2 DEF Flushed
<1> QED
  BY <1>2 DEF FlushLast, Finished

(* What listing and packing leave alone. *)
Same(d) ==
  /\ work'[d].ctx = work[d].ctx /\ work'[d].round = work[d].round
  /\ work'[d].head = work[d].head /\ work'[d].end = work[d].end
  /\ work'[d].remote = work[d].remote /\ work'[d].copies = work[d].copies
  /\ work'[d].merging = work[d].merging

LEMMA ListKeeps ==
  ASSUME SystemTypeOK, NEW d \in Devices, ListVault(d)
  PROVE  /\ Same(d) /\ pc[d] = "list" /\ pc'[d] = "scan" /\ UNCHANGED state
         /\ work'[d].batch = work[d].batch /\ work'[d].body = work[d].body
<1>1. work \in [Devices -> Works] /\ work[d] \in Works /\ pc \in [Devices -> Labels]
  BY DEF SystemTypeOK
<1>2. PICK found, todo, large :
        work' = [work EXCEPT ![d].local = found, ![d].todo = todo, ![d].large = large]
  BY DEF ListVault
<1>3. pc[d] = "list" /\ pc'[d] = "scan" /\ UNCHANGED state
  BY <1>1 DEF ListVault, Goto
<1> QED
  BY <1>1, <1>2, <1>3 DEF Same, Works

LEMMA PackKeeps ==
  ASSUME SystemTypeOK, NEW d \in Devices, PackDelete(d) \/ PackPut(d) \/ FlushLast(d), ~Stop(d)
  PROVE  /\ Same(d) /\ UNCHANGED state
         /\ pc[d] = "pack" /\ pc'[d] \in {"pack", "persist", "done"}
         /\ work'[d].local = work[d].local /\ work'[d].todo = work[d].todo
         /\ work'[d].large = work[d].large
<1>1. work \in [Devices -> Works] /\ work[d] \in Works /\ pc \in [Devices -> Labels]
  BY DEF SystemTypeOK
<1>2. pc[d] = "pack"
  BY DEF PackDelete, PackPut, FlushLast
<1>3. ASSUME NEW p, NEW value, Added(d, p, value)
      PROVE  /\ Same(d) /\ UNCHANGED state /\ pc'[d] \in {"pack", "persist"}
             /\ work'[d].local = work[d].local /\ work'[d].todo = work[d].todo
             /\ work'[d].large = work[d].large
  <2>1. CASE Joined(d, p, value)
    BY <1>1, <1>2, <1>3, <2>1 DEF Added, Joined, Same, Works
  <2>2. CASE Started(d, p, value)
    BY <1>1, <1>3, <2>2 DEF Added, Started, Same, Goto, Works
  <2> QED
    BY <1>3, <2>1, <2>2 DEF Added
<1>4. CASE PackDelete(d) \/ PackPut(d)
  <2>1. \E p, value : AddChange(d, p, value)
    BY <1>4 DEF PackDelete, PackPut
  <2>2. \E p, value : Added(d, p, value)
    BY <2>1, AddChangeCases
  <2> QED
    BY <1>2, <1>3, <2>2
<1>5. CASE FlushLast(d)
  <2>1. CASE Flushed(d)
    BY <1>1, <1>2, <2>1 DEF Flushed, Same, Goto, Works
  <2>2. CASE Finished(d)
    BY <1>1, <1>2, <2>2 DEF Finished, Same, Goto
  <2> QED
    BY <1>5, <2>1, <2>2, FlushLastCases
<1> QED
  BY <1>4, <1>5

-----------------------------------------------------------------------------
(* Types of the states. *)

LEMMA StateTypeStep ==
  ASSUME SystemTypeOK, PendingInv, NEW d \in Devices, EngineStep(d) \/ Failure(d)
  PROVE  state' \in [Devices -> States] /\ disk' \in [Devices -> States \cup {None}]
<1> DEFINE Goal == state' \in [Devices -> States] /\ disk' \in [Devices -> States \cup {None}]
<1>1. /\ state \in [Devices -> States] /\ disk \in [Devices -> States \cup {None}]
      /\ pendingFile \in [Devices -> Packets \cup {None}]
      /\ state[d] \in States /\ work[d] \in Works /\ FreshState \in States
  BY FreshTypes DEF SystemTypeOK
<1>2. ASSUME Stop(d), UNCHANGED disk \/ disk' = [disk EXCEPT ![d] = None]
      PROVE  Goal
  BY <1>1, <1>2 DEF Stop
<1>3. ASSUME NEW s \in States, SaveState(d, s)
      PROVE  Goal
  BY <1>1, <1>3 DEF SaveState
<1>4. ASSUME UNCHANGED <<state, disk>>
      PROVE  Goal
  BY <1>1, <1>4
<1>5. CASE LoadState(d)
  BY <1>1, <1>5 DEF LoadState
<1>6. [state[d] EXCEPT !.pending = None] \in States
  BY <1>1 DEF States, StateFields
<1>7. ASSUME AfterDrop(d)
      PROVE  Goal
  <2>1. CASE DropPending(d)
    BY <1>3, <1>6, <2>1 DEF DropPending
  <2>2. CASE Stop(d) /\ disk' = [disk EXCEPT ![d] = [state[d] EXCEPT !.pending = None]]
    BY <1>1, <1>6, <2>2 DEF Stop
  <2> QED
    BY <1>7, <2>1, <2>2 DEF AfterDrop
<1>8. CASE SubmitPending(d)
  BY <1>4, <1>7, <1>8 DEF SubmitPending
<1>9. CASE UploadReply(d)
  <2>1. ASSUME Outcome(d) \in {"applied", "replayed"}
        PROVE  ConfirmedState(d) \in States
    <3>1. state[d].pending # None /\ pendingFile[d] \in Packets
      BY <1>1, <1>9 DEF UploadReply, PendingInv, MemoryOK, BytesOK, PendingIsWhole
    <3>2. reply[d] \in Replies
      BY <1>9 DEF UploadReply, SystemTypeOK
    <3>3. reply[d].revision = state[d].pending.expected + 1
      BY <2>1 DEF Outcome, classifyUploadResponse
    <3>4. state[d].pending.expected + 1 \in Revisions
      <4>1. state[d].pending.expected \in Revisions
        BY <1>1, <3>1, StateParts
      <4> QED
        BY <3>2, <3>3, <4>1, MaxRevisionAssumption DEF Replies, Revisions
    <3>5. ApplyPacket(state[d].digests, pendingFile[d]) \in Digests
      BY <1>1, <3>1, StateParts, ApplyPacketType
    <3> QED
      BY <3>4, <3>5 DEF ConfirmedState, States, StateFields
  <2> QED
    BY <1>2, <1>3, <1>7, <1>9, <2>1 DEF UploadReply, Confirm
<1>10. CASE AskHead(d)
  BY <1>1, <1>3, <1>4, <1>10 DEF AskHead, ResetBase, ResetState, UpToDate, StartBatch
<1>11. CASE Fetch(d) \/ PlanRemote(d) \/ CheckDelete(d) \/ WriteCopy(d) \/ CheckPut(d)
  BY <1>2, <1>4, <1>11 DEF Fetch, PlanRemote, CheckDelete, WriteCopy, CheckPut
<1>12. CASE \/ ListVault(d) \/ ReadFile(d) \/ TrashFile(d) \/ WriteFile(d)
            \/ PersistPacket(d)
  BY <1>4, <1>12 DEF ListVault, ReadFile, TrashFile, WriteFile, PersistPacket
<1>13. CASE SaveBatch(d)
  <2>1. [revision |-> work[d].end, digests |-> work[d].remote, pending |-> None] \in States
    BY <1>1 DEF Works, States, StateFields
  <2> QED
    BY <1>3, <1>13, <2>1 DEF SaveBatch, BatchRevision, Remote
<1>14. CASE \/ PlanPush(d) \/ PackDelete(d) \/ PackPut(d) \/ FlushLast(d)
            \/ Report(d)
  BY <1>2, <1>4, <1>14
  DEF PlanPush, PackDelete, PackPut, AddChange, FlushLast, Flush, Report
<1>15. CASE RecordPending(d)
  <2>1. ASSUME NEW op \in OpIds
        PROVE  RecordedState(d, op) \in States
    <3>1. PendingUpload(d, op) \in Pendings /\ PendingUpload(d, op).expected = state[d].revision
      BY <1>1, StateParts DEF PendingUpload, Pendings, Works
    <3>2. [state[d] EXCEPT !.pending = PendingUpload(d, op)] \in States
      BY <1>1, <3>1 DEF States, StateFields
    <3> QED
      BY <3>2 DEF RecordedState
  <2> QED
    BY <1>3, <1>15, <2>1 DEF RecordPending
<1>16. CASE Failure(d)
  BY <1>1, <1>2, <1>16 DEF Failure, Interrupt, DamageState
<1> QED
  BY <1>5, <1>8, <1>9, <1>10, <1>11, <1>12, <1>13, <1>14, <1>15, <1>16
  DEF EngineStep, PullStep, PushStep

-----------------------------------------------------------------------------
(* Types of the rest. *)

LEMMA LabelStep ==
  ASSUME SystemTypeOK, NEW d \in Devices, EngineStep(d) \/ Failure(d)
  PROVE  pc' \in [Devices -> Labels]
<1> USE DEF Labels, Goto, Stop
<1>1. pc \in [Devices -> Labels]
  BY DEF SystemTypeOK
<1>2. CASE LoadState(d) \/ SubmitPending(d) \/ UploadReply(d)
  BY <1>1, <1>2 DEF LoadState, SubmitPending, UploadReply, AfterDrop, Confirm
<1>3. CASE PullStep(d)
  BY <1>1, <1>3
  DEF PullStep, AskHead, ResetBase, UpToDate, StartBatch, Fetch, ListVault, ReadFile,
      PlanRemote, CheckDelete, TrashFile, WriteCopy, CheckPut, WriteFile, SaveBatch
<1>4. CASE PushStep(d)
  BY <1>1, <1>4
  DEF PushStep, PlanPush, PackDelete, PackPut, AddChange, FlushLast, Flush,
      PersistPacket, RecordPending, Report
<1>5. CASE Failure(d)
  BY <1>1, <1>5 DEF Failure, Interrupt, DamageState
<1> QED
  BY <1>2, <1>3, <1>4, <1>5 DEF EngineStep

LEMMA FileTypeStep ==
  ASSUME SystemTypeOK, NEW d \in Devices, EngineStep(d) \/ Failure(d)
  PROVE  /\ files' \in [Devices -> Digests]
         /\ pendingFile' \in [Devices -> Packets \cup {None}]
<1>1. /\ files \in [Devices -> Digests] /\ files[d] \in Digests
      /\ pendingFile \in [Devices -> Packets \cup {None}] /\ work[d] \in Works
  BY DEF SystemTypeOK
<1>2. ASSUME UNCHANGED files, UNCHANGED pendingFile \/ RemovePending(d)
      PROVE  files' \in [Devices -> Digests] /\ pendingFile' \in [Devices -> Packets \cup {None}]
  BY <1>1, <1>2 DEF RemovePending
<1>3. ASSUME NEW p, NEW value \in Contents \cup {None},
             files' = [files EXCEPT ![d][p] = value], UNCHANGED pendingFile
      PROVE  files' \in [Devices -> Digests] /\ pendingFile' \in [Devices -> Packets \cup {None}]
  <2>1. [files[d] EXCEPT ![p] = value] \in Digests
    BY <1>1 DEF Digests
  <2>2. files' = [files EXCEPT ![d] = [files[d] EXCEPT ![p] = value]]
    BY <1>3
  <2> QED
    BY <1>1, <1>3, <2>1, <2>2
<1>4. CASE LoadState(d) \/ SubmitPending(d) \/ UploadReply(d) \/ Failure(d)
  <2>1. CASE UNCHANGED pendingFile \/ RemovePending(d)
    BY <1>2, <1>4, <2>1
    DEF LoadState, SubmitPending, UploadReply, Failure, Interrupt, DamageState
  <2>2. CASE Interrupt(d) /\ ~UNCHANGED pendingFile
    <3>1. UNCHANGED files /\ pendingFile' = [pendingFile EXCEPT ![d] = None]
      BY <2>2 DEF Interrupt
    <3> QED
      BY <1>1, <3>1
  <2> QED
    BY <1>4, <2>1, <2>2
    DEF LoadState, SubmitPending, UploadReply, AfterDrop, DropPending, Confirm, Failure,
        Interrupt, DamageState
<1>5. CASE \/ AskHead(d) \/ Fetch(d) \/ ListVault(d) \/ ReadFile(d) \/ PlanRemote(d)
           \/ CheckDelete(d) \/ CheckPut(d) \/ SaveBatch(d)
  BY <1>2, <1>5
  DEF AskHead, ResetBase, UpToDate, StartBatch, Fetch, ListVault, ReadFile,
      PlanRemote, CheckDelete, CheckPut, SaveBatch
<1>6. CASE TrashFile(d)
  BY <1>3, <1>6 DEF TrashFile
<1>7. CASE WriteCopy(d)
  <2>1. CASE UNCHANGED files
    BY <1>2, <1>7, <2>1 DEF WriteCopy
  <2>2. CASE DOMAIN work[d].copies # {}
             /\ files' = [files EXCEPT ![d][NextCopy(d)] = work[d].copies[NextCopy(d)]]
    <3>1. work[d].copies[NextCopy(d)] \in Contents \cup {None}
      <4>1. NextCopy(d) \in DOMAIN work[d].copies
        BY <2>2, FirstIsIn DEF NextCopy
      <4>2. work[d].copies \in Packets
        BY <1>1 DEF Works
      <4> QED
        BY <4>1, <4>2, PacketParts
    <3> QED
      BY <1>3, <1>7, <2>2, <3>1 DEF WriteCopy
  <2> QED
    BY <1>7, <2>1, <2>2 DEF WriteCopy
<1>8. CASE WriteFile(d)
  <2>1. CASE NextPut(d) \in Paths
    <3>1. Remote(d)[NextPut(d)] \in Contents \cup {None}
      BY <1>1, <2>1 DEF Remote, Works, Digests
    <3> QED
      BY <1>3, <1>8, <3>1 DEF WriteFile
  <2>2. CASE NextPut(d) \notin Paths
    <3>1. files' = [files EXCEPT ![d] = [files[d] EXCEPT ![NextPut(d)] = Remote(d)[NextPut(d)]]]
      BY <1>8 DEF WriteFile
    <3>2. [files[d] EXCEPT ![NextPut(d)] = Remote(d)[NextPut(d)]] \in Digests
      BY <1>1, <2>2 DEF Digests
    <3> QED
      BY <1>1, <1>8, <3>1, <3>2 DEF WriteFile
  <2> QED
    BY <2>1, <2>2
<1>9. CASE PersistPacket(d)
  <2>1. work[d].body \in Packets
    BY <1>1 DEF Works
  <2> QED
    BY <1>1, <1>9, <2>1 DEF PersistPacket, StoredPacket
<1>10. CASE \/ PlanPush(d) \/ PackDelete(d) \/ PackPut(d) \/ FlushLast(d)
            \/ RecordPending(d) \/ Report(d)
  BY <1>2, <1>10 DEF PlanPush, PackDelete, PackPut, FlushLast, RecordPending, Report
<1> QED
  BY <1>4, <1>5, <1>6, <1>7, <1>8, <1>9, <1>10 DEF EngineStep, PullStep, PushStep

LEMMA NetTypeStep ==
  ASSUME SystemTypeOK, PendingInv, NEW d \in Devices, EngineStep(d) \/ Failure(d)
  PROVE  /\ net' \subseteq Uploads /\ reply' \in [Devices -> Replies \cup {None}]
         /\ UNCHANGED log /\ faults' \in Nat
<1>1. /\ net \subseteq Uploads /\ reply \in [Devices -> Replies \cup {None}] /\ faults \in Nat
      /\ state[d] \in States /\ pendingFile[d] \in Packets \cup {None}
  BY DEF SystemTypeOK
<1>2. ASSUME UNCHANGED <<server, reply, faults>>
      PROVE  /\ net' \subseteq Uploads /\ reply' \in [Devices -> Replies \cup {None}]
             /\ UNCHANGED log /\ faults' \in Nat
  BY <1>1, <1>2 DEF server
<1>3. CASE SubmitPending(d)
  <2>1. CASE UNCHANGED net
    BY <1>1, <1>3, <2>1 DEF SubmitPending
  <2>2. ASSUME PendingIsWhole(d)
        PROVE  [dev |-> d, op |-> state[d].pending.op,
                expected |-> state[d].pending.expected,
                body |-> pendingFile[d], late |-> FALSE] \in Uploads
    <3>1. state[d].pending # None
      BY <1>3 DEF SubmitPending, PendingInv, MemoryOK
    <3> QED
      BY <1>1, <2>2, <3>1, StateParts DEF Uploads, PendingIsWhole
  <2> QED
    BY <1>1, <1>3, <2>1, <2>2 DEF SubmitPending
<1>4. CASE UploadReply(d)
  BY <1>1, <1>4 DEF UploadReply, server
<1>5. CASE Failure(d)
  <2>1. ASSUME NEW m \in net
        PROVE  [m EXCEPT !.late = TRUE] \in Uploads
    BY <1>1 DEF Uploads
  <2> QED
    BY <1>1, <1>5, <2>1 DEF Failure, Interrupt, DamageState, server
<1>6. CASE LoadState(d) \/ PullStep(d) \/ PushStep(d)
  BY <1>2, <1>6
  DEF LoadState, PullStep, AskHead, Fetch, ListVault, ReadFile, PlanRemote, CheckDelete,
      TrashFile, WriteCopy, CheckPut, WriteFile, SaveBatch, PushStep, PlanPush,
      PackDelete, PackPut, FlushLast, PersistPacket, RecordPending, Report
<1> QED
  BY <1>3, <1>4, <1>5, <1>6 DEF EngineStep
-----------------------------------------------------------------------------
(* What the server makes of an upload. *)

LEMMA LengthIsRevision ==
  ASSUME SystemTypeOK
  PROVE  Len(log) \in Nat /\ Len(log) <= MAX_REVISION /\ MAX_REVISION \in Nat
  BY MaxRevisionAssumption DEF SystemTypeOK, Revisions

(* An upload is applied only on top of the revision it is for.             *)
LEMMA AppliedOnTop ==
  ASSUME SystemTypeOK, NEW m \in net, DecisionFor(m).kind = "Apply"
  PROVE  /\ m.expected = Len(log) /\ Len(log) < MAX_REVISION
         /\ DecisionFor(m).revision = Len(log) + 1
<1> DEFINE request == [operation_id |-> m.op, expected_revision |-> m.expected,
                       payload_digest |-> m.body]
<1>1. DecideStored(Len(log), Stored(m.op), request).kind # "Apply"
  BY DEF DecideStored, Decision
<1>2. DecisionFor(m) = DecideNew(Len(log), request)
  BY <1>1 DEF DecisionFor, decide_commit, Decision
<1>3. /\ m.expected = Len(log) /\ Len(log) # MAX_REVISION
      /\ DecisionFor(m).revision = Len(log) + 1
  BY <1>2 DEF DecideNew, Decision
<1> QED
  BY <1>3, LengthIsRevision

(* An upload is replayed only if its own packet is the next revision after *)
(* the one it is for.                                                      *)
LEMMA ReplayedIsStored ==
  ASSUME SystemTypeOK, NEW m \in net, DecisionFor(m).kind = "Replay"
  PROVE  \E r \in 1 .. Len(log) :
           /\ r = m.expected + 1 /\ DecisionFor(m).revision = r
           /\ log[r].op = m.op /\ log[r].body = m.body
<1> DEFINE request == [operation_id |-> m.op, expected_revision |-> m.expected,
                       payload_digest |-> m.body]
           found == CHOOSE r \in 1 .. Len(log) : log[r].op = m.op
           commit == [operation_id |-> m.op, expected_revision |-> log[found].expected,
                      payload_digest |-> log[found].body, applied_revision |-> found]
<1>1. DecideNew(Len(log), request).kind # "Replay"
  BY DEF DecideNew, Decision
<1>2. /\ Stored(m.op) # NoCommit
      /\ DecisionFor(m) = DecideStored(Len(log), Stored(m.op), request)
  BY <1>1 DEF DecisionFor, decide_commit, Decision
<1>3. /\ SameRequest(Stored(m.op), request) /\ FitsHistory(Len(log), Stored(m.op))
      /\ DecisionFor(m).revision = Stored(m.op).applied_revision
  BY <1>2 DEF DecideStored, Decision
<1>4. \E r \in 1 .. Len(log) : log[r].op = m.op
  BY <1>2 DEF Stored
<1>5. found \in 1 .. Len(log) /\ log[found].op = m.op
  BY <1>4
<1>6. Stored(m.op) = commit
  BY <1>4 DEF Stored
<1> HIDE DEF found
<1>7. log[found].body = m.body /\ found = m.expected + 1 /\ DecisionFor(m).revision = found
  BY <1>3, <1>6 DEF SameRequest, FitsHistory
<1> QED
  BY <1>5, <1>7

LEMMA DecisionRevision ==
  ASSUME SystemTypeOK, NEW m \in net
  PROVE  DecisionFor(m).revision \in Revisions
<1> DEFINE request == [operation_id |-> m.op, expected_revision |-> m.expected,
                       payload_digest |-> m.body]
<1>1. 0 \in Revisions /\ Len(log) \in Revisions
  BY MaxRevisionAssumption DEF SystemTypeOK, Revisions
<1>2. CASE DecisionFor(m).kind = "Apply"
  BY <1>2, AppliedOnTop, LengthIsRevision DEF Revisions
<1>3. CASE DecisionFor(m).kind = "Replay"
  <2>1. PICK r \in 1 .. Len(log) : DecisionFor(m).revision = r
    BY <1>3, ReplayedIsStored
  <2> QED
    BY <2>1, LengthIsRevision DEF Revisions
<1>4. CASE DecisionFor(m).kind \notin {"Apply", "Replay"}
  <2>1. DecideStored(Len(log), Stored(m.op), request).kind # "Replay" =>
          DecideStored(Len(log), Stored(m.op), request).revision = 0
    BY DEF DecideStored, Decision
  <2>2. DecideNew(Len(log), request).kind # "Apply" =>
          DecideNew(Len(log), request).revision \in {0, Len(log)}
    BY DEF DecideNew, Decision
  <2> HIDE DEF request
  <2>3. DecisionFor(m) \in {Decision("InvalidRevision", 0),
                             DecideStored(Len(log), Stored(m.op), request),
                             DecideNew(Len(log), request)}
    BY DEF DecisionFor, decide_commit, request
  <2> QED
    BY <1>1, <1>4, <2>1, <2>2, <2>3 DEF Decision
<1> QED
  BY <1>2, <1>3, <1>4

LEMMA CommitReplyType ==
  ASSUME NEW decision, decision.revision \in Revisions
  PROVE  CommitReply(decision) \in Replies
<1>1. \A status \in {200, 201, 400, 409, 500}, result \in Results :
        /\ Reply(status, result, decision.revision) \in Replies
        /\ Reply(status, result, -1) \in Replies
  BY DEF Reply, Replies
<1>2. /\ Reply(201, "applied", decision.revision) \in Replies
      /\ Reply(200, "replayed", decision.revision) \in Replies
      /\ Reply(409, "conflict", decision.revision) \in Replies
      /\ Reply(409, "operation_id_reused", -1) \in Replies
      /\ Reply(400, "invalid_request", -1) \in Replies
      /\ Reply(409, "revision_exhausted", -1) \in Replies
      /\ Reply(500, "internal_error", -1) \in Replies
  BY <1>1 DEF Results
<1>3. CommitReply(decision) \in
        {Reply(201, "applied", decision.revision), Reply(200, "replayed", decision.revision),
         Reply(409, "conflict", decision.revision), Reply(409, "operation_id_reused", -1),
         Reply(400, "invalid_request", -1), Reply(409, "revision_exhausted", -1),
         Reply(500, "internal_error", -1)}
  BY DEF CommitReply
<1> QED
  BY <1>2, <1>3

LEMMA ContentsAtType ==
  ASSUME SystemTypeOK, NEW r \in 0 .. Len(log)
  PROVE  ContentsAt(r) \in Digests
<1>1. CASE r = 0
  BY <1>1, FreshTypes DEF ContentsAt
<1>2. CASE r # 0
  <2>1. r \in 1 .. Len(log)
    BY <1>2, LengthIsRevision
  <2> QED
    BY <1>2, <2>1, LogEntry DEF ContentsAt
<1> QED
  BY <1>1, <1>2

(* The entry that an applied upload adds.                                  *)
NewEntry(m) ==
  [op |-> m.op, expected |-> m.expected, body |-> m.body,
   contents |-> ApplyPacket(Now, m.body)]

LEMMA HandledLog ==
  ASSUME SystemTypeOK, NEW m \in net, HandleUpload(m)
  PROVE  /\ log' \in Seq(Entries) /\ Len(log') \in Revisions
         /\ \/ log' = log
            \/ /\ DecisionFor(m).kind = "Apply" /\ log' = Append(log, NewEntry(m))
               /\ Len(log') = Len(log) + 1 /\ log'[Len(log) + 1] = NewEntry(m)
               /\ \A r \in 1 .. Len(log) : log'[r] = log[r]
<1>0. log \in Seq(Entries) /\ Len(log) \in Revisions
  BY DEF SystemTypeOK
<1>1. CASE DecisionFor(m).kind # "Apply"
  <2>1. log' = log
    BY <1>1 DEF HandleUpload
  <2> QED
    BY <1>0, <2>1
<1>2. CASE DecisionFor(m).kind = "Apply"
  <2>1. log' = Append(log, NewEntry(m))
    BY <1>2 DEF HandleUpload, NewEntry
  <2>2. NewEntry(m) \in Entries
    <3>1. m \in Uploads
      BY DEF SystemTypeOK
    <3>2. Now \in Digests
      BY ContentsAtType, LengthIsRevision DEF Now
    <3> QED
      BY <3>1, <3>2, ApplyPacketType DEF NewEntry, Entries, Uploads
  <2>3. /\ log' \in Seq(Entries) /\ Len(log') = Len(log) + 1
        /\ log'[Len(log) + 1] = NewEntry(m)
        /\ \A r \in 1 .. Len(log) : log'[r] = log[r]
    BY <1>0, <2>1, <2>2, AppendProperties
  <2>4. Len(log') \in Revisions
    BY <1>2, <2>3, AppliedOnTop, LengthIsRevision DEF Revisions
  <2> QED
    BY <1>2, <2>1, <2>3, <2>4
<1> QED
  BY <1>1, <1>2

LEMMA RestoredLog ==
  ASSUME SystemTypeOK, NEW revision \in 0 .. Len(log), Restore(revision)
  PROVE  /\ log' \in Seq(Entries) /\ Len(log') = revision /\ Len(log') \in Revisions
         /\ \A r \in 1 .. Len(log') : log'[r] = log[r]
<1>1. log \in Seq(Entries) /\ Len(log) \in Revisions
  BY DEF SystemTypeOK
<1>2. log' = SubSeq(log, 1, revision)
  BY DEF Restore
<1>3. revision \in Int /\ \A r \in 1 .. revision : log[r] \in Entries
  BY <1>1, LengthIsRevision, ElementOfSeq
<1>4. /\ log' \in Seq(Entries) /\ Len(log') = IF 1 <= revision THEN revision - 1 + 1 ELSE 0
      /\ \A r \in 1 .. revision - 1 + 1 : log'[r] = log[1 + r - 1]
  BY <1>2, <1>3, SubSeqProperties
<1>5. Len(log') = revision
  BY <1>3, <1>4, LengthIsRevision
<1>6. \A r \in 1 .. revision : log'[r] = log[r]
  BY <1>3, <1>4
<1> QED
  BY <1>4, <1>5, <1>6, LengthIsRevision DEF Revisions

-----------------------------------------------------------------------------
(* Types of the files the users edit, and the theorem. *)

LEMMA NewContentsType ==
  ASSUME SystemTypeOK, edits < MaxEdits
  PROVE  NewContents \subseteq Contents /\ edits + 1 \in 0 .. MaxEdits
<1>1. StartContents \in Nat
  <2>1. Present(SharedStart) \subseteq Paths /\ IsFiniteSet(Paths)
    BY PacketSizeAssumption DEF Present
  <2> QED
    BY <2>1, FS_Subset, FS_CardinalityType DEF StartContents
<1>2. edits \in 0 .. MaxEdits /\ MaxEdits \in Nat
  BY SyncSystemAssumption DEF SystemTypeOK
<1>3. {StartContents + edits + 1, StartContents + edits + 1 + MaxEdits} \subseteq Contents
  BY <1>1, <1>2 DEF Contents
<1> QED
  BY <1>2, <1>3 DEF NewContents

LEMMA UserTypeStep ==
  ASSUME SystemTypeOK, NEW d \in Devices, UserStep(d)
  PROVE  /\ files' \in [Devices -> Digests] /\ live' \subseteq Paths \X Contents
         /\ edits' \in 0 .. MaxEdits
         /\ UNCHANGED <<server, plugin, faults, restores>>
<1>1. PICK p \in Edited : \/ UserWrite(d, p) \/ UserDelete(d, p)
                          \/ \E q \in CopiesOf[p] : UserTakeCopy(d, p, q)
  BY DEF UserStep
<1>2. /\ files \in [Devices -> Digests] /\ files[d] \in Digests
      /\ live \subseteq Paths \X Contents /\ p \in Paths
  BY SyncSystemAssumption DEF SystemTypeOK
<1>3. ASSUME NEW value \in Contents \cup {None}
      PROVE  [files[d] EXCEPT ![p] = value] \in Digests
  BY <1>2 DEF Digests
<1>4. CASE UserWrite(d, p)
  <2>1. PICK content \in NewContents :
          /\ files' = [files EXCEPT ![d][p] = content]
          /\ live' = (live \ Dismissed(d, p)) \cup {<<p, content>>}
    BY <1>4 DEF UserWrite
  <2>2. content \in Contents /\ edits' \in 0 .. MaxEdits
    BY <1>4, NewContentsType DEF UserWrite
  <2>3. files' = [files EXCEPT ![d] = [files[d] EXCEPT ![p] = content]]
    BY <2>1
  <2>4. files' \in [Devices -> Digests]
    BY <1>2, <1>3, <2>2, <2>3
  <2>5. live' \subseteq Paths \X Contents
    BY <1>2, <2>1, <2>2
  <2> QED
    BY <1>4, <2>2, <2>4, <2>5 DEF UserWrite
<1>5. CASE UserDelete(d, p)
  <2>1. files' = [files EXCEPT ![d] = [files[d] EXCEPT ![p] = None]]
    BY <1>5 DEF UserDelete
  <2>2. files' \in [Devices -> Digests]
    BY <1>2, <1>3, <2>1
  <2> QED
    BY <1>2, <1>5, <2>2, NewContentsType DEF UserDelete
<1>6. ASSUME NEW q \in CopiesOf[p], UserTakeCopy(d, p, q)
      PROVE  files' \in [Devices -> Digests] /\ live' \subseteq live
  <2>1. q \in Paths /\ files[d][q] \in Contents \cup {None}
    BY <1>2, PlanAssumption DEF Digests
  <2> DEFINE taken == [files[d] EXCEPT ![p] = files[d][q]]
  <2>2. files' = [files EXCEPT ![d] = [taken EXCEPT ![q] = None]]
    BY <1>2, <1>6 DEF UserTakeCopy
  <2>3. taken \in Digests
    BY <1>3, <2>1
  <2> HIDE DEF taken
  <2>4. [taken EXCEPT ![q] = None] \in Digests
    BY <2>1, <2>3 DEF Digests
  <2> QED
    BY <1>2, <1>6, <2>2, <2>4 DEF UserTakeCopy
<1>7. ASSUME NEW q \in CopiesOf[p], UserTakeCopy(d, p, q)
      PROVE  edits' \in 0 .. MaxEdits /\ UNCHANGED <<server, plugin, faults, restores>>
  BY <1>7, NewContentsType DEF UserTakeCopy
<1> QED
  BY <1>1, <1>2, <1>4, <1>5, <1>6, <1>7

LEMMA HandledReply ==
  ASSUME SystemTypeOK, NEW m \in net, HandleUpload(m)
  PROVE  /\ reply' \in [Devices -> Replies \cup {None}] /\ net' \subseteq net
         /\ UNCHANGED <<files, disk, pendingFile, pc, state, work, faults, user, restores>>
<1>1. CommitReply(DecisionFor(m)) \in Replies
  BY DecisionRevision, CommitReplyType
<1>2. reply \in [Devices -> Replies \cup {None}] /\ m.dev \in Devices
  BY DEF SystemTypeOK, Uploads
<1>3. reply' = reply \/ reply' = [reply EXCEPT ![m.dev] = CommitReply(DecisionFor(m))]
  BY DEF HandleUpload
<1> QED
  BY <1>1, <1>2, <1>3 DEF HandleUpload

LEMMA TypeStart == Init => SystemTypeOK
<1> SUFFICES ASSUME Init PROVE SystemTypeOK
  OBVIOUS
<1>1. SharedStart \in Digests /\ MaxEdits \in Nat /\ 0 \in Revisions /\ 1 \in Revisions
  BY SyncSystemAssumption, MaxRevisionAssumption DEF Revisions
<1>2. log \in Seq(Entries) /\ Len(log) \in Revisions
  <2>1. CASE SharedStart = NoFiles
    BY <1>1, <2>1 DEF Init, StartLog
  <2>2. CASE SharedStart # NoFiles
    <3> DEFINE body == [p \in Present(SharedStart) |-> SharedStart[p]]
               entry == [op |-> 0, expected |-> 0, contents |-> SharedStart, body |-> body]
    <3>1. body \in Packets
      <4>1. body \in [Present(SharedStart) -> Contents \cup {None}]
        BY <1>1 DEF Digests, Present
      <4> HIDE DEF body
      <4> QED
        BY <4>1, PacketType DEF Present
    <3>2. log = <<entry>>
      BY <2>2 DEF Init, StartLog
    <3> HIDE DEF body
    <3>3. entry \in Entries
      BY <1>1, <3>1, SyncEngineAssumption DEF Entries
    <3> HIDE DEF entry
    <3> QED
      BY <1>1, <3>2, <3>3
  <2> QED
    BY <2>1, <2>2
<1>3. disk \in [Devices -> States \cup {None}]
  <2>1. StartDisk \in States \cup {None}
    BY <1>1 DEF StartDisk, States, StateFields
  <2> QED
    BY <2>1 DEF Init
<1>4. files \in [Devices -> Digests] /\ state \in [Devices -> States] /\ work \in [Devices -> Works]
  BY <1>1, FreshTypes DEF Init
<1>5. /\ reply \in [Devices -> Replies \cup {None}] /\ pc \in [Devices -> Labels]
      /\ pendingFile \in [Devices -> Packets \cup {None}] /\ net \subseteq Uploads
  BY DEF Init, Labels
<1>6. live \subseteq Paths \X Contents /\ faults \in Nat /\ edits \in 0 .. MaxEdits /\ restores \in Nat
  BY <1>1 DEF Init
<1> QED
  BY <1>2, <1>3, <1>4, <1>5, <1>6 DEF SystemTypeOK

LEMMA TypeStep == SystemTypeOK /\ PendingInv /\ [Next]_vars => SystemTypeOK'
<1> SUFFICES ASSUME SystemTypeOK, PendingInv, [Next]_vars
             PROVE  SystemTypeOK'
  OBVIOUS
<1>1. ASSUME NEW m \in net, HandleUpload(m)
      PROVE  SystemTypeOK'
  BY <1>1, HandledLog, HandledReply DEF SystemTypeOK, user
<1>2. ASSUME NEW revision \in 0 .. Len(log), Restore(revision)
      PROVE  SystemTypeOK'
  <2>1. log' \in Seq(Entries) /\ Len(log') \in Revisions
    BY <1>2, RestoredLog
  <2> QED
    BY <1>2, <2>1 DEF SystemTypeOK, Restore, plugin, user
<1>3. ASSUME NEW d \in Devices, UserStep(d)
      PROVE  SystemTypeOK'
  BY <1>3, UserTypeStep DEF SystemTypeOK, server, plugin
<1>4. ASSUME NEW d \in Devices, Sync(d) \/ Fail(d)
      PROVE  SystemTypeOK'
  <2>1. EngineStep(d) \/ Failure(d)
    BY <1>4 DEF Sync, Fail
  <2>2. UNCHANGED <<user, restores, log>>
    BY <1>4, <2>1, NetTypeStep DEF Sync, Fail
  <2> QED
    BY <2>1, <2>2, WorkTypeStep, StateTypeStep, LabelStep, FileTypeStep, NetTypeStep
    DEF SystemTypeOK, user
<1>5. CASE UNCHANGED vars
  BY <1>5 DEF SystemTypeOK, vars
<1> QED
  BY <1>1, <1>2, <1>3, <1>4, <1>5 DEF Next, ServerStep

-----------------------------------------------------------------------------
(* Pending uploads. *)

(* The variables of one device. *)
Own(d) == <<pc[d], state[d], work[d], disk[d], pendingFile[d], reply[d]>>

LEMMA OthersKeep ==
  ASSUME SystemTypeOK, NEW d \in Devices, NEW e \in Devices, e # d, EngineStep(d) \/ Failure(d)
  PROVE  UNCHANGED <<Own(e), files[e]>>
<1> USE DEF SystemTypeOK, Own, Goto, Stop, SaveState, RemovePending
<1>1. CASE LoadState(d)
  BY <1>1 DEF LoadState
<1>2. CASE SubmitPending(d) \/ UploadReply(d)
  BY <1>2 DEF SubmitPending, UploadReply, AfterDrop, DropPending, Confirm, NewRound
<1>3. CASE AskHead(d) \/ Fetch(d) \/ ListVault(d) \/ ReadFile(d) \/ PlanRemote(d)
  BY <1>3
  DEF AskHead, ResetBase, UpToDate, StartBatch, Fetch, ListVault, ReadFile, PlanRemote
<1>4. CASE \/ CheckDelete(d) \/ TrashFile(d) \/ WriteCopy(d) \/ CheckPut(d)
           \/ WriteFile(d) \/ SaveBatch(d)
  BY <1>4 DEF CheckDelete, TrashFile, WriteCopy, CheckPut, WriteFile, SaveBatch
<1>5. CASE PushStep(d)
  BY <1>5
  DEF PushStep, PlanPush, PackDelete, PackPut, AddChange, FlushLast, Flush,
      PersistPacket, RecordPending, Report
<1>6. CASE Failure(d)
  BY <1>6 DEF Failure, Interrupt, DamageState
<1> QED
  BY <1>1, <1>2, <1>3, <1>4, <1>5, <1>6 DEF EngineStep, PullStep

LEMMA ContextStep ==
  ASSUME SystemTypeOK, PendingInv, NEW d \in Devices, EngineStep(d) \/ Failure(d)
  PROVE  ContextOK(d)'
<1> USE DEF ContextOK
<1>1. /\ work \in [Devices -> Works] /\ work[d] \in Works
      /\ pc \in [Devices -> Labels] /\ pc[d] \in Labels
  BY DEF SystemTypeOK
<1>2. MemoryOK(d) /\ ContextOK(d)
  BY DEF PendingInv
<1>3. ASSUME Stop(d)
      PROVE  ContextOK(d)'
  BY <1>1, <1>3 DEF Stop, NewWork
<1>4. CASE LoadState(d)
  BY <1>1, <1>2, <1>4 DEF LoadState, Goto, Works
<1>5. ASSUME AfterDrop(d)
      PROVE  ContextOK(d)'
  BY <1>1, <1>2, <1>3, <1>5 DEF AfterDrop, Goto, NewRound, NewWork
<1>6. CASE SubmitPending(d)
  BY <1>1, <1>2, <1>5, <1>6 DEF SubmitPending, Goto
<1>7. CASE UploadReply(d)
  <2>1. CASE Confirm(d)
    BY <1>1, <1>2, <2>1 DEF Confirm, Goto, Works
  <2> QED
    BY <1>3, <1>5, <1>7, <2>1 DEF UploadReply
<1>8. CASE AskHead(d) \/ Fetch(d) \/ ListVault(d)
  <2>1. CASE AskHead(d) \/ Fetch(d)
    BY <1>1, <1>2, <1>3, <2>1
    DEF AskHead, ResetBase, UpToDate, StartBatch, Fetch, Goto, Works
  <2>2. CASE ListVault(d)
    BY <2>2, ListKeeps
  <2> QED
    BY <1>8, <2>1, <2>2
<1>9. CASE ReadFile(d) \/ PlanRemote(d)
  <2>1. CASE ReadFile(d)
    BY <2>1 DEF ReadFile
  <2>2. CASE PlanRemote(d) /\ ~Stop(d)
    <3>1. PICK name : work' = [work EXCEPT ![d].deletes = PlannedDeletes(d),
                                           ![d].copies = CopiesNamed(d, name),
                                           ![d].puts = PlannedPuts(d)]
      BY <2>2 DEF PlanRemote
    <3>2. work[d].ctx = "pull" /\ pc'[d] = "apply"
      BY <1>1, <2>2 DEF PlanRemote, Goto
    <3> QED
      BY <1>1, <3>1, <3>2 DEF Works
  <2> QED
    BY <1>3, <1>9, <2>1, <2>2
<1>10. CASE CheckDelete(d) \/ TrashFile(d) \/ WriteCopy(d) \/ CheckPut(d) \/ WriteFile(d)
  BY <1>1, <1>2, <1>3, <1>10
  DEF CheckDelete, TrashFile, WriteCopy, CheckPut, WriteFile, Goto, Works
<1>11. CASE SaveBatch(d)
  BY <1>1, <1>2, <1>11 DEF SaveBatch, Goto, NewWork
<1>12. CASE PlanPush(d)
  BY <1>1, <1>2, <1>3, <1>12 DEF PlanPush, Goto, Works
<1>13. CASE PackDelete(d) \/ PackPut(d) \/ FlushLast(d)
  BY <1>2, <1>3, <1>13, PackKeeps DEF Same
<1>14. CASE PersistPacket(d) \/ RecordPending(d) \/ Report(d)
  BY <1>1, <1>2, <1>3, <1>14 DEF PersistPacket, RecordPending, Report, Goto
<1>15. CASE Failure(d)
  BY <1>1, <1>2, <1>3, <1>15 DEF Failure, Interrupt, DamageState
<1> QED
  BY <1>4, <1>6, <1>7, <1>8, <1>9, <1>10, <1>11, <1>12, <1>13, <1>14, <1>15
  DEF EngineStep, PullStep, PushStep

LEMMA PendingOwnStep ==
  ASSUME SystemTypeOK, PendingInv, NEW d \in Devices, EngineStep(d) \/ Failure(d)
  PROVE  MemoryOK(d)' /\ BytesOK(d)'
<1> USE DEF MemoryOK, BytesOK, PendingIsWhole
<1>1. /\ state \in [Devices -> States] /\ state[d] \in States
      /\ disk \in [Devices -> States \cup {None}] /\ disk[d] \in States \cup {None}
      /\ work \in [Devices -> Works] /\ work[d] \in Works
      /\ pc \in [Devices -> Labels] /\ pc[d] \in Labels
      /\ pendingFile \in [Devices -> Packets \cup {None}]
      /\ pendingFile[d] \in Packets \cup {None}
  BY DEF SystemTypeOK
<1>2. MemoryOK(d) /\ BytesOK(d) /\ None \notin States /\ None \notin Packets
  BY NoneIsNone DEF PendingInv
<1>3. ASSUME Stop(d), disk'[d] \in {disk[d], None}, UNCHANGED pendingFile
      PROVE  MemoryOK(d)' /\ BytesOK(d)'
  BY <1>1, <1>2, <1>3 DEF Stop, FreshState
(* A step that writes neither of the two files.                            *)
<1>4. ASSUME UNCHANGED <<disk, pendingFile, state>>,
             pc[d] \notin {"idle", "submit", "reply"},
             pc'[d] \notin {"idle", "submit", "reply", "record"}
      PROVE  MemoryOK(d)' /\ BytesOK(d)'
  BY <1>1, <1>2, <1>4
(* A step that writes a state without a pending upload.                    *)
<1>5. ASSUME NEW s \in States, SaveState(d, s), s.pending = None,
             pc'[d] \notin {"idle", "submit", "reply", "record"}
      PROVE  MemoryOK(d)' /\ BytesOK(d)'
  BY <1>1, <1>2, <1>5 DEF SaveState
<1>6. CASE LoadState(d)
  BY <1>1, <1>2, <1>6 DEF LoadState, Goto, FreshState
<1>7. [state[d] EXCEPT !.pending = None] \in States
  BY <1>1 DEF States, StateFields
<1>8. [state[d] EXCEPT !.pending = None].pending = None
  BY <1>1 DEF States, StateFields
<1>9. ASSUME AfterDrop(d)
      PROVE  MemoryOK(d)' /\ BytesOK(d)'
  <2>1. CASE DropPending(d) /\ Goto(d, "head")
    BY <1>1, <1>5, <1>7, <1>8, <2>1 DEF DropPending, Goto
  <2>2. CASE Stop(d) /\ disk' = [disk EXCEPT ![d] = [state[d] EXCEPT !.pending = None]]
    BY <1>1, <1>2, <1>7, <1>8, <2>2 DEF Stop, FreshState
  <2> QED
    BY <1>9, <2>1, <2>2 DEF AfterDrop
<1>10. CASE SubmitPending(d)
  BY <1>1, <1>2, <1>9, <1>10 DEF SubmitPending, Goto
<1>11. CASE UploadReply(d)
  <2>1. CASE Confirm(d)
    <3>1. ConfirmedState(d).pending = None
      BY DEF ConfirmedState
    <3>2. state'[d] = ConfirmedState(d) /\ disk'[d] = ConfirmedState(d) /\ state'[d] \in States
      BY <1>1, <2>1, <1>11, StateTypeStep DEF Confirm, SaveState, EngineStep
    <3> QED
      BY <1>1, <1>5, <2>1, <3>1, <3>2 DEF Confirm, Goto
  <2> QED
    BY <1>3, <1>9, <1>11, <2>1 DEF UploadReply
<1>12. CASE AskHead(d)
  BY <1>1, <1>4, <1>5, <1>12, FreshTypes
  DEF AskHead, ResetBase, ResetState, FreshState, UpToDate, StartBatch, Goto
<1>13. CASE Fetch(d) \/ ListVault(d) \/ ReadFile(d) \/ PlanRemote(d) \/ CheckDelete(d)
  BY <1>1, <1>3, <1>4, <1>13
  DEF Fetch, ListVault, ReadFile, PlanRemote, CheckDelete, Goto
<1>14. CASE TrashFile(d) \/ WriteCopy(d) \/ CheckPut(d) \/ WriteFile(d)
  BY <1>1, <1>3, <1>4, <1>14 DEF TrashFile, WriteCopy, CheckPut, WriteFile, Goto
<1>15. CASE SaveBatch(d)
  <2> DEFINE s == [revision |-> work[d].end, digests |-> work[d].remote, pending |-> None]
  <2>1. s \in States /\ s.pending = None
    BY <1>1 DEF Works, States, StateFields
  <2> QED
    BY <1>1, <1>5, <1>15, <2>1 DEF SaveBatch, BatchRevision, Remote, Goto
<1>16. CASE PlanPush(d) \/ PackDelete(d) \/ PackPut(d) \/ FlushLast(d)
  BY <1>1, <1>3, <1>4, <1>16
  DEF PlanPush, PackDelete, PackPut, AddChange, FlushLast, Flush, Goto
<1>17. CASE PersistPacket(d)
  BY <1>1, <1>2, <1>17 DEF PersistPacket, StoredPacket, Goto
<1>18. CASE RecordPending(d)
  <2>1. PICK op \in OpIds : SaveState(d, RecordedState(d, op))
    BY <1>18 DEF RecordPending
  <2>2. /\ RecordedState(d, op).pending = PendingUpload(d, op)
        /\ RecordedState(d, op).revision = state[d].revision
    BY <1>1 DEF RecordedState, States, StateFields
  <2>3. /\ PendingUpload(d, op) # None /\ PendingUpload(d, op).expected = state[d].revision
        /\ PendingUpload(d, op).digest = work[d].body
    <3>1. PendingUpload(d, op) \in Pendings
      BY <1>1, StateParts DEF PendingUpload, Pendings, Works
    <3> QED
      BY <3>1, NoneIsNone DEF PendingUpload
  <2>4. state'[d] = RecordedState(d, op) /\ disk'[d] = RecordedState(d, op)
    BY <1>1, <2>1 DEF SaveState
  <2>5. pc[d] = "record" /\ pc'[d] = "submit" /\ pendingFile' = pendingFile
    BY <1>1, <1>18 DEF RecordPending, Goto
  <2>6. pendingFile[d] = work[d].body
    BY <1>2, <2>5
  <2> QED
    BY <2>2, <2>3, <2>4, <2>5, <2>6
<1>19. CASE Report(d)
  BY <1>3, <1>19 DEF Report
<1>20. CASE Failure(d)
  <2>1. CASE Interrupt(d) /\ UNCHANGED pendingFile
    BY <1>1, <1>3, <2>1 DEF Interrupt
  <2>2. CASE Interrupt(d) /\ pc[d] = "persist" /\ UNCHANGED disk
    <3>1. state[d].pending = None
      BY <1>2, <2>2
    <3>2. disk[d] = None \/ disk[d].pending = None
      BY <1>2, <2>2, <3>1
    <3>3. /\ pc'[d] = "idle" /\ state'[d] = FreshState /\ work'[d] = NewWork
          /\ disk'[d] = disk[d]
      BY <1>1, <2>2 DEF Interrupt, Stop
    <3> QED
      BY <3>2, <3>3 DEF FreshState
  <2>3. CASE DamageState(d)
    BY <1>1, <1>2, <2>3 DEF DamageState
  <2> QED
    BY <1>20, <2>1, <2>2, <2>3 DEF Failure, Interrupt
<1> QED
  BY <1>6, <1>10, <1>11, <1>12, <1>13, <1>14, <1>15, <1>16, <1>17, <1>18, <1>19, <1>20
  DEF EngineStep, PullStep, PushStep

LEMMA PendingStart == Init => PendingInv
<1> SUFFICES ASSUME Init, NEW d \in Devices
             PROVE  MemoryOK(d) /\ BytesOK(d) /\ ContextOK(d)
  BY DEF PendingInv
<1>1. /\ pc[d] = "idle" /\ state[d] = FreshState /\ work[d] = NewWork
      /\ disk[d] = StartDisk
  BY DEF Init
<1>2. FreshState.pending = None /\ NewWork.ctx = "pull"
  BY DEF FreshState, NewWork
<1>3. disk[d] # None => disk[d].pending = None
  BY <1>1 DEF StartDisk
<1> QED
  BY <1>1, <1>2, <1>3 DEF MemoryOK, BytesOK, ContextOK

LEMMA PendingStep == SystemTypeOK /\ PendingInv /\ [Next]_vars => PendingInv'
<1> SUFFICES ASSUME SystemTypeOK, PendingInv, [Next]_vars, NEW e \in Devices
             PROVE  MemoryOK(e)' /\ BytesOK(e)' /\ ContextOK(e)'
  BY DEF PendingInv
<1>1. MemoryOK(e) /\ BytesOK(e) /\ ContextOK(e)
  BY DEF PendingInv
<1>2. ASSUME UNCHANGED <<pc[e], state[e], work[e], disk[e], pendingFile[e]>>
      PROVE  MemoryOK(e)' /\ BytesOK(e)' /\ ContextOK(e)'
  BY <1>1, <1>2 DEF MemoryOK, BytesOK, ContextOK, PendingIsWhole
<1>3. ASSUME NEW m \in net, HandleUpload(m)
      PROVE  MemoryOK(e)' /\ BytesOK(e)' /\ ContextOK(e)'
  BY <1>2, <1>3 DEF HandleUpload
<1>4. ASSUME NEW revision, Restore(revision)
      PROVE  MemoryOK(e)' /\ BytesOK(e)' /\ ContextOK(e)'
  BY <1>2, <1>4 DEF Restore, plugin
<1>5. ASSUME NEW d \in Devices, UserStep(d)
      PROVE  MemoryOK(e)' /\ BytesOK(e)' /\ ContextOK(e)'
  BY <1>2, <1>5, UserTypeStep DEF plugin
<1>6. ASSUME NEW d \in Devices, EngineStep(d) \/ Failure(d)
      PROVE  MemoryOK(e)' /\ BytesOK(e)' /\ ContextOK(e)'
  <2>1. CASE d = e
    BY <1>6, <2>1, PendingOwnStep, ContextStep
  <2>2. CASE d # e
    BY <1>2, <1>6, <2>2, OthersKeep DEF Own
  <2> QED
    BY <2>1, <2>2
<1>7. CASE UNCHANGED vars
  BY <1>2, <1>7 DEF vars
<1> QED
  BY <1>3, <1>4, <1>5, <1>6, <1>7 DEF Next, ServerStep, Sync, Fail

(* The types of a vault's state files, packets and replies, and the bytes  *)
(* of every pending upload: SystemTypeOK and PendingBytesAreStored hold whatever *)
(* is interrupted, lost, answered late or restored.                        *)
LEMMA PendingInvHolds == Spec => [](SystemTypeOK /\ PendingInv)
<1>1. Init => SystemTypeOK /\ PendingInv
  BY TypeStart, PendingStart
<1>2. (SystemTypeOK /\ PendingInv) /\ [Next]_vars => (SystemTypeOK /\ PendingInv)'
  BY TypeStep, PendingStep
<1> QED
  BY <1>1, <1>2, PTL DEF Spec

(* The engines' states, their files and the locals of their cycles, and     *)
(* what is in the network, are of their types in every reachable state: no *)
(* code after an await meets a state it was not written for.               *)
THEOREM EngineTypeCorrect == Spec => []SystemTypeOK
  BY PendingInvHolds, PTL

(* A sync-state.json that names a pending upload is never without the      *)
(* bytes of that upload.                                                   *)
THEOREM PendingUploadsHaveBytes == Spec => []PendingBytesAreStored
<1>1. PendingInv => PendingBytesAreStored
  BY DEF PendingInv, BytesOK, PendingBytesAreStored
<1> QED
  BY <1>1, PendingInvHolds, PTL

-----------------------------------------------------------------------------
(* The base, of a server that is never restored. *)

(* The contents of the vault at a revision of a history.                   *)
ContentsIn(history, r) == IF r = 0 THEN NoFiles ELSE history[r].contents

LEMMA LogStep ==
  ASSUME SystemTypeOK, PendingInv, restores' = 0, [Next]_vars
  PROVE  /\ Len(log') \in Nat /\ Len(log) <= Len(log')
         /\ \A r \in 1 .. Len(log) : log'[r] = log[r]
         /\ \A r \in 0 .. Len(log) : ContentsIn(log', r) = ContentsIn(log, r)
<1> USE LengthIsRevision
<1> DEFINE Goal == /\ Len(log') \in Nat /\ Len(log) <= Len(log')
                   /\ \A r \in 1 .. Len(log) : log'[r] = log[r]
<1>1. ASSUME NEW m \in net, HandleUpload(m)
      PROVE  Goal
  BY <1>1, HandledLog
<1>2. ASSUME NEW revision, Restore(revision)
      PROVE  FALSE
  BY <1>2 DEF Restore, SystemTypeOK
<1>3. ASSUME UNCHANGED log
      PROVE  Goal
  BY <1>3
<1>4. ASSUME NEW d \in Devices, UserStep(d) \/ Sync(d) \/ Fail(d)
      PROVE  UNCHANGED log
  BY <1>4, UserTypeStep, NetTypeStep DEF server, Sync, Fail
<1>5. Goal
  BY <1>1, <1>2, <1>3, <1>4 DEF Next, ServerStep, vars
<1>6. \A r \in 0 .. Len(log) : r # 0 => r \in 1 .. Len(log)
  OBVIOUS
<1> QED
  BY <1>5, <1>6 DEF ContentsIn

LEMMA NextContents ==
  ASSUME SystemTypeOK, LogOK, NEW r \in 0 .. Len(log) - 1
  PROVE  /\ r + 1 \in 1 .. Len(log)
         /\ ApplyPacket(ContentsIn(log, r), log[r + 1].body) = ContentsIn(log, r + 1)
<1>1. r + 1 \in 1 .. Len(log) /\ (r + 1) - 1 = r /\ r + 1 # 0
  BY LengthIsRevision
<1>2. log[r + 1].contents = ApplyPacket(ContentsAt((r + 1) - 1), log[r + 1].body)
  BY <1>1 DEF LogOK
<1> QED
  BY <1>1, <1>2 DEF ContentsIn, ContentsAt

LEMMA LogInvStep ==
  ASSUME SystemTypeOK, PendingInv, LogOK, restores' = 0, [Next]_vars
  PROVE  LogOK'
<1> SUFFICES ASSUME NEW r \in 1 .. Len(log')
             PROVE  log'[r].contents = ApplyPacket(ContentsIn(log', r - 1), log'[r].body)
  BY DEF LogOK, ContentsAt, ContentsIn
<1>1. CASE r \in 1 .. Len(log)
  <2>1. log[r].contents = ApplyPacket(ContentsIn(log, r - 1), log[r].body)
    BY <1>1 DEF LogOK, ContentsAt, ContentsIn
  <2>2. log'[r] = log[r] /\ r - 1 \in 0 .. Len(log)
    BY <1>1, LogStep, LengthIsRevision
  <2> QED
    BY <2>1, <2>2, LogStep
<1>2. CASE r \notin 1 .. Len(log)
  <2>1. log' # log
    BY <1>2
  <2>2. PICK m \in net : HandleUpload(m)
    <3>1. ASSUME NEW revision, Restore(revision)
          PROVE  FALSE
      BY <3>1 DEF Restore, SystemTypeOK
    <3>2. ASSUME NEW d \in Devices, UserStep(d) \/ Sync(d) \/ Fail(d)
          PROVE  UNCHANGED log
      BY <3>2, UserTypeStep, NetTypeStep DEF server, Sync, Fail
    <3> QED
      BY <2>1, <3>1, <3>2 DEF Next, ServerStep, vars
  <2>3. Len(log') = Len(log) + 1 /\ log'[Len(log) + 1] = NewEntry(m)
    BY <2>1, <2>2, HandledLog
  <2>4. r = Len(log) + 1 /\ r - 1 = Len(log) /\ Len(log) \in 0 .. Len(log)
    BY <1>2, <2>3, LengthIsRevision
  <2>5. ContentsIn(log', r - 1) = Now
    BY <2>4, LogStep DEF Now, ContentsAt, ContentsIn
  <2> QED
    BY <2>3, <2>4, <2>5 DEF NewEntry
<1> QED
  BY <1>1, <1>2

(* An upload somebody waits for is the only one of its device.             *)
LEMMA OneUpload ==
  ASSUME SystemTypeOK, NetOK, NEW m \in net, NEW n \in net, ~m.late, ~n.late, m.dev = n.dev
  PROVE  m = n
<1>1. m.op = n.op /\ m.expected = n.expected /\ m.body = n.body
  BY DEF NetOK
<1>2. m \in Uploads /\ n \in Uploads
  BY DEF SystemTypeOK
<1> QED
  BY <1>1, <1>2 DEF Uploads

LEMMA HandledNet ==
  ASSUME SystemTypeOK, NetOK, NEW m \in net, HandleUpload(m)
  PROVE  NetOK'
<1> SUFFICES ASSUME NEW n \in net', ~n.late
             PROVE  /\ pc'[n.dev] = "reply" /\ reply'[n.dev] = None
                    /\ n.op = state'[n.dev].pending.op
                    /\ n.expected = state'[n.dev].pending.expected
                    /\ n.body = pendingFile'[n.dev]
  BY DEF NetOK
<1>1. n \in net /\ n # m
  BY DEF HandleUpload
<1>2. m.late \/ m.dev # n.dev
  BY <1>1, OneUpload
<1>3. n.dev \in Devices /\ m.dev \in Devices /\ reply \in [Devices -> Replies \cup {None}]
  BY <1>1 DEF SystemTypeOK, Uploads
<1>4. reply'[n.dev] = reply[n.dev]
  BY <1>2, <1>3 DEF HandleUpload
<1> QED
  BY <1>1, <1>4 DEF NetOK, HandleUpload

LEMMA SyncedNet ==
  ASSUME SystemTypeOK, PendingInv, NetOK, NEW d \in Devices, ReplyOK(d), EngineStep(d) \/ Failure(d)
  PROVE  NetOK'
<1> SUFFICES ASSUME NEW n \in net', ~n.late
             PROVE  /\ pc'[n.dev] = "reply" /\ reply'[n.dev] = None
                    /\ n.op = state'[n.dev].pending.op
                    /\ n.expected = state'[n.dev].pending.expected
                    /\ n.body = pendingFile'[n.dev]
  BY DEF NetOK
<1>0. net' \subseteq Uploads /\ n.dev \in Devices
  BY NetTypeStep DEF Uploads
<1>1. CASE n \in net /\ n.dev # d
  BY <1>0, <1>1, OthersKeep DEF NetOK, Own
<1>2. CASE Interrupt(d)
  <2>1. PICK m \in net : n = IF m.dev = d THEN [m EXCEPT !.late = TRUE] ELSE m
    BY <1>2 DEF Interrupt
  <2>2. m.dev # d
    BY <2>1 DEF SystemTypeOK, Uploads
  <2> QED
    BY <1>1, <2>1, <2>2
<1>3. CASE n \in net /\ n.dev = d /\ ~Interrupt(d)
  <2>1. pc[d] = "reply" /\ reply[d] = None
    BY <1>3 DEF NetOK
  <2> QED
    BY <1>3, <2>1
    DEF EngineStep, LoadState, SubmitPending, UploadReply, PullStep, AskHead, Fetch,
        ListVault, ReadFile, PlanRemote, CheckDelete, TrashFile, WriteCopy, CheckPut,
        WriteFile, SaveBatch, PushStep, PlanPush, PackDelete, PackPut, FlushLast,
        PersistPacket, RecordPending, Report, Failure, DamageState
<1>4. CASE n \notin net /\ ~Interrupt(d)
  <2>1. SubmitPending(d)
    BY <1>4
    DEF EngineStep, LoadState, UploadReply, PullStep, AskHead, Fetch,
        ListVault, ReadFile, PlanRemote, CheckDelete, TrashFile, WriteCopy, CheckPut,
        WriteFile, SaveBatch, PushStep, PlanPush, PackDelete, PackPut, FlushLast,
        PersistPacket, RecordPending, Report, Failure, DamageState, server
  <2>2. /\ pc[d] = "submit"
        /\ n = [dev |-> d, op |-> state[d].pending.op, expected |-> state[d].pending.expected,
                body |-> pendingFile[d], late |-> FALSE]
        /\ Goto(d, "reply") /\ UNCHANGED <<reply, pendingFile, state>>
    BY <1>4, <2>1 DEF SubmitPending
  <2>3. reply[d] = None
    BY <2>2 DEF ReplyOK
  <2> QED
    BY <2>2, <2>3 DEF Goto, SystemTypeOK
<1> QED
  BY <1>1, <1>2, <1>3, <1>4

(* A reply that confirms an upload names the revision the server has given *)
(* its packet.                                                             *)
LEMMA ConfirmingReply ==
  ASSUME SystemTypeOK, NEW m \in net, HandleUpload(m),
         classifyUploadResponse(CommitReply(DecisionFor(m)), m.expected)
           \in {"applied", "replayed"}
  PROVE  m.expected + 1 <= Len(log') /\ log'[m.expected + 1].body = m.body
<1> DEFINE decision == DecisionFor(m)
<1>1. decision.kind \in {"Apply", "Replay"}
  <2>1. CommitReply(decision).status \in {200, 201}
    BY DEF classifyUploadResponse
  <2> HIDE DEF decision
  <2> QED
    BY <2>1 DEF CommitReply, Reply
<1>2. CASE decision.kind = "Apply"
  <2>1. m.expected = Len(log)
    BY <1>2, AppliedOnTop
  <2>2. log' = Append(log, NewEntry(m))
    BY <1>2 DEF HandleUpload, NewEntry
  <2>3. Len(log') = Len(log) + 1 /\ log'[Len(log) + 1] = NewEntry(m)
    <3>1. log \in Seq(Entries)
      BY DEF SystemTypeOK
    <3> QED
      BY <2>2, <3>1
  <2> QED
    BY <2>1, <2>3, LengthIsRevision DEF NewEntry
<1>3. CASE decision.kind = "Replay"
  <2>1. PICK r \in 1 .. Len(log) : r = m.expected + 1 /\ log[r].body = m.body
    BY <1>3, ReplayedIsStored
  <2>2. log' = log
    BY <1>3 DEF HandleUpload
  <2> QED
    BY <2>1, <2>2, LengthIsRevision
<1> QED
  BY <1>1, <1>2, <1>3

LEMMA ReplyStep ==
  ASSUME SystemTypeOK, PendingInv, BaseInv, restores' = 0, [Next]_vars, NEW e \in Devices
  PROVE  ReplyOK(e)'
<1> USE DEF ReplyOK
<1>1. ReplyOK(e) /\ NetOK
  BY DEF BaseInv
<1>2. ASSUME UNCHANGED <<reply[e], pc[e], state[e], pendingFile[e]>>
      PROVE  ReplyOK(e)'
  <2> SUFFICES ASSUME reply[e] # None
               PROVE  ReplyOK(e)'
    BY <1>2
  <2>1. CASE Outcome(e) \in {"applied", "replayed"}
    <3> DEFINE next == state[e].pending.expected + 1
    <3>1. pc[e] = "reply" /\ next <= Len(log) /\ log[next].body = pendingFile[e]
      BY <1>1, <2>1
    <3>2. next \in 1 .. Len(log)
      <4>1. state[e].pending.expected \in Revisions
        BY <3>1, StateParts DEF PendingInv, MemoryOK, SystemTypeOK
      <4> QED
        BY <3>1, <4>1, LengthIsRevision DEF Revisions
    <3>3. next <= Len(log') /\ log'[next] = log[next]
      BY <3>2, LogStep, LengthIsRevision
    <3> QED
      BY <1>2, <3>1, <3>3
  <2>2. CASE Outcome(e) \notin {"applied", "replayed"}
    BY <1>1, <1>2, <2>2 DEF Outcome
  <2> QED
    BY <2>1, <2>2
<1>3. ASSUME NEW m \in net, HandleUpload(m)
      PROVE  ReplyOK(e)'
  <2>1. m.dev \in Devices /\ reply \in [Devices -> Replies \cup {None}]
    BY DEF SystemTypeOK, Uploads
  <2>2. CASE m.late \/ m.dev # e
    BY <1>2, <1>3, <2>1, <2>2 DEF HandleUpload
  <2>3. CASE ~m.late /\ m.dev = e
    <3>1. /\ pc[e] = "reply" /\ m.expected = state[e].pending.expected
          /\ m.body = pendingFile[e]
      BY <1>1, <2>3 DEF NetOK
    <3>2. /\ reply'[e] = CommitReply(DecisionFor(m))
          /\ UNCHANGED <<pc, state, pendingFile>>
      BY <1>3, <2>1, <2>3 DEF HandleUpload
    <3> QED
      BY <1>3, <3>1, <3>2, ConfirmingReply DEF Outcome
  <2> QED
    BY <2>2, <2>3
<1>4. ASSUME NEW d \in Devices, EngineStep(d) \/ Failure(d), d # e
      PROVE  ReplyOK(e)'
  BY <1>2, <1>4, OthersKeep DEF Own
<1>5. ASSUME EngineStep(e) \/ Failure(e)
      PROVE  ReplyOK(e)'
  <2>1. CASE reply'[e] = None
    BY <2>1
  <2>2. CASE UploadReply(e) \/ Interrupt(e)
    <3>1. reply' = [reply EXCEPT ![e] = None]
      BY <2>2 DEF UploadReply, Interrupt
    <3> QED
      BY <2>1, <3>1 DEF SystemTypeOK
  <2>3. CASE reply'[e] # None /\ ~UploadReply(e) /\ ~Interrupt(e)
    <3>1. reply' = reply
      BY <1>5, <2>3
      DEF EngineStep, LoadState, SubmitPending, PullStep, AskHead, Fetch,
          ListVault, ReadFile, PlanRemote, CheckDelete, TrashFile, WriteCopy, CheckPut,
          WriteFile, SaveBatch, PushStep, PlanPush, PackDelete, PackPut, FlushLast,
          PersistPacket, RecordPending, Report, Failure, DamageState
    <3>2. pc[e] = "reply"
      BY <1>1, <2>3, <3>1
    <3>3. FALSE
      BY <1>5, <2>3, <3>2
      DEF EngineStep, LoadState, SubmitPending, PullStep, AskHead, Fetch,
          ListVault, ReadFile, PlanRemote, CheckDelete, TrashFile, WriteCopy, CheckPut,
          WriteFile, SaveBatch, PushStep, PlanPush, PackDelete, PackPut, FlushLast,
          PersistPacket, RecordPending, Report, Failure, DamageState
    <3> QED
      BY <3>3
  <2> QED
    BY <2>1, <2>2, <2>3
<1>6. ASSUME NEW revision, Restore(revision)
      PROVE  FALSE
  BY <1>6 DEF Restore, SystemTypeOK
<1>7. ASSUME NEW d \in Devices, UserStep(d)
      PROVE  ReplyOK(e)'
  BY <1>2, <1>7, UserTypeStep DEF plugin
<1>8. CASE UNCHANGED vars
  BY <1>2, <1>8 DEF vars
<1> QED
  BY <1>3, <1>4, <1>5, <1>6, <1>7, <1>8 DEF Next, ServerStep, Sync, Fail

LEMMA KnownStays ==
  ASSUME SystemTypeOK, PendingInv, restores' = 0, [Next]_vars
  PROVE  \A s \in States : Known(s) =>
           s.revision <= Len(log') /\ s.digests = ContentsIn(log', s.revision)
<1> SUFFICES ASSUME NEW s \in States, Known(s)
             PROVE  s.revision <= Len(log') /\ s.digests = ContentsIn(log', s.revision)
  OBVIOUS
<1>1. s.revision \in 0 .. Len(log) /\ s.digests = ContentsIn(log, s.revision)
  BY StateParts, LengthIsRevision DEF Known, ContentsAt, ContentsIn, Revisions
<1> QED
  BY <1>1, LogStep, LengthIsRevision

(* A confirmed upload makes the base the next revision of the server.      *)
LEMMA ConfirmedIsKnown ==
  ASSUME SystemTypeOK, PendingInv, BaseInv, NEW d \in Devices, UploadReply(d),
         Outcome(d) \in {"applied", "replayed"}
  PROVE  ConfirmedState(d) \in States /\ Known(ConfirmedState(d))
<1> DEFINE next == state[d].pending.expected + 1
<1>1. Known(state[d]) /\ LogOK /\ ReplyOK(d) /\ pc[d] = "reply" /\ reply[d] # None
  BY DEF BaseInv, BaseOK, UploadReply
<1>2. next <= Len(log) /\ log[next].body = pendingFile[d]
  BY <1>1 DEF ReplyOK
<1>3. /\ state[d] \in States /\ pendingFile[d] \in Packets
      /\ state[d].pending.expected = state[d].revision
  BY <1>1 DEF PendingInv, MemoryOK, BytesOK, PendingIsWhole, SystemTypeOK
<1>4. state[d].revision \in 0 .. Len(log) - 1 /\ next \in Revisions
  BY <1>2, <1>3, StateParts, LengthIsRevision DEF Revisions
<1>5. ApplyPacket(state[d].digests, pendingFile[d]) = ContentsAt(next)
  <2>1. state[d].digests = ContentsIn(log, state[d].revision)
    BY <1>1 DEF Known, ContentsAt, ContentsIn
  <2> QED
    BY <1>1, <1>2, <1>3, <1>4, <2>1, NextContents DEF ContentsAt, ContentsIn
<1>6. ApplyPacket(state[d].digests, pendingFile[d]) \in Digests
  BY <1>3, StateParts, ApplyPacketType
<1> HIDE DEF next
<1>7. ConfirmedState(d) = [revision |-> next, pending |-> None,
                           digests |-> ApplyPacket(state[d].digests, pendingFile[d])]
  BY DEF ConfirmedState, next
<1> QED
  BY <1>2, <1>4, <1>5, <1>6, <1>7 DEF Known, States, StateFields

LEMMA BaseStep ==
  ASSUME SystemTypeOK, PendingInv, BaseInv, restores' = 0, [Next]_vars, NEW e \in Devices
  PROVE  BaseOK(e)'
<1>1. /\ state \in [Devices -> States] /\ state[e] \in States
      /\ disk \in [Devices -> States \cup {None}] /\ disk[e] \in States \cup {None}
  BY DEF SystemTypeOK
<1>2. Known(state[e]) /\ (disk[e] # None => Known(disk[e])) /\ FetchedOK(e)
  BY DEF BaseInv, BaseOK
<1>3. Known(FreshState) /\ FreshState \in States /\ FreshState.pending = None
  BY FreshTypes, LengthIsRevision DEF Known, ContentsAt, FreshState
(* Every state a step leaves in memory or stores is one that was known.    *)
<1> DEFINE Right(s) == s \in States /\ Known(s)
<1>4. ASSUME NEW s, NEW t, Right(s), t = None \/ Right(t),
             state'[e] = s, disk'[e] = t
      PROVE  BaseOK(e)'
  BY <1>4, KnownStays DEF BaseOK, Known, ContentsAt, ContentsIn
<1>5. Right(state[e]) /\ (disk[e] = None \/ Right(disk[e])) /\ Right(FreshState)
  BY <1>1, <1>2, <1>3
<1> HIDE DEF Right
<1>6. ASSUME UNCHANGED <<state[e], disk[e]>>
      PROVE  BaseOK(e)'
  BY <1>4, <1>5, <1>6
<1>7. ASSUME Stop(e), UNCHANGED disk \/ disk' = [disk EXCEPT ![e] = None]
      PROVE  BaseOK(e)'
  BY <1>1, <1>4, <1>5, <1>7 DEF Stop
<1>8. ASSUME NEW s, Right(s), SaveState(e, s)
      PROVE  BaseOK(e)'
  BY <1>1, <1>4, <1>8 DEF SaveState
<1>9. Right([state[e] EXCEPT !.pending = None])
  BY <1>1, <1>2 DEF Right, Known, States, StateFields
<1>10. ASSUME AfterDrop(e)
       PROVE  BaseOK(e)'
  <2>1. CASE DropPending(e)
    BY <1>8, <1>9, <2>1 DEF DropPending
  <2>2. CASE Stop(e) /\ disk' = [disk EXCEPT ![e] = [state[e] EXCEPT !.pending = None]]
    BY <1>1, <1>4, <1>5, <1>9, <2>2 DEF Stop
  <2> QED
    BY <1>10, <2>1, <2>2 DEF AfterDrop
<1>11. ASSUME EngineStep(e) \/ Failure(e)
       PROVE  BaseOK(e)'
  <2>1. CASE LoadState(e)
    BY <1>1, <1>4, <1>5, <2>1 DEF LoadState
  <2>2. CASE SubmitPending(e)
    BY <1>6, <1>10, <2>2 DEF SubmitPending
  <2>3. CASE UploadReply(e)
    <3>1. CASE Outcome(e) \in {"applied", "replayed"} /\ Confirm(e)
      <4>1. Right(ConfirmedState(e))
        BY <2>3, <3>1, ConfirmedIsKnown DEF Right
      <4> QED
        BY <1>8, <3>1, <4>1 DEF Confirm
    <3> QED
      BY <1>7, <1>10, <2>3, <3>1 DEF UploadReply
  <2>4. CASE AskHead(e)
    BY <1>5, <1>6, <1>8, <2>4 DEF AskHead, ResetBase, ResetState, UpToDate, StartBatch
  <2>5. CASE Fetch(e) \/ PlanRemote(e) \/ CheckDelete(e) \/ WriteCopy(e) \/ CheckPut(e)
    BY <1>6, <1>7, <2>5 DEF Fetch, PlanRemote, CheckDelete, WriteCopy, CheckPut
  <2>6. CASE \/ ListVault(e) \/ ReadFile(e) \/ TrashFile(e) \/ WriteFile(e)
             \/ PersistPacket(e)
    BY <1>6, <2>6 DEF ListVault, ReadFile, TrashFile, WriteFile, PersistPacket
  <2>7. CASE SaveBatch(e)
    <3> DEFINE s == [revision |-> work[e].end, digests |-> work[e].remote, pending |-> None]
    <3>1. work[e] \in Works
      BY DEF SystemTypeOK
    <3>2. s \in States
      BY <3>1 DEF Works, States, StateFields
    <3>3. Pulling(e)
      BY <2>7 DEF SaveBatch, Pulling, PendingInv, ContextOK
    <3>4. /\ work[e].end <= work[e].head /\ work[e].head <= Len(log)
          /\ work[e].remote = ContentsAt(work[e].end)
      BY <1>2, <3>3 DEF FetchedOK, Remote
    <3>5. work[e].end <= Len(log)
      BY <3>1, <3>4, LengthIsRevision DEF Works, Revisions
    <3>6. Right(s)
      BY <3>2, <3>4, <3>5 DEF Right, Known
    <3> QED
      BY <1>8, <2>7, <3>6 DEF SaveBatch, BatchRevision, Remote
  <2>8. CASE \/ PlanPush(e) \/ PackDelete(e) \/ PackPut(e) \/ FlushLast(e)
             \/ Report(e)
    BY <1>6, <1>7, <2>8
    DEF PlanPush, PackDelete, PackPut, AddChange, FlushLast, Flush, Report
  <2>9. CASE RecordPending(e)
    <3>1. PICK op \in OpIds : SaveState(e, RecordedState(e, op))
      BY <2>9 DEF RecordPending
    <3>2. /\ RecordedState(e, op).revision = state[e].revision
          /\ RecordedState(e, op).digests = state[e].digests
      BY <1>1 DEF RecordedState, States, StateFields
    <3>3. state'[e] = RecordedState(e, op) /\ state'[e] \in States
      BY <1>1, <2>9, <3>1, StateTypeStep DEF SaveState, EngineStep, PushStep
    <3>4. Right(RecordedState(e, op))
      BY <1>2, <3>2, <3>3 DEF Right, Known
    <3> QED
      BY <1>8, <3>1, <3>4
  <2>10. CASE Failure(e)
    BY <1>1, <1>4, <1>5, <1>7, <2>10 DEF Failure, Interrupt, DamageState
  <2> QED
    BY <1>11, <2>1, <2>2, <2>3, <2>4, <2>5, <2>6, <2>7, <2>8, <2>9, <2>10
    DEF EngineStep, PullStep, PushStep
<1>12. ASSUME NEW d \in Devices, EngineStep(d) \/ Failure(d)
       PROVE  BaseOK(e)'
  BY <1>6, <1>11, <1>12, OthersKeep DEF Own
<1>13. ASSUME NEW m \in net, HandleUpload(m)
       PROVE  BaseOK(e)'
  BY <1>6, <1>13 DEF HandleUpload
<1>14. ASSUME NEW revision, Restore(revision)
       PROVE  FALSE
  BY <1>14 DEF Restore, SystemTypeOK
<1>15. ASSUME NEW d \in Devices, UserStep(d)
       PROVE  BaseOK(e)'
  BY <1>6, <1>15, UserTypeStep DEF plugin
<1>16. CASE UNCHANGED vars
  BY <1>6, <1>16 DEF vars
<1> QED
  BY <1>12, <1>13, <1>14, <1>15, <1>16 DEF Next, ServerStep, Sync, Fail

LEMMA FetchedStep ==
  ASSUME SystemTypeOK, PendingInv, BaseInv, restores' = 0, [Next]_vars, NEW e \in Devices
  PROVE  FetchedOK(e)'
<1>1. /\ work \in [Devices -> Works] /\ work[e] \in Works
      /\ pc \in [Devices -> Labels] /\ pc[e] \in Labels
      /\ work[e].end \in Revisions /\ work[e].head \in Revisions
      /\ state[e].revision \in Revisions
  BY StateParts DEF SystemTypeOK, Works
<1>2. FetchedOK(e) /\ Known(state[e]) /\ LogOK
  BY DEF BaseInv, BaseOK
<1>3. \A r \in Revisions : r <= Len(log) =>
        Len(log) <= Len(log') /\ ContentsIn(log', r) = ContentsAt(r)
  BY LogStep, LengthIsRevision DEF ContentsAt, ContentsIn, Revisions
(* A step that does not touch what has been fetched.                       *)
<1>4. ASSUME Pulling(e)' => Pulling(e), Pulling(e)' => pc'[e] # "fetch" \/ UNCHANGED pc[e],
             work'[e].end = work[e].end, work'[e].head = work[e].head,
             work'[e].remote = work[e].remote
      PROVE  FetchedOK(e)'
  <2> SUFFICES ASSUME Pulling(e)'
               PROVE  /\ work[e].end <= work[e].head /\ work[e].head <= Len(log')
                      /\ pc'[e] = "fetch" => work[e].end # work[e].head
                      /\ work[e].remote = ContentsIn(log', work[e].end)
    BY <1>4 DEF FetchedOK, Remote, ContentsAt, ContentsIn
  <2>1. /\ work[e].end <= work[e].head /\ work[e].head <= Len(log)
        /\ pc[e] = "fetch" => work[e].end # work[e].head
        /\ work[e].remote = ContentsAt(work[e].end)
    BY <1>2, <1>4 DEF FetchedOK, Remote
  <2>2. work[e].end <= Len(log)
    BY <1>1, <2>1, LengthIsRevision DEF Revisions
  <2> QED
    BY <1>1, <1>3, <1>4, <2>1, <2>2, LogStep, LengthIsRevision DEF Revisions
<1>5. ASSUME UNCHANGED <<work[e], pc[e]>>
      PROVE  FetchedOK(e)'
  BY <1>4, <1>5 DEF Pulling
<1>6. ASSUME ~Pulling(e)'
      PROVE  FetchedOK(e)'
  BY <1>6 DEF FetchedOK
<1>7. ASSUME Stop(e)
      PROVE  FetchedOK(e)'
  BY <1>1, <1>6, <1>7 DEF Stop, Pulling
<1>8. CASE LoadState(e) \/ SubmitPending(e) \/ UploadReply(e)
  <2>1. pc'[e] \in {"submit", "reply", "head", "idle", "pack"}
    BY <1>1, <1>8
    DEF LoadState, SubmitPending, UploadReply, AfterDrop, Confirm, Stop, Goto
  <2> QED
    BY <1>6, <2>1 DEF Pulling
<1>9. CASE AskHead(e)
  <2>1. CASE ResetBase(e)
    BY <1>1, <1>6, <1>9, <2>1 DEF AskHead, ResetBase, Pulling
  <2>2. CASE UpToDate(e)
    BY <1>1, <1>6, <2>2 DEF UpToDate, Pulling, Works
  <2>3. CASE StartBatch(e)
    <3>1. /\ work'[e].head = Len(log) /\ work'[e].end = state[e].revision
          /\ work'[e].remote = state[e].digests
      BY <1>1, <2>3 DEF StartBatch, Works
    <3>2. UNCHANGED log
      BY <1>9 DEF AskHead, server
    <3>3. state[e].revision < Len(log) /\ state[e].digests = ContentsAt(state[e].revision)
      BY <1>1, <1>2, <2>3, LengthIsRevision DEF Known, StartBatch, Revisions
    <3> QED
      BY <1>1, <3>1, <3>2, <3>3, LengthIsRevision
      DEF FetchedOK, Remote, ContentsAt, Revisions
  <2> QED
    BY <1>9, <2>1, <2>2, <2>3 DEF AskHead
<1>10. CASE Fetch(e)
  <2> DEFINE next == work[e].end + 1
  <2>1. Pulling(e) /\ pc[e] = "fetch"
    BY <1>10 DEF Fetch, Pulling, PendingInv, ContextOK
  <2>2. /\ work[e].end <= work[e].head /\ work[e].head <= Len(log)
        /\ work[e].end # work[e].head /\ work[e].remote = ContentsAt(work[e].end)
    BY <1>2, <2>1 DEF FetchedOK, Remote
  <2>3. /\ next \in Revisions /\ next <= work[e].head /\ next <= Len(log)
        /\ work[e].end \in 0 .. Len(log) - 1
    BY <1>1, <2>2, LengthIsRevision DEF Revisions
  <2>4. ~(next > Len(log))
    BY <2>3, LengthIsRevision DEF Revisions
  <2>5. /\ work' = [work EXCEPT ![e].end = next, ![e].remote = ApplyPacket(@, log[next].body)]
        /\ Goto(e, IF BatchEnds(e, next) THEN "list" ELSE "fetch")
        /\ UNCHANGED log
    BY <1>10, <2>4 DEF Fetch, server
  <2>6. ApplyPacket(work[e].remote, log[next].body) = ContentsAt(next)
    BY <1>2, <2>2, <2>3, NextContents DEF ContentsAt, ContentsIn
  <2>7. /\ work'[e].end = next /\ work'[e].head = work[e].head
        /\ work'[e].remote = ContentsAt(next)
    BY <1>1, <2>5, <2>6 DEF Works
  <2>8. pc'[e] = "fetch" => next # work[e].head
    BY <1>1, <2>5 DEF Goto, BatchEnds
  <2> HIDE DEF next
  <2> QED
    BY <2>2, <2>3, <2>5, <2>7, <2>8 DEF FetchedOK, Remote, ContentsAt
<1>11. CASE ListVault(e)
  BY <1>4, <1>11, ListKeeps DEF Pulling, Same
<1>12. CASE ReadFile(e)
  <2> DEFINE p == First(work[e].todo)
             found == [work[e].local EXCEPT ![p] = files[e][p]]
  <2>1. work' = [work EXCEPT ![e] = [work[e] EXCEPT !.local = found, !.todo = @ \ {p}]]
    BY <1>12 DEF ReadFile
  <2> HIDE DEF p, found
  <2> QED
    BY <1>1, <1>4, <1>12, <2>1 DEF ReadFile, Pulling, Works
<1>13. CASE PlanRemote(e) /\ ~Stop(e)
  <2>1. PICK name : work' = [work EXCEPT ![e].deletes = PlannedDeletes(e),
                                         ![e].copies = CopiesNamed(e, name),
                                         ![e].puts = PlannedPuts(e)]
    BY <1>13 DEF PlanRemote
  <2>2. pc[e] = "scan" /\ pc'[e] = "apply"
    BY <1>1, <1>13 DEF PlanRemote, Goto
  <2> QED
    BY <1>1, <1>4, <2>1, <2>2 DEF Pulling, Works
<1>14. CASE CheckDelete(e) \/ TrashFile(e)
  BY <1>1, <1>4, <1>7, <1>14 DEF CheckDelete, TrashFile, Goto, Pulling, Works
<1>15. CASE CheckPut(e) \/ WriteFile(e)
  BY <1>1, <1>4, <1>7, <1>15 DEF CheckPut, WriteFile, Goto, Pulling, Works
<1>16. CASE WriteCopy(e)
  BY <1>1, <1>4, <1>7, <1>16 DEF WriteCopy, Pulling, Works
<1>17. CASE \/ SaveBatch(e) \/ PlanPush(e) \/ PackDelete(e) \/ PackPut(e) \/ FlushLast(e)
            \/ PersistPacket(e) \/ RecordPending(e) \/ Report(e)
  <2>1. pc'[e] \in {"idle", "head", "pack", "persist", "record", "submit", "done"}
    BY <1>1, <1>17
    DEF SaveBatch, PlanPush, PackDelete, PackPut, AddChange, FlushLast, Flush,
        PersistPacket, RecordPending, Report, Stop, Goto
  <2> QED
    BY <1>6, <2>1 DEF Pulling
<1>18. CASE Failure(e)
  BY <1>5, <1>7, <1>18 DEF Failure, Interrupt, DamageState
<1>19. CASE PlanRemote(e) /\ Stop(e)
  BY <1>7, <1>19
<1>20. ASSUME NEW d \in Devices, EngineStep(d) \/ Failure(d), d # e
       PROVE  FetchedOK(e)'
  BY <1>5, <1>20, OthersKeep DEF Own
<1>21. ASSUME NEW m \in net, HandleUpload(m)
       PROVE  FetchedOK(e)'
  BY <1>5, <1>21 DEF HandleUpload
<1>22. ASSUME NEW revision, Restore(revision)
       PROVE  FALSE
  BY <1>22 DEF Restore, SystemTypeOK
<1>23. ASSUME NEW d \in Devices, UserStep(d)
       PROVE  FetchedOK(e)'
  BY <1>5, <1>23, UserTypeStep DEF plugin
<1>24. CASE UNCHANGED vars
  BY <1>5, <1>24 DEF vars
<1>25. ASSUME EngineStep(e)
       PROVE  FetchedOK(e)'
  BY <1>8, <1>9, <1>10, <1>11, <1>12, <1>13, <1>14, <1>15, <1>16, <1>17, <1>19, <1>25
  DEF EngineStep, PullStep, PushStep
<1> QED
  BY <1>18, <1>20, <1>21, <1>22, <1>23, <1>24, <1>25 DEF Next, ServerStep, Sync, Fail

LEMMA BaseStart == Init => BaseInv
<1> SUFFICES ASSUME Init PROVE BaseInv
  OBVIOUS
<1>1. NetOK
  BY DEF Init, NetOK
<1>2. LogOK
  <2>1. CASE SharedStart = NoFiles
    BY <2>1 DEF Init, StartLog, LogOK
  <2>2. CASE SharedStart # NoFiles
    <3> DEFINE body == [p \in Present(SharedStart) |-> SharedStart[p]]
    <3>1. /\ Len(log) = 1 /\ log[1].contents = SharedStart /\ log[1].body = body
      BY <2>2 DEF Init, StartLog
    <3>2. ApplyPacket(NoFiles, body) = SharedStart
      BY SyncSystemAssumption DEF ApplyPacket, NoFiles, Present, Digests
    <3>3. \A r \in 1 .. Len(log) : r = 1
      BY <3>1
    <3> HIDE DEF body
    <3>4. ContentsAt(1 - 1) = NoFiles
      BY DEF ContentsAt
    <3> QED
      BY <3>1, <3>2, <3>3, <3>4 DEF LogOK
  <2> QED
    BY <2>1, <2>2
<1>3. ASSUME NEW d \in Devices
      PROVE  BaseOK(d) /\ FetchedOK(d) /\ ReplyOK(d)
  <2>1. Known(FreshState)
    BY DEF Known, FreshState, ContentsAt, Init, StartLog
  <2>2. StartDisk = None \/ Known(StartDisk)
    BY DEF Known, StartDisk, StartLog, ContentsAt, Init
  <2>3. pc[d] = "idle" /\ reply[d] = None /\ state[d] = FreshState /\ disk[d] = StartDisk
    BY DEF Init
  <2> QED
    BY <2>1, <2>2, <2>3 DEF BaseOK, FetchedOK, Pulling, ReplyOK
<1> QED
  BY <1>1, <1>2, <1>3 DEF BaseInv

LEMMA BaseInvStep ==
  ASSUME SystemTypeOK, PendingInv, BaseInv, restores' = 0, [Next]_vars
  PROVE  BaseInv'
<1>1. NetOK /\ LogOK /\ \A d \in Devices : ReplyOK(d)
  BY DEF BaseInv
<1>2. NetOK'
  <2>1. ASSUME UNCHANGED <<net, pc, reply, state, pendingFile>>
        PROVE  NetOK'
    BY <1>1, <2>1 DEF NetOK
  <2>2. ASSUME NEW d \in Devices, UserStep(d)
        PROVE  NetOK'
    BY <2>1, <2>2, UserTypeStep DEF server, plugin
  <2>3. ASSUME NEW revision, Restore(revision)
        PROVE  FALSE
    BY <2>3 DEF Restore, SystemTypeOK
  <2>4. CASE UNCHANGED vars
    BY <2>1, <2>4 DEF vars
  <2> QED
    BY <1>1, <2>2, <2>3, <2>4, HandledNet, SyncedNet DEF Next, ServerStep, Sync, Fail
<1> QED
  BY <1>1, <1>2, LogInvStep, BaseStep, FetchedStep, ReplyStep DEF BaseInv

(* A restoration is not undone. *)
LEMMA RestoresStep ==
  ASSUME SystemTypeOK, [Next]_vars
  PROVE  restores' \in {restores, restores + 1} /\ (restores' = 0 => restores = 0)
<1>1. restores \in Nat
  BY DEF SystemTypeOK
<1>2. ASSUME NEW m \in net, HandleUpload(m)
      PROVE  restores' = restores
  BY <1>2 DEF HandleUpload
<1>3. ASSUME NEW revision, Restore(revision)
      PROVE  restores' = restores + 1
  BY <1>3 DEF Restore
<1>4. ASSUME NEW d \in Devices, UserStep(d)
      PROVE  restores' = restores
  BY <1>4, UserTypeStep
<1>5. restores' \in {restores, restores + 1}
  BY <1>2, <1>3, <1>4 DEF Next, ServerStep, Sync, Fail, vars
<1> QED
  BY <1>1, <1>5

LEMMA BaseInvHolds == Spec => [](SystemTypeOK /\ PendingInv /\ (restores = 0 => BaseInv))
<1> DEFINE Inv == SystemTypeOK /\ PendingInv /\ (restores = 0 => BaseInv)
<1>1. Init => Inv
  BY TypeStart, PendingStart, BaseStart
<1>2. Inv /\ [Next]_vars => Inv'
  BY TypeStep, PendingStep, BaseInvStep, RestoresStep
<1> HIDE DEF Inv
<1>3. Spec => []Inv
  BY <1>1, <1>2, PTL DEF Spec
<1> QED
  BY <1>3 DEF Inv

(* Until the server is restored from a backup, the base of a device - in   *)
(* memory and in sync-state.json - is what the server had at the base's    *)
(* revision, whatever uploads are lost, repeated or answered late.         *)
THEOREM BasesAreRight == Spec => [](restores = 0 => BaseIsServerContents)
<1>1. BaseInv => BaseIsServerContents
  BY DEF BaseInv, BaseOK, Known, BaseIsServerContents, IsBase
<1> QED
  BY <1>1, BaseInvHolds, PTL

-----------------------------------------------------------------------------
(* What is replaced. *)

LEMMA PlanStart == Init => PlanInv
  BY DEF Init, PlanInv, PlanOK

LEMMA PlanOwnStep ==
  ASSUME SystemTypeOK, PendingInv, NEW d \in Devices, PlanOK(d), EngineStep(d) \/ Failure(d)
  PROVE  PlanOK(d)'
<1> DEFINE Applying == {"apply", "trash", "write"}
<1>1. /\ work \in [Devices -> Works] /\ work[d] \in Works
      /\ pc \in [Devices -> Labels] /\ pc[d] \in Labels
  BY DEF SystemTypeOK
<1>2. ASSUME pc'[d] \notin Applying
      PROVE  PlanOK(d)'
  BY <1>2 DEF PlanOK
<1>3. ASSUME Stop(d)
      PROVE  PlanOK(d)'
  BY <1>1, <1>2, <1>3 DEF Stop
(* A step that goes on with the plan.                                      *)
<1>4. ASSUME pc[d] \in Applying, pc'[d] = "apply", UNCHANGED state[d],
             work'[d].local = work[d].local,
             work'[d].deletes \subseteq work[d].deletes, work'[d].puts \subseteq work[d].puts
      PROVE  PlanOK(d)'
  BY <1>4 DEF PlanOK, Local, Base
<1>5. CASE LoadState(d) \/ SubmitPending(d) \/ UploadReply(d)
  BY <1>1, <1>2, <1>3, <1>5
  DEF LoadState, SubmitPending, UploadReply, AfterDrop, Confirm, Goto
<1>6. CASE AskHead(d) \/ Fetch(d) \/ ListVault(d) \/ ReadFile(d)
  BY <1>1, <1>2, <1>3, <1>6
  DEF AskHead, ResetBase, UpToDate, StartBatch, Fetch, ListVault, ReadFile, Goto
<1>7. CASE PlanRemote(d) /\ ~Stop(d)
  <2>1. PICK name : work' = [work EXCEPT ![d].deletes = PlannedDeletes(d),
                                         ![d].copies = CopiesNamed(d, name),
                                         ![d].puts = PlannedPuts(d)]
    BY <1>7 DEF PlanRemote
  <2>2. pc'[d] = "apply" /\ UNCHANGED state
    BY <1>1, <1>7 DEF PlanRemote, Goto
  <2>3. /\ work'[d].local = work[d].local /\ work'[d].deletes = PlannedDeletes(d)
        /\ work'[d].puts = PlannedPuts(d)
    BY <1>1, <2>1 DEF Works
  <2>4. \A p \in PlannedDeletes(d) \cup PlannedPuts(d) : Local(d)[p] \in {None, Base(d)[p]}
    BY DEF PlannedDeletes, PlannedPuts, Incoming, Pulls, Conflicts
  <2> QED
    BY <2>2, <2>3, <2>4 DEF PlanOK, Local, Base
<1>8. CASE PlanRemote(d) /\ Stop(d)
  BY <1>3, <1>8
<1>9. CASE CheckDelete(d)
  <2>1. CASE work' = [work EXCEPT ![d].deletes = @ \ {NextDelete(d)}] /\ UNCHANGED <<pc, state>>
    BY <1>1, <1>4, <1>9, <2>1 DEF CheckDelete, Works
  <2>2. CASE AsScanned(d, NextDelete(d)) /\ Goto(d, "trash") /\ UNCHANGED <<state, work>>
    BY <1>1, <1>9, <2>2 DEF CheckDelete, Goto, PlanOK, AsScanned, Local, Base, NextDelete
  <2> QED
    BY <1>3, <1>9, <2>1, <2>2 DEF CheckDelete
<1>10. CASE TrashFile(d) \/ WriteFile(d)
  BY <1>1, <1>4, <1>10 DEF TrashFile, WriteFile, Goto, Works
<1>11. CASE WriteCopy(d)
  BY <1>1, <1>3, <1>4, <1>11 DEF WriteCopy, Works
<1>12. CASE CheckPut(d)
  <2>1. CASE work' = [work EXCEPT ![d].puts = @ \ {NextPut(d)}] /\ UNCHANGED <<pc, state>>
    BY <1>1, <1>4, <1>12, <2>1 DEF CheckPut, Works
  <2>2. CASE AsScanned(d, NextPut(d)) /\ Goto(d, "write") /\ UNCHANGED <<state, work>>
    BY <1>1, <1>12, <2>2 DEF CheckPut, Goto, PlanOK, AsScanned, Local, Base, NextPut
  <2> QED
    BY <1>3, <1>12, <2>1, <2>2 DEF CheckPut
<1>13. CASE SaveBatch(d)
  BY <1>1, <1>2, <1>13 DEF SaveBatch, Goto
<1>14. CASE PushStep(d)
  BY <1>1, <1>2, <1>3, <1>14
  DEF PushStep, PlanPush, PackDelete, PackPut, AddChange, FlushLast, Flush,
      PersistPacket, RecordPending, Report, Goto
<1>15. CASE Failure(d)
  BY <1>1, <1>2, <1>3, <1>15 DEF Failure, Interrupt, DamageState
<1> QED
  BY <1>5, <1>6, <1>7, <1>8, <1>9, <1>10, <1>11, <1>12, <1>13, <1>14, <1>15
  DEF EngineStep, PullStep

LEMMA PlanStep ==
  ASSUME SystemTypeOK, PendingInv, PlanInv, EditsInWindow = FALSE, [Next]_vars
  PROVE  PlanInv'
<1> SUFFICES ASSUME NEW e \in Devices
             PROVE  PlanOK(e)'
  BY DEF PlanInv
<1>1. PlanOK(e)
  BY DEF PlanInv
<1>2. ASSUME UNCHANGED <<Own(e), files[e]>>
      PROVE  PlanOK(e)'
  BY <1>1, <1>2
  DEF PlanOK, Own, Local, Base, AsScanned, NextDelete, NextPut
<1>3. ASSUME NEW m \in net, HandleUpload(m)
      PROVE  PlanOK(e)'
  <2>1. UNCHANGED <<pc, state, work, files>>
    BY <1>3 DEF HandleUpload
  <2> QED
    BY <1>1, <2>1 DEF PlanOK, Local, Base, AsScanned, NextDelete, NextPut
<1>4. ASSUME NEW revision, Restore(revision)
      PROVE  PlanOK(e)'
  BY <1>2, <1>4 DEF Restore, plugin, Own
(* A user does not edit what is about to be removed or written.            *)
<1>5. ASSUME NEW d \in Devices, UserStep(d)
      PROVE  PlanOK(e)'
  <2>1. UNCHANGED <<pc, state, work>>
    BY <1>5, UserTypeStep DEF plugin
  <2>2. CASE pc[e] \notin {"trash", "write"}
    BY <1>1, <2>1, <2>2 DEF PlanOK, Local, Base
  <2>3. CASE d # e
    <3>1. files'[e] = files[e]
      BY <1>5, <2>3 DEF UserStep, UserWrite, UserDelete, UserTakeCopy, SystemTypeOK
    <3> QED
      BY <1>1, <2>1, <3>1 DEF PlanOK, Local, Base, AsScanned, NextDelete, NextPut
  <2>4. d = e => pc[e] \notin {"trash", "write"}
    BY <1>5 DEF UserStep, UserWrite, UserDelete, UserTakeCopy, MayEdit
  <2> QED
    BY <2>2, <2>3, <2>4
<1>6. ASSUME NEW d \in Devices, EngineStep(d) \/ Failure(d)
      PROVE  PlanOK(e)'
  BY <1>1, <1>2, <1>6, OthersKeep, PlanOwnStep
<1>7. CASE UNCHANGED vars
  BY <1>2, <1>7 DEF vars, Own
<1> QED
  BY <1>3, <1>4, <1>5, <1>6, <1>7 DEF Next, ServerStep, Sync, Fail

LEMMA PlanInvHolds == EditsInWindow = FALSE /\ Spec => [](SystemTypeOK /\ PendingInv /\ PlanInv)
<1> SUFFICES ASSUME EditsInWindow = FALSE
             PROVE  Spec => [](SystemTypeOK /\ PendingInv /\ PlanInv)
  OBVIOUS
<1>1. Init => SystemTypeOK /\ PendingInv /\ PlanInv
  BY TypeStart, PendingStart, PlanStart
<1>2. (SystemTypeOK /\ PendingInv /\ PlanInv) /\ [Next]_vars => (SystemTypeOK /\ PendingInv /\ PlanInv)'
  BY TypeStep, PendingStep, PlanStep
<1> QED
  BY <1>1, <1>2, PTL DEF Spec

(* A step of the engine that changes a file finds there what the plan saw. *)
LEMMA ChangedFile ==
  ASSUME SystemTypeOK, NEW d \in Devices, PlanOK(d), EngineStep(d) \/ Failure(d),
         NEW p \in Paths, files'[d][p] # files[d][p]
  PROVE  files[d][p] \in {None, Base(d)[p]}
<1>1. files \in [Devices -> Digests] /\ files[d] \in Digests /\ work[d] \in Works
  BY DEF SystemTypeOK
<1>2. files' # files
  OBVIOUS
<1>3. CASE TrashFile(d)
  <2>1. files' = [files EXCEPT ![d] = [files[d] EXCEPT ![NextDelete(d)] = None]]
    BY <1>3 DEF TrashFile
  <2>2. p = NextDelete(d)
    BY <1>1, <2>1 DEF Digests
  <2>3. p \in work[d].deletes /\ AsScanned(d, p) /\ pc[d] = "trash"
    BY <1>3, <2>2, FirstIsIn DEF TrashFile, PlanOK, NextDelete
  <2> QED
    BY <2>3 DEF PlanOK, AsScanned
<1>4. CASE WriteFile(d)
  <2>1. files' = [files EXCEPT ![d] = [files[d] EXCEPT ![NextPut(d)] = Remote(d)[NextPut(d)]]]
    BY <1>4 DEF WriteFile
  <2>2. p = NextPut(d)
    BY <1>1, <2>1 DEF Digests
  <2>3. p \in work[d].puts /\ AsScanned(d, p) /\ pc[d] = "write"
    BY <1>4, <2>2, FirstIsIn DEF WriteFile, PlanOK, NextPut
  <2> QED
    BY <2>3 DEF PlanOK, AsScanned
<1>5. CASE WriteCopy(d)
  <2> DEFINE q == NextCopy(d)
  <2>1. files[d][q] = None
        /\ files' = [files EXCEPT ![d] = [files[d] EXCEPT ![q] = work[d].copies[q]]]
    BY <1>2, <1>5 DEF WriteCopy
  <2>2. p = q
    BY <1>1, <2>1 DEF Digests
  <2> QED
    BY <2>1, <2>2
<1> QED
  BY <1>2, <1>3, <1>4, <1>5
  DEF EngineStep, LoadState, SubmitPending, UploadReply, PullStep, AskHead, Fetch,
      ListVault, ReadFile, PlanRemote, CheckDelete, CheckPut, SaveBatch, PushStep,
      PlanPush, PackDelete, PackPut, FlushLast, PersistPacket, RecordPending, Report,
      Failure, Interrupt, DamageState

(* If no edit falls between the check of a file and its write, the engine  *)
(* overwrites and removes only files that are in the confirmed base, on    *)
(* every device and in every schedule, restorations included: never an     *)
(* edit that has not been uploaded.                                        *)
THEOREM EditsAreNotOverwritten == EditsInWindow = FALSE /\ Spec => OnlyBaseIsReplaced
<1> SUFFICES ASSUME EditsInWindow = FALSE
             PROVE  Spec => OnlyBaseIsReplaced
  OBVIOUS
<1>1. ASSUME SystemTypeOK, PlanInv, [Next]_vars, edits' = edits, NEW d \in Devices, NEW p \in Paths,
             files'[d][p] # files[d][p]
      PROVE  files[d][p] \in {None, Base(d)[p]}
  <2>1. ASSUME NEW e \in Devices, UserStep(e)
        PROVE  FALSE
    <3>1. edits' = edits + 1
      BY <2>1 DEF UserStep, UserWrite, UserDelete, UserTakeCopy
    <3>2. edits \in Int
      BY <1>1 DEF SystemTypeOK
    <3> QED
      BY <1>1, <3>1, <3>2
  <2>2. ASSUME NEW m, HandleUpload(m)
        PROVE  FALSE
    BY <1>1, <2>2 DEF HandleUpload
  <2>3. ASSUME NEW revision, Restore(revision)
        PROVE  FALSE
    BY <1>1, <2>3 DEF Restore
  <2>4. ~UNCHANGED vars
    BY <1>1 DEF vars
  <2>5. PICK e \in Devices : EngineStep(e) \/ Failure(e)
    BY <1>1, <2>1, <2>2, <2>3, <2>4 DEF Next, ServerStep, Sync, Fail
  <2>6. e = d
    BY <1>1, <2>5, OthersKeep
  <2> QED
    BY <1>1, <2>5, <2>6, ChangedFile DEF PlanInv
<1>2. SystemTypeOK /\ PlanInv /\ [Next]_vars =>
        [edits' = edits =>
           \A d \in Devices, p \in Paths :
             files'[d][p] # files[d][p] => files[d][p] \in {None, Base(d)[p]}]_vars
  BY <1>1
<1> QED
  BY <1>2, PlanInvHolds, PTL DEF Spec, OnlyBaseIsReplaced

-----------------------------------------------------------------------------
(* What is pushed. *)

LEMMA PushStart == Init => PushInv
  BY EmptyPacketType DEF Init, PushInv, PushOK, LargeOK, Pushing, NewWork

(* A change joins the packet, or starts the next one.                      *)
LEMMA AddedChange ==
  ASSUME SystemTypeOK, NEW d \in Devices, PushOK(d), pc[d] = "pack", work[d].ctx = "push",
         NEW p \in Paths, NEW value \in Contents \cup {None}, Local(d)[p] = value,
         Added(d, p, value)
  PROVE  PushOK(d)'
<1> DEFINE joined == WithChange(work[d].batch, p, value)
           next == NextPacket(d, p, value)
<1>1. /\ work \in [Devices -> Works] /\ work[d] \in Works
      /\ pc \in [Devices -> Labels] /\ work[d].batch \in Packets
  BY DEF SystemTypeOK, Works
<1>2. Pushing(d) /\ ~Flushing(d)
  BY DEF Pushing, Flushing
<1>3. /\ \A q \in Paths : Local(d)[q] # Base(d)[q] =>
             q \in work[d].deletes \cup work[d].puts \cup DOMAIN work[d].batch
             \/ q \in work[d].large
      /\ \A q \in work[d].deletes : Local(d)[q] = None
      /\ \A q \in work[d].puts : Local(d)[q] # None
      /\ \A q \in DOMAIN work[d].batch : work[d].batch[q] = Local(d)[q]
  BY <1>2 DEF PushOK, OnItsWay
<1>4. /\ DOMAIN joined = DOMAIN work[d].batch \cup {p}
      /\ \A q \in DOMAIN joined : joined[q] = Local(d)[q]
  <2>1. /\ DOMAIN joined = DOMAIN work[d].batch \cup {p}
        /\ \A q \in DOMAIN work[d].batch \cup {p} :
             joined[q] = IF q = p THEN value ELSE work[d].batch[q]
    BY DEF WithChange
  <2> HIDE DEF joined
  <2> QED
    BY <1>3, <2>1
<1>5. DOMAIN next = {p} /\ \A q \in DOMAIN next : next[q] = Local(d)[q]
  <2>1. /\ DOMAIN next = DOMAIN EmptyPacket \cup {p}
        /\ \A q \in DOMAIN EmptyPacket \cup {p} :
             next[q] = IF q = p THEN value ELSE EmptyPacket[q]
    BY DEF NextPacket, WithChange
  <2> HIDE DEF next
  <2> QED
    BY <2>1, EmptyPacketType
<1> HIDE DEF joined, next
<1>6. CASE work' = [work EXCEPT ![d].batch = joined, ![d].deletes = @ \ {p},
                                ![d].puts = @ \ {p}]
           /\ UNCHANGED <<pc, state>>
  <2>1. /\ work'[d].batch = joined /\ work'[d].deletes = work[d].deletes \ {p}
        /\ work'[d].puts = work[d].puts \ {p} /\ work'[d].local = work[d].local
        /\ work'[d].large = work[d].large /\ work'[d].ctx = "push"
    BY <1>1, <1>6 DEF Works
  <2> QED
    BY <1>3, <1>4, <1>6, <2>1 DEF PushOK, Pushing, Flushing, OnItsWay, Local, Base
<1>7. CASE work' = [work EXCEPT ![d].body = work[d].batch, ![d].batch = next,
                                ![d].deletes = @ \ {p}, ![d].puts = @ \ {p}]
           /\ Goto(d, "persist") /\ UNCHANGED state
  <2>1. /\ work'[d].batch = next /\ work'[d].deletes = work[d].deletes \ {p}
        /\ work'[d].puts = work[d].puts \ {p} /\ work'[d].local = work[d].local
        /\ work'[d].large = work[d].large
        /\ work'[d].ctx = "push" /\ work'[d].body = work[d].batch /\ pc'[d] = "persist"
    BY <1>1, <1>7 DEF Works, Goto
  <2>2. /\ Pushing(d)' /\ Flushing(d)' /\ Local(d)' = Local(d) /\ Base(d)' = Base(d)
    BY <1>7, <2>1 DEF Pushing, Flushing, Local, Base
  <2>3. \A q \in Paths : Local(d)[q] # Base(d)[q] =>
          q \in (work[d].deletes \ {p}) \cup (work[d].puts \ {p}) \cup {p}
                \cup DOMAIN work[d].batch
          \/ q \in work[d].large
    BY <1>3
  <2> QED
    BY <1>3, <1>5, <2>1, <2>2, <2>3 DEF PushOK, OnItsWay
<1>8. CASE Joined(d, p, value)
  BY <1>6, <1>8 DEF Added, Joined, joined
<1>9. CASE Started(d, p, value)
  BY <1>7, <1>9 DEF Added, Started, next
<1> QED
  BY <1>8, <1>9 DEF Added

LEMMA PushOwnStep ==
  ASSUME SystemTypeOK, PendingInv, NEW d \in Devices, PushOK(d), EngineStep(d) \/ Failure(d)
  PROVE  PushOK(d)'
<1>1. /\ work \in [Devices -> Works] /\ work[d] \in Works
      /\ pc \in [Devices -> Labels] /\ pc[d] \in Labels
      /\ state \in [Devices -> States] /\ state[d] \in States
      /\ pendingFile \in [Devices -> Packets \cup {None}]
  BY DEF SystemTypeOK
<1>2. MemoryOK(d) /\ BytesOK(d) /\ ContextOK(d)
  BY DEF PendingInv
<1>3. ASSUME ~Pushing(d)', DOMAIN work'[d].batch = {}
      PROVE  PushOK(d)'
  BY <1>3 DEF PushOK
<1>4. /\ DOMAIN NewWork.batch = {} /\ NewWork.ctx = "pull"
      /\ \A n, b : /\ [NewWork EXCEPT !.round = n, !.merging = b].batch = EmptyPacket
                   /\ [NewWork EXCEPT !.round = n, !.merging = b].ctx = "pull"
  BY EmptyPacketType DEF NewWork
<1>5. ASSUME Stop(d)
      PROVE  PushOK(d)'
  BY <1>1, <1>3, <1>4, <1>5 DEF Stop, Pushing
(* A step outside of a push, which does not touch the packet.              *)
<1>6. ASSUME ~Pushing(d), ~Pushing(d)', work'[d].batch = work[d].batch
      PROVE  PushOK(d)'
  BY <1>3, <1>6 DEF PushOK
<1>7. CASE LoadState(d)
  <2>1. work[d].ctx = "pull" /\ pc[d] = "idle"
    BY <1>2, <1>7 DEF LoadState, ContextOK
  <2>2. work'[d].ctx = work[d].ctx /\ work'[d].batch = work[d].batch
    BY <1>1, <1>7 DEF LoadState, Works
  <2> QED
    BY <1>6, <2>1, <2>2 DEF Pushing
<1>8. ASSUME AfterDrop(d), pc[d] \in {"submit", "reply"}
      PROVE  PushOK(d)'
  <2>1. CASE Stop(d)
    BY <1>5, <2>1
  <2>2. CASE NewRound(d, work[d].round + 1)
    <3>1. work'[d].ctx = "pull" /\ DOMAIN work'[d].batch = {}
      BY <1>1, <1>4, <2>2, EmptyPacketType DEF NewRound
    <3> QED
      BY <1>3, <3>1 DEF Pushing
  <2>3. CASE work[d].ctx = "pull" /\ UNCHANGED work
    BY <1>6, <2>3 DEF Pushing
  <2> QED
    BY <1>8, <2>1, <2>2, <2>3 DEF AfterDrop
<1>9. CASE SubmitPending(d)
  <2>1. CASE Goto(d, "reply") /\ UNCHANGED <<disk, pendingFile, state, work>>
    <3>1. pc[d] = "submit" /\ pc'[d] = "reply"
      BY <1>1, <1>9, <2>1 DEF SubmitPending, Goto
    <3> QED
      BY <2>1, <3>1 DEF PushOK, Pushing, Flushing, OnItsWay, Local, Base
  <2> QED
    BY <1>8, <1>9, <2>1 DEF SubmitPending
<1>10. CASE UploadReply(d)
  <2>1. CASE Confirm(d)
    <3>1. /\ work'[d].ctx = work[d].ctx /\ work'[d].batch = work[d].batch
          /\ work'[d].local = work[d].local /\ work'[d].deletes = work[d].deletes
          /\ work'[d].puts = work[d].puts /\ work'[d].large = work[d].large
      BY <1>1, <2>1 DEF Confirm, Works
    <3>2. pc[d] = "reply" /\ pc'[d] = IF work[d].ctx = "push" THEN "pack" ELSE "head"
      BY <1>1, <1>10, <2>1 DEF UploadReply, Confirm, Goto
    <3>3. CASE work[d].ctx = "pull"
      BY <1>6, <3>1, <3>2, <3>3 DEF Pushing
    <3>4. CASE work[d].ctx = "push"
      <4>1. Pushing(d) /\ Flushing(d) /\ pendingFile[d] = work[d].body
        BY <3>2, <3>4 DEF Pushing, Flushing, PushOK
      <4>2. Base(d)' = ApplyPacket(Base(d), work[d].body)
        BY <1>1, <2>1, <4>1 DEF Confirm, SaveState, ConfirmedState, Base
      <4>3. \A p \in Paths :
              Base(d)'[p] = IF p \in DOMAIN work[d].body THEN Local(d)[p] ELSE Base(d)[p]
        BY <4>1, <4>2 DEF ApplyPacket, PushOK
      <4>4. \A p \in Paths : Local(d)[p] # Base(d)'[p] =>
              \/ p \in work[d].deletes \cup work[d].puts \cup DOMAIN work[d].batch
              \/ p \in work[d].large
        BY <4>1, <4>3 DEF PushOK, OnItsWay
      <4>5. /\ \A p \in work[d].deletes : Local(d)[p] = None
            /\ \A p \in work[d].puts : Local(d)[p] # None
            /\ \A p \in DOMAIN work[d].batch : work[d].batch[p] = Local(d)[p]
        BY <4>1 DEF PushOK
      <4> QED
        BY <3>1, <3>2, <3>4, <4>4, <4>5 DEF PushOK, Pushing, Flushing, OnItsWay, Local
    <3> QED
      BY <1>1, <3>3, <3>4 DEF Works
  <2> QED
    BY <1>5, <1>8, <1>10, <2>1 DEF UploadReply
<1>11. CASE AskHead(d) \/ Fetch(d) \/ ListVault(d)
  <2>1. CASE AskHead(d) \/ Fetch(d)
    BY <1>1, <1>5, <1>6, <2>1
    DEF AskHead, ResetBase, UpToDate, StartBatch, Fetch, Goto, Pushing, Works
  <2>2. CASE ListVault(d)
    BY <1>6, <2>2, ListKeeps DEF Pushing
  <2> QED
    BY <1>11, <2>1, <2>2
<1>12. CASE ReadFile(d)
  <2> DEFINE p == First(work[d].todo)
             found == [work[d].local EXCEPT ![p] = files[d][p]]
  <2>1. work' = [work EXCEPT ![d] = [work[d] EXCEPT !.local = found, !.todo = @ \ {p}]]
    BY <1>12 DEF ReadFile
  <2> HIDE DEF p, found
  <2> QED
    BY <1>1, <1>6, <1>12, <2>1 DEF ReadFile, Pushing, Works
<1>13. CASE PlanRemote(d)
  <2>1. CASE Stop(d)
    BY <1>5, <2>1
  <2>2. ASSUME NEW name, work' = [work EXCEPT ![d].deletes = PlannedDeletes(d),
                                              ![d].copies = CopiesNamed(d, name),
                                              ![d].puts = PlannedPuts(d)],
               Goto(d, "apply")
        PROVE  PushOK(d)'
    <3>1. work'[d].batch = work[d].batch /\ pc'[d] = "apply" /\ pc[d] = "scan"
      BY <1>1, <1>13, <2>2 DEF PlanRemote, Goto, Works
    <3> QED
      BY <1>6, <3>1 DEF Pushing
  <2> QED
    BY <1>13, <2>1, <2>2 DEF PlanRemote
<1>14. CASE CheckDelete(d) \/ TrashFile(d)
  BY <1>1, <1>5, <1>6, <1>14 DEF CheckDelete, TrashFile, Goto, Pushing, Works
<1>15. CASE CheckPut(d) \/ WriteFile(d)
  BY <1>1, <1>5, <1>6, <1>15 DEF CheckPut, WriteFile, Goto, Pushing, Works
<1>16. CASE WriteCopy(d)
  BY <1>1, <1>5, <1>6, <1>16 DEF WriteCopy, Pushing, Works
<1>17. CASE SaveBatch(d)
  <2>1. work'[d].ctx = "pull" /\ work'[d].batch = EmptyPacket
    BY <1>1, <1>4, <1>17 DEF SaveBatch
  <2> QED
    BY <1>3, <2>1, EmptyPacketType DEF Pushing
<1>18. CASE PlanPush(d)
  <2>1. CASE Stop(d)
    BY <1>5, <2>1
  <2>2. CASE work' = [work EXCEPT ![d].deletes = PushedDeletes(d), ![d].puts = PushedPuts(d)]
             /\ Goto(d, "pack") /\ UNCHANGED state
    <3>1. /\ work'[d].deletes = PushedDeletes(d) /\ work'[d].puts = PushedPuts(d)
          /\ work'[d].local = work[d].local /\ work'[d].batch = work[d].batch
          /\ work'[d].large = work[d].large /\ pc'[d] = "pack" /\ pc[d] = "scan"
      BY <1>1, <1>18, <2>2 DEF PlanPush, Goto, Works
    <3>2. DOMAIN work[d].batch = {}
      BY <3>1 DEF PushOK, Pushing
    <3>3. \A p \in Paths : Local(d)[p] # Base(d)[p] =>
            p \in PushedDeletes(d) \cup PushedPuts(d) \/ p \in work[d].large
      BY DEF PushedDeletes, PushedPuts, Changed, Pushes
    <3>4. /\ \A p \in PushedDeletes(d) : Local(d)[p] = None
          /\ \A p \in PushedPuts(d) : Local(d)[p] # None
      BY DEF PushedDeletes, PushedPuts
    <3> QED
      BY <2>2, <3>1, <3>2, <3>3, <3>4 DEF PushOK, Pushing, Flushing, OnItsWay, Local, Base
  <2> QED
    BY <1>18, <2>1, <2>2 DEF PlanPush
<1>19. CASE PackDelete(d)
  <2>1. pc[d] = "pack" /\ work[d].ctx = "push" /\ NextDelete(d) \in work[d].deletes
    BY <1>2, <1>19, FirstIsIn DEF PackDelete, ContextOK, NextDelete
  <2>2. NextDelete(d) \in Paths /\ Local(d)[NextDelete(d)] = None
    BY <1>1, <2>1 DEF Works, PushOK, Pushing
  <2> QED
    BY <1>5, <1>19, <2>1, <2>2, AddChangeCases, AddedChange DEF PackDelete
<1>20. CASE PackPut(d)
  <2>1. CASE Stop(d)
    BY <1>5, <2>1
  <2>2. CASE Added(d, NextPut(d), Local(d)[NextPut(d)])
    <3>1. pc[d] = "pack" /\ work[d].ctx = "push" /\ NextPut(d) \in work[d].puts
      BY <1>2, <1>20, FirstIsIn DEF PackPut, ContextOK, NextPut
    <3>2. NextPut(d) \in Paths /\ Local(d) \in Digests
      BY <1>1, <3>1 DEF Works, Local
    <3>3. Local(d)[NextPut(d)] \in Contents \cup {None}
      BY <3>2 DEF Digests
    <3> QED
      BY <2>2, <3>1, <3>2, <3>3, AddedChange
  <2> QED
    BY <1>20, <2>1, <2>2, AddChangeCases DEF PackPut
<1>21. CASE FlushLast(d)
  <2>1. pc[d] = "pack" /\ work[d].ctx = "push"
    BY <1>2, <1>21 DEF FlushLast, ContextOK
  <2>2. work[d].deletes = {} /\ work[d].puts = {}
    BY <1>21 DEF FlushLast
  <2>3. CASE Flushed(d)
    <3>1. /\ work'[d].body = work[d].batch /\ work'[d].batch = EmptyPacket
          /\ work'[d].deletes = {} /\ work'[d].puts = {} /\ work'[d].ctx = "push"
          /\ work'[d].local = work[d].local /\ work'[d].large = work[d].large
          /\ pc'[d] = "persist" /\ UNCHANGED state
      BY <1>1, <2>1, <2>2, <2>3 DEF Flushed, Works, Goto
    <3> QED
      BY <2>1, <2>2, <3>1, EmptyPacketType
      DEF PushOK, Pushing, Flushing, OnItsWay, Local, Base
  <2>4. CASE Finished(d)
    <3>1. pc'[d] = "done" /\ DOMAIN work[d].batch = {} /\ UNCHANGED <<state, work>>
      BY <1>1, <2>4 DEF Finished, Goto
    <3> QED
      BY <2>1, <2>2, <3>1 DEF PushOK, Pushing, Flushing, OnItsWay, Local, Base
  <2> QED
    BY <1>5, <1>21, <2>3, <2>4, FlushLastCases
<1>22. CASE PersistPacket(d)
  <2>1. pc[d] = "persist" /\ pc'[d] = "record" /\ UNCHANGED <<state, work>>
    BY <1>1, <1>22 DEF PersistPacket, Goto
  <2> QED
    BY <2>1 DEF PushOK, Pushing, Flushing, OnItsWay, Local, Base
<1>23. CASE RecordPending(d)
  <2>1. PICK op \in OpIds : SaveState(d, RecordedState(d, op))
    BY <1>23 DEF RecordPending
  <2>2. Base(d)' = Base(d)
    BY <1>1, <2>1 DEF SaveState, RecordedState, Base, States, StateFields
  <2>3. /\ pc[d] = "record" /\ pc'[d] = "submit" /\ UNCHANGED <<work, pendingFile>>
        /\ pendingFile[d] = work[d].body
    BY <1>1, <1>2, <1>23 DEF RecordPending, Goto, BytesOK
  <2> QED
    BY <2>2, <2>3 DEF PushOK, Pushing, Flushing, OnItsWay, Local
<1>24. CASE Report(d)
  BY <1>5, <1>24 DEF Report
<1>25. CASE Failure(d)
  <2>1. CASE DamageState(d)
    BY <2>1 DEF DamageState, PushOK, Pushing, Flushing, OnItsWay, Local, Base
  <2> QED
    BY <1>5, <1>25, <2>1 DEF Failure, Interrupt
<1> QED
  BY <1>7, <1>9, <1>10, <1>11, <1>12, <1>13, <1>14, <1>15, <1>16, <1>17, <1>18, <1>19,
     <1>20, <1>21, <1>22, <1>23, <1>24, <1>25
  DEF EngineStep, PullStep, PushStep

(* What is listed as too large stays so until the next scan.               *)
LEMMA LargeOwnStep ==
  ASSUME SystemTypeOK, NEW d \in Devices, LargeOK(d), EngineStep(d) \/ Failure(d)
  PROVE  LargeOK(d)'
<1>1. /\ work \in [Devices -> Works] /\ work[d] \in Works /\ files \in [Devices -> Digests]
  BY DEF SystemTypeOK
<1>2. ASSUME work'[d].large = work[d].large, work'[d].todo = work[d].todo,
             work'[d].local = work[d].local
      PROVE  LargeOK(d)'
  BY <1>2 DEF LargeOK, Local
<1>3. ASSUME work'[d].large = {}
      PROVE  LargeOK(d)'
  BY <1>3 DEF LargeOK
<1>4. /\ NewWork.large = {}
      /\ \A n, b : [NewWork EXCEPT !.round = n, !.merging = b].large = {}
  BY DEF NewWork
<1>5. ASSUME Stop(d)
      PROVE  LargeOK(d)'
  BY <1>1, <1>3, <1>4, <1>5 DEF Stop
<1>6. ASSUME AfterDrop(d)
      PROVE  LargeOK(d)'
  <2>1. CASE NewRound(d, work[d].round + 1)
    BY <1>1, <1>3, <1>4, <2>1 DEF NewRound
  <2> QED
    BY <1>2, <1>5, <1>6, <2>1 DEF AfterDrop
<1>7. CASE LoadState(d) \/ SubmitPending(d) \/ UploadReply(d)
  <2>1. CASE Confirm(d) \/ LoadState(d)
    BY <1>1, <1>2, <2>1 DEF LoadState, Confirm, Works
  <2>2. CASE UNCHANGED work
    BY <1>2, <2>2
  <2> QED
    BY <1>5, <1>6, <1>7, <2>1, <2>2 DEF SubmitPending, UploadReply
<1>8. CASE AskHead(d) \/ Fetch(d)
  BY <1>1, <1>2, <1>5, <1>8
  DEF AskHead, ResetBase, UpToDate, StartBatch, Fetch, Works
<1>9. CASE ListVault(d)
  <2>1. PICK known \in SUBSET Present(files[d]) :
          work' = [work EXCEPT
            ![d].local = [p \in Paths |-> IF p \in known THEN files[d][p] ELSE None],
            ![d].todo = Present(files[d]) \ known,
            ![d].large = {p \in known : files[d][p] \in Oversized}]
    BY <1>9 DEF ListVault
  <2> DEFINE found == [p \in Paths |-> IF p \in known THEN files[d][p] ELSE None]
             large == {p \in known : files[d][p] \in Oversized}
  <2>2. \A p \in large : p \in known /\ found[p] \in Oversized
    BY DEF Present
  <2> HIDE DEF found, large
  <2>3. /\ work'[d].local = found /\ work'[d].large = large
        /\ work'[d].todo = Present(files[d]) \ known
    BY <1>1, <2>1 DEF found, large, Works
  <2> QED
    BY <2>2, <2>3 DEF LargeOK, Local
<1>10. CASE ReadFile(d)
  <2> DEFINE p == First(work[d].todo)
             found == [work[d].local EXCEPT ![p] = files[d][p]]
  <2>1. work' = [work EXCEPT ![d] = [work[d] EXCEPT !.local = found, !.todo = @ \ {p}]]
    BY <1>10 DEF ReadFile
  <2>2. p \in work[d].todo
    BY <1>10, FirstIsIn DEF ReadFile
  <2>3. \A q \in work[d].large : q # p /\ found[q] = work[d].local[q]
    BY <1>1, <2>2 DEF LargeOK, Works, Digests
  <2> HIDE DEF p, found
  <2>4. /\ work'[d].local = found /\ work'[d].large = work[d].large
        /\ work'[d].todo = work[d].todo \ {p}
    BY <1>1, <2>1 DEF Works
  <2> QED
    BY <2>3, <2>4 DEF LargeOK, Local
<1>11. CASE PlanRemote(d)
  <2>1. ASSUME NEW name, work' = [work EXCEPT ![d].deletes = PlannedDeletes(d),
                                              ![d].copies = CopiesNamed(d, name),
                                              ![d].puts = PlannedPuts(d)]
        PROVE  LargeOK(d)'
    BY <1>1, <1>2, <2>1 DEF Works
  <2> QED
    BY <1>5, <1>11, <2>1 DEF PlanRemote
<1>12. CASE CheckDelete(d) \/ TrashFile(d) \/ CheckPut(d) \/ WriteFile(d)
  BY <1>1, <1>2, <1>5, <1>12 DEF CheckDelete, TrashFile, CheckPut, WriteFile, Works
<1>13. CASE WriteCopy(d)
  BY <1>1, <1>2, <1>5, <1>13 DEF WriteCopy, Works
<1>14. CASE SaveBatch(d)
  BY <1>1, <1>3, <1>4, <1>14 DEF SaveBatch
<1>15. CASE PlanPush(d)
  BY <1>1, <1>2, <1>5, <1>15 DEF PlanPush, Works
<1>16. CASE PackDelete(d) \/ PackPut(d) \/ FlushLast(d)
  BY <1>2, <1>5, <1>16, PackKeeps
<1>18. CASE PersistPacket(d) \/ RecordPending(d) \/ Report(d)
  BY <1>2, <1>5, <1>18 DEF PersistPacket, RecordPending, Report
<1>19. CASE Failure(d)
  BY <1>2, <1>5, <1>19 DEF Failure, Interrupt, DamageState
<1> QED
  BY <1>7, <1>8, <1>9, <1>10, <1>11, <1>12, <1>13, <1>14, <1>15, <1>16, <1>18, <1>19
  DEF EngineStep, PullStep, PushStep

LEMMA PushInvStep ==
  ASSUME SystemTypeOK, PendingInv, PushInv, [Next]_vars
  PROVE  PushInv'
<1> SUFFICES ASSUME NEW e \in Devices
             PROVE  PushOK(e)' /\ LargeOK(e)'
  BY DEF PushInv
<1>1. PushOK(e) /\ LargeOK(e)
  BY DEF PushInv
<1>2. ASSUME UNCHANGED <<pc[e], state[e], work[e], pendingFile[e]>>
      PROVE  PushOK(e)' /\ LargeOK(e)'
  BY <1>1, <1>2 DEF PushOK, LargeOK, Pushing, Flushing, OnItsWay, Local, Base
<1>3. ASSUME NEW m \in net, HandleUpload(m)
      PROVE  PushOK(e)' /\ LargeOK(e)'
  BY <1>2, <1>3 DEF HandleUpload
<1>4. ASSUME NEW revision, Restore(revision)
      PROVE  PushOK(e)' /\ LargeOK(e)'
  BY <1>2, <1>4 DEF Restore, plugin
<1>5. ASSUME NEW d \in Devices, UserStep(d)
      PROVE  PushOK(e)' /\ LargeOK(e)'
  BY <1>2, <1>5, UserTypeStep DEF plugin
<1>6. ASSUME NEW d \in Devices, EngineStep(d) \/ Failure(d)
      PROVE  PushOK(e)' /\ LargeOK(e)'
  BY <1>1, <1>2, <1>6, OthersKeep, PushOwnStep, LargeOwnStep DEF Own
<1>7. CASE UNCHANGED vars
  BY <1>2, <1>7 DEF vars
<1> QED
  BY <1>3, <1>4, <1>5, <1>6, <1>7 DEF Next, ServerStep, Sync, Fail

LEMMA PushInvHolds == Spec => []PushInv
<1>1. Init => PushInv
  BY PushStart
<1>2. (SystemTypeOK /\ PendingInv) /\ PushInv /\ [Next]_vars => PushInv'
  BY PushInvStep
<1> QED
  BY <1>1, <1>2, PendingInvHolds, PTL DEF Spec

(* A cycle that reports success has seen local files equal to what the     *)
(* server had at the revision it reports, except for files that it listed  *)
(* as too large and that are, until the server is restored from a backup.  *)
THEOREM ReportsAreRight == Spec => [](restores = 0 => SuccessMeansSynced)
<1>1. SystemTypeOK /\ PendingInv /\ BaseInv /\ PushInv => SuccessMeansSynced
  <2> SUFFICES ASSUME PendingInv, BaseInv, PushInv, NEW d \in Devices, pc[d] = "done",
                      NEW p \in Paths
               PROVE  \/ Local(d)[p] = ContentsAt(state[d].revision)[p]
                      \/ p \in work[d].large /\ Local(d)[p] \in Oversized
    BY DEF SuccessMeansSynced
  <2>1. Pushing(d) /\ PushOK(d) /\ LargeOK(d)
    BY DEF PendingInv, ContextOK, Pushing, PushInv
  <2>2. Local(d)[p] # Base(d)[p] => p \in work[d].large /\ Local(d)[p] \in Oversized
    BY <2>1 DEF PushOK, LargeOK
  <2>3. Base(d) = ContentsAt(state[d].revision)
    BY DEF BaseInv, BaseOK, Known, Base
  <2> QED
    BY <2>2, <2>3
<1> QED
  BY <1>1, BaseInvHolds, PushInvHolds, PTL

-----------------------------------------------------------------------------
(* Fresh merges. *)

LEMMA MergeStart == Init => MergeInv
  BY DEF Init, MergeInv, MergeOK, NewWork

LEMMA MergeOwnStep ==
  ASSUME SystemTypeOK, PendingInv, NEW d \in Devices, MergeOK(d), Len(log) <= PULL_BATCH,
         EngineStep(d) \/ Failure(d)
  PROVE  MergeOK(d)'
<1>1. /\ work \in [Devices -> Works] /\ work[d] \in Works
      /\ pc \in [Devices -> Labels] /\ pc[d] \in Labels
      /\ state \in [Devices -> States] /\ state[d] \in States
      /\ work[d].end \in Revisions /\ work[d].head \in Revisions
  BY DEF SystemTypeOK, Works
<1>2. MemoryOK(d) /\ ContextOK(d)
  BY DEF PendingInv
<1>3. ASSUME ~work'[d].merging
      PROVE  MergeOK(d)'
  BY <1>3 DEF MergeOK
<1>4. ~NewWork.merging
  BY DEF NewWork
<1>5. ASSUME Stop(d)
      PROVE  MergeOK(d)'
  BY <1>1, <1>3, <1>4, <1>5 DEF Stop
<1>6. ASSUME ~work[d].merging, work'[d].merging = work[d].merging
      PROVE  MergeOK(d)'
  BY <1>3, <1>6
(* A step of a pull after the last fetch.                                  *)
<1>7. ASSUME UNCHANGED state[d], work'[d].merging = work[d].merging,
             work'[d].ctx = work[d].ctx, work'[d].end = work[d].end,
             work'[d].head = work[d].head,
             pc[d] \in {"list", "scan", "apply", "trash", "write"},
             pc'[d] \in {"scan", "apply", "trash", "write"}
      PROVE  MergeOK(d)'
  BY <1>7 DEF MergeOK, Pulling, Base
<1>8. CASE LoadState(d)
  <2>1. /\ work'[d].merging = (disk[d] = None) /\ work'[d].ctx = "pull"
        /\ state'[d] = IF disk[d] = None THEN FreshState ELSE disk[d]
        /\ pc'[d] = IF state'[d].pending # None THEN "submit" ELSE "head"
    BY <1>1, <1>2, <1>8 DEF LoadState, Goto, Works, ContextOK
  <2>2. FreshState.pending = None /\ FreshState.digests = NoFiles /\ FreshState.revision = 0
    BY DEF FreshState
  <2>3. CASE disk[d] = None
    BY <2>1, <2>2, <2>3 DEF MergeOK, Pulling, Base
  <2>4. CASE disk[d] # None
    BY <1>3, <2>1, <2>4
  <2> QED
    BY <2>3, <2>4
<1>9. ASSUME AfterDrop(d), pc[d] \in {"submit", "reply"}
      PROVE  MergeOK(d)'
  <2>1. ~work[d].merging
    BY <1>9 DEF MergeOK
  <2>2. CASE Stop(d)
    BY <1>5, <2>2
  <2>3. CASE NewRound(d, work[d].round + 1)
    <3>1. \A n, b : [NewWork EXCEPT !.round = n, !.merging = b].merging = b
      BY DEF NewWork
    <3>2. work'[d].merging = work[d].merging
      BY <1>1, <2>3, <3>1 DEF NewRound
    <3> QED
      BY <1>6, <2>1, <3>2
  <2>4. CASE UNCHANGED work
    BY <1>6, <2>1, <2>4
  <2> QED
    BY <1>9, <2>2, <2>3, <2>4 DEF AfterDrop
<1>10. CASE SubmitPending(d) \/ UploadReply(d)
  <2>1. ~work[d].merging /\ pc[d] \in {"submit", "reply"}
    BY <1>10 DEF MergeOK, SubmitPending, UploadReply
  <2>2. CASE UNCHANGED work
    BY <1>6, <2>1, <2>2
  <2>3. CASE Confirm(d)
    BY <1>1, <1>6, <2>1, <2>3 DEF Confirm, Works
  <2> QED
    BY <1>5, <1>9, <1>10, <2>1, <2>2, <2>3 DEF SubmitPending, UploadReply
<1>11. CASE AskHead(d)
  <2>1. work[d].ctx = "pull" /\ pc[d] = "head"
    BY <1>2, <1>11 DEF AskHead, ContextOK
  <2>2. CASE ResetBase(d)
    <3>1. work'[d].ctx = "pull" /\ pc'[d] = "head" /\ state'[d] = FreshState
      BY <1>1, <2>1, <2>2 DEF ResetBase, SaveState, ResetState, Works
    <3> QED
      BY <3>1 DEF MergeOK, Pulling, Base, FreshState
  <2>3. CASE UpToDate(d)
    BY <1>1, <1>3, <2>3 DEF UpToDate, Works
  <2>4. CASE StartBatch(d)
    <3>1. /\ work'[d].ctx = "pull" /\ pc'[d] = "fetch" /\ UNCHANGED state
          /\ work'[d].merging = work[d].merging
          /\ work'[d].head = Len(log) /\ work'[d].end = state[d].revision
      BY <1>1, <2>1, <2>4 DEF StartBatch, Goto, Works
    <3>2. state[d].revision <= Len(log) /\ state[d].revision # Len(log)
      BY <1>1, <2>4, StateParts, LengthIsRevision DEF StartBatch, Revisions
    <3> QED
      BY <3>1, <3>2 DEF MergeOK, Pulling, Base
  <2> QED
    BY <1>11, <2>2, <2>3, <2>4 DEF AskHead
<1>12. CASE Fetch(d) /\ ~Stop(d)
  <2> DEFINE next == work[d].end + 1
  <2>1. /\ work' = [work EXCEPT ![d].end = next, ![d].remote = ApplyPacket(@, log[next].body)]
        /\ Goto(d, IF BatchEnds(d, next) THEN "list" ELSE "fetch")
        /\ UNCHANGED state /\ pc[d] = "fetch" /\ next <= Len(log)
    BY <1>12 DEF Fetch
  <2>2. /\ work'[d].end = next /\ work'[d].head = work[d].head
        /\ work'[d].merging = work[d].merging /\ work'[d].ctx = work[d].ctx
    BY <1>1, <2>1 DEF Works
  <2>3. CASE ~work[d].merging
    BY <1>6, <2>2, <2>3
  <2>4. CASE work[d].merging
    <3>1. Pulling(d) /\ state[d].revision = 0 /\ Base(d) = NoFiles /\ work[d].ctx = "pull"
      BY <2>1, <2>4 DEF MergeOK, Pulling
    <3>2. /\ work[d].end <= work[d].head /\ work[d].head <= PULL_BATCH
          /\ work[d].end # work[d].head
      BY <2>1, <2>4, <3>1 DEF MergeOK
    <3>3. PULL_BATCH \in Nat /\ work[d].end \in Nat /\ work[d].head \in Nat
      BY <1>1, SyncEngineAssumption, MaxRevisionAssumption DEF Revisions
    <3>4. next <= work[d].head
      BY <3>2, <3>3
    <3>5. pc'[d] = IF BatchEnds(d, next) THEN "list" ELSE "fetch"
      BY <1>1, <2>1 DEF Goto
    <3>6. BatchEnds(d, next) <=> next = work[d].head
      BY <3>1, <3>2, <3>3, <3>4 DEF BatchEnds
    <3> HIDE DEF next
    <3> QED
      BY <2>1, <2>2, <3>1, <3>2, <3>4, <3>5, <3>6 DEF MergeOK, Base
  <2> QED
    BY <2>3, <2>4
<1>13. CASE Fetch(d) /\ Stop(d)
  BY <1>5, <1>13
<1>14. CASE ListVault(d)
  BY <1>7, <1>14, ListKeeps DEF Same
<1>15. CASE ReadFile(d)
  <2> DEFINE p == First(work[d].todo)
             found == [work[d].local EXCEPT ![p] = files[d][p]]
  <2>1. work' = [work EXCEPT ![d] = [work[d] EXCEPT !.local = found, !.todo = @ \ {p}]]
    BY <1>15 DEF ReadFile
  <2> HIDE DEF p, found
  <2> QED
    BY <1>1, <1>7, <1>15, <2>1 DEF ReadFile, Works
<1>16. CASE PlanRemote(d)
  <2>1. CASE Stop(d)
    BY <1>5, <2>1
  <2>2. ASSUME NEW name, work' = [work EXCEPT ![d].deletes = PlannedDeletes(d),
                                              ![d].copies = CopiesNamed(d, name),
                                              ![d].puts = PlannedPuts(d)],
               Goto(d, "apply"), UNCHANGED state
        PROVE  MergeOK(d)'
    <3>1. pc'[d] = "apply" /\ pc[d] = "scan"
      BY <1>1, <1>16, <2>2 DEF PlanRemote, Goto
    <3> QED
      BY <1>1, <1>7, <2>2, <3>1 DEF Works
  <2> QED
    BY <1>16, <2>1, <2>2 DEF PlanRemote
<1>17. CASE CheckDelete(d) \/ TrashFile(d)
  BY <1>1, <1>5, <1>7, <1>17 DEF CheckDelete, TrashFile, Goto, Works
<1>18. CASE CheckPut(d) \/ WriteFile(d)
  BY <1>1, <1>5, <1>7, <1>18 DEF CheckPut, WriteFile, Goto, Works
<1>19. CASE WriteCopy(d)
  BY <1>1, <1>5, <1>7, <1>19 DEF WriteCopy, Works
(* The merge ends with its one batch.                                      *)
<1>20. CASE SaveBatch(d)
  <2>1. Pulling(d)
    BY <1>2, <1>20 DEF SaveBatch, Pulling, ContextOK
  <2>2. work[d].merging => work[d].end = work[d].head
    BY <1>20, <2>1 DEF SaveBatch, MergeOK
  <2>3. \A n, b : [NewWork EXCEPT !.round = n, !.merging = b].merging = b
    BY DEF NewWork
  <2>4. work'[d].merging = (work[d].merging /\ work[d].end # work[d].head)
    BY <1>1, <1>20, <2>3 DEF SaveBatch
  <2> QED
    BY <1>3, <2>2, <2>4
<1>21. CASE PushStep(d)
  <2>1. \/ pc[d] = "scan" /\ work[d].ctx = "push"
        \/ pc[d] \in {"pack", "persist", "record", "done"}
    BY <1>21
    DEF PushStep, PlanPush, PackDelete, PackPut, FlushLast, PersistPacket,
        RecordPending, Report
  <2>2. ~work[d].merging
    BY <1>2, <2>1 DEF ContextOK, MergeOK
  <2>3. CASE PlanPush(d)
    BY <1>1, <1>5, <1>6, <2>2, <2>3 DEF PlanPush, Works
  <2>4. CASE PackDelete(d) \/ PackPut(d) \/ FlushLast(d)
    BY <1>5, <1>6, <2>2, <2>4, PackKeeps DEF Same
  <2>5. CASE PersistPacket(d) \/ RecordPending(d) \/ Report(d)
    BY <1>5, <1>6, <2>2, <2>5 DEF PersistPacket, RecordPending, Report
  <2> QED
    BY <1>21, <2>3, <2>4, <2>5 DEF PushStep
<1>22. CASE Failure(d)
  <2>1. CASE DamageState(d)
    BY <2>1 DEF DamageState, MergeOK, Pulling, Base
  <2> QED
    BY <1>5, <1>22, <2>1 DEF Failure, Interrupt
<1> QED
  BY <1>8, <1>10, <1>11, <1>12, <1>13, <1>14, <1>15, <1>16, <1>17, <1>18, <1>19, <1>20,
     <1>21, <1>22
  DEF EngineStep, PullStep

LEMMA MergeStep ==
  ASSUME SystemTypeOK, PendingInv, MergeInv, Len(log) <= PULL_BATCH, [Next]_vars
  PROVE  MergeInv'
<1> SUFFICES ASSUME NEW e \in Devices
             PROVE  MergeOK(e)'
  BY DEF MergeInv
<1>1. MergeOK(e)
  BY DEF MergeInv
<1>2. ASSUME UNCHANGED <<pc[e], state[e], work[e]>>
      PROVE  MergeOK(e)'
  BY <1>1, <1>2 DEF MergeOK, Pulling, Base
<1>3. ASSUME NEW m \in net, HandleUpload(m)
      PROVE  MergeOK(e)'
  BY <1>2, <1>3 DEF HandleUpload
<1>4. ASSUME NEW revision, Restore(revision)
      PROVE  MergeOK(e)'
  BY <1>2, <1>4 DEF Restore, plugin
<1>5. ASSUME NEW d \in Devices, UserStep(d)
      PROVE  MergeOK(e)'
  BY <1>2, <1>5, UserTypeStep DEF plugin
<1>6. ASSUME NEW d \in Devices, EngineStep(d) \/ Failure(d)
      PROVE  MergeOK(e)'
  BY <1>1, <1>2, <1>6, OthersKeep, MergeOwnStep DEF Own
<1>7. CASE UNCHANGED vars
  BY <1>2, <1>7 DEF vars
<1> QED
  BY <1>3, <1>4, <1>5, <1>6, <1>7 DEF Next, ServerStep, Sync, Fail

(* While the history fits into one batch of a pull, and if no edit falls   *)
(* between the check of a file and its write, a fresh merge - after a lost *)
(* or damaged state, or a restoration of the server - changes no file of   *)
(* the vault.                                                              *)
THEOREM FreshMergesKeepFiles ==
  EditsInWindow = FALSE /\ Spec /\ [](Len(log) <= PULL_BATCH) => FreshMergeKeepsFiles
<1> SUFFICES ASSUME EditsInWindow = FALSE
             PROVE  Spec /\ [](Len(log) <= PULL_BATCH) => FreshMergeKeepsFiles
  OBVIOUS
<1>1. Init => MergeInv
  BY MergeStart
<1>2. SystemTypeOK /\ PendingInv /\ MergeInv /\ Len(log) <= PULL_BATCH /\ [Next]_vars => MergeInv'
  BY MergeStep
<1>3. NoFiles \in Digests /\ \A p \in Paths : NoFiles[p] = None
  BY FreshTypes DEF NoFiles
<1>4. ASSUME MergeInv,
             [edits' = edits =>
                \A d \in Devices, p \in Paths :
                  files'[d][p] # files[d][p] => files[d][p] \in {None, Base(d)[p]}]_vars
      PROVE  [edits' = edits =>
                \A d \in Devices, p \in Paths :
                  work[d].merging /\ files[d][p] # None => files'[d][p] = files[d][p]]_vars
  <2> SUFFICES ASSUME ~UNCHANGED vars, edits' = edits, NEW d \in Devices, NEW p \in Paths,
                      work[d].merging, files[d][p] # None, files'[d][p] # files[d][p]
               PROVE  FALSE
    BY DEF vars
  <2>1. files[d][p] \in {None, Base(d)[p]}
    BY <1>4
  <2>2. Base(d) = NoFiles
    BY <1>4 DEF MergeInv, MergeOK
  <2> QED
    BY <1>3, <2>1, <2>2
<1>5. (EditsInWindow = FALSE) /\ Spec => OnlyBaseIsReplaced
  BY EditsAreNotOverwritten
<1> QED
  BY <1>1, <1>2, <1>4, <1>5, PendingInvHolds, PTL
  DEF Spec, OnlyBaseIsReplaced, FreshMergeKeepsFiles

-----------------------------------------------------------------------------
(* Names. *)

LEMMA PortableSubset ==
  ASSUME NEW S, NEW T, S \subseteq T, Portable(T)
  PROVE  Portable(S)
  BY DEF Portable

LEMMA PortableStart == Init => PortableInv
<1> SUFFICES ASSUME Init PROVE PortableInv
  OBVIOUS
<1>1. Portable(Present(NoFiles)) /\ Portable(Present(SharedStart))
  <2>1. Present(NoFiles) = {}
    BY DEF NoFiles, Present
  <2>2. Portable(Present(SharedStart))
    BY SyncSystemAssumption
  <2> QED
    BY <2>1, <2>2, PortableSubset
<1>2. AllPortable
  <2>1. CASE SharedStart = NoFiles
    BY <1>1, <2>1 DEF Init, StartLog, AllPortable, ContentsAt
  <2>2. CASE SharedStart # NoFiles
    <3>1. Len(log) = 1 /\ log[1].contents = SharedStart
      BY <2>2 DEF Init, StartLog
    <3>2. \A r \in 0 .. Len(log) : r \in {0, 1}
      BY <3>1
    <3> QED
      BY <1>1, <3>1, <3>2 DEF AllPortable, ContentsAt
  <2> QED
    BY <2>1, <2>2
<1>3. StartDisk = None \/ StartDisk.pending = None
  BY DEF StartDisk
<1> QED
  BY <1>2, <1>3 DEF Init, PortableInv, NamesOK, Pushing, FreshState

(* A packet that leaves a push either only deletes, or follows all the     *)
(* deletions of the push: either way the names it leaves are portable.     *)
LEMMA PacketFits ==
  ASSUME SystemTypeOK, BaseInv, PortableInv, NEW d \in Devices, PushOK(d), LargeOK(d),
         NamesOK(d), pc[d] = "pack", work[d].ctx = "push",
         \/ \A p \in DOMAIN work[d].batch : Local(d)[p] = None
         \/ work[d].deletes = {}
  PROVE  Fits(state[d].revision, work[d].batch)
<1> DEFINE after == ApplyPacket(Base(d), work[d].batch)
<1>1. Pushing(d) /\ ~Flushing(d)
  BY DEF Pushing, Flushing
<1>2. /\ Known(state[d]) /\ state[d].revision \in 0 .. Len(log)
      /\ Base(d) = ContentsAt(state[d].revision)
  <2>1. Known(state[d]) /\ state[d].revision \in Revisions
    BY StateParts DEF BaseInv, BaseOK, SystemTypeOK
  <2> QED
    BY <2>1, LengthIsRevision DEF Known, Base, Revisions
<1>3. Portable(Present(Base(d)))
  BY <1>2 DEF PortableInv, AllPortable
<1>4. Portable(Present(Local(d)))
  BY <1>1 DEF NamesOK
<1>5. \A p \in DOMAIN work[d].batch : work[d].batch[p] = Local(d)[p]
  BY <1>1 DEF PushOK
<1>6. \A p \in Paths :
        after[p] = IF p \in DOMAIN work[d].batch THEN Local(d)[p] ELSE Base(d)[p]
  BY <1>5 DEF ApplyPacket
<1>7. CASE \A p \in DOMAIN work[d].batch : Local(d)[p] = None
  <2>1. Present(after) \subseteq Present(Base(d))
    BY <1>6, <1>7 DEF Present
  <2> QED
    BY <1>2, <1>3, <2>1, PortableSubset DEF Fits
<1>8. CASE work[d].deletes = {}
  <2>1. \A p \in Paths : Local(d)[p] = None /\ Base(d)[p] # None => p \in DOMAIN work[d].batch
    BY <1>1, <1>8, PacketSizeAssumption DEF PushOK, LargeOK, OnItsWay, Oversized
  <2>2. Present(after) \subseteq Present(Local(d))
    BY <1>6, <2>1 DEF Present
  <2> QED
    BY <1>2, <1>4, <2>2, PortableSubset DEF Fits
<1> QED
  BY <1>7, <1>8

LEMMA FitsStays ==
  ASSUME SystemTypeOK, PendingInv, restores' = 0, [Next]_vars
  PROVE  \A expected \in Revisions : \A packet : Fits(expected, packet) =>
           /\ expected <= Len(log')
           /\ Portable(Present(ApplyPacket(ContentsIn(log', expected), packet)))
<1> SUFFICES ASSUME NEW expected \in Revisions, NEW packet, Fits(expected, packet)
             PROVE  /\ expected <= Len(log')
                    /\ Portable(Present(ApplyPacket(ContentsIn(log', expected), packet)))
  OBVIOUS
<1>1. expected \in 0 .. Len(log)
  BY LengthIsRevision DEF Fits, Revisions
<1>2. ContentsIn(log', expected) = ContentsAt(expected) /\ expected <= Len(log')
  BY <1>1, LogStep, LengthIsRevision DEF ContentsAt, ContentsIn
<1> QED
  BY <1>2 DEF Fits

LEMMA ServerStaysPortable ==
  ASSUME SystemTypeOK, PendingInv, PortableInv, restores' = 0, [Next]_vars
  PROVE  AllPortable'
<1> SUFFICES ASSUME NEW r \in 0 .. Len(log')
             PROVE  Portable(Present(ContentsIn(log', r)))
  BY DEF AllPortable, ContentsAt, ContentsIn
<1>1. CASE r \in 0 .. Len(log)
  <2>1. ContentsIn(log', r) = ContentsAt(r)
    BY <1>1, LogStep DEF ContentsAt, ContentsIn
  <2> QED
    BY <1>1, <2>1 DEF PortableInv, AllPortable
<1>2. CASE r \notin 0 .. Len(log)
  <2>1. log' # log
    BY <1>2
  <2>2. PICK m \in net : HandleUpload(m)
    <3>1. ASSUME NEW revision, Restore(revision)
          PROVE  FALSE
      BY <3>1 DEF Restore, SystemTypeOK
    <3>2. ASSUME NEW d \in Devices, UserStep(d) \/ Sync(d) \/ Fail(d)
          PROVE  UNCHANGED log
      BY <3>2, UserTypeStep, NetTypeStep DEF server, Sync, Fail
    <3> QED
      BY <2>1, <3>1, <3>2 DEF Next, ServerStep, vars
  <2>3. /\ DecisionFor(m).kind = "Apply" /\ Len(log') = Len(log) + 1
        /\ log'[Len(log) + 1] = NewEntry(m)
    BY <2>1, <2>2, HandledLog
  <2>4. m.expected = Len(log)
    BY <2>3, AppliedOnTop
  <2>5. r = Len(log) + 1 /\ r # 0
    BY <1>2, <2>3, LengthIsRevision
  <2>6. ContentsIn(log', r) = ApplyPacket(Now, m.body)
    BY <2>3, <2>5 DEF ContentsIn, NewEntry
  <2> QED
    BY <2>4, <2>6 DEF PortableInv, Fits, Now
<1> QED
  BY <1>1, <1>2

LEMMA UploadsStayPortable ==
  ASSUME SystemTypeOK, PendingInv, PortableInv, restores' = 0, [Next]_vars
  PROVE  (\A m \in net : Fits(m.expected, m.body))'
<1> SUFFICES ASSUME NEW n \in net'
             PROVE  /\ n.expected <= Len(log')
                    /\ Portable(Present(ApplyPacket(ContentsIn(log', n.expected), n.body)))
  BY DEF Fits, ContentsAt, ContentsIn
<1>1. ASSUME NEW m \in net, n.expected = m.expected, n.body = m.body
      PROVE  Fits(n.expected, n.body) /\ n.expected \in Revisions
  BY <1>1 DEF PortableInv, SystemTypeOK, Uploads
<1>2. ASSUME NEW d \in Devices, SubmitPending(d), n \notin net
      PROVE  Fits(n.expected, n.body) /\ n.expected \in Revisions
  <2>1. /\ PendingIsWhole(d) /\ pc[d] = "submit"
        /\ n = [dev |-> d, op |-> state[d].pending.op, expected |-> state[d].pending.expected,
                body |-> pendingFile[d], late |-> FALSE]
    BY <1>2 DEF SubmitPending
  <2>2. /\ state[d].pending # None /\ state[d] \in States
        /\ n.expected = state[d].revision /\ n.body = state[d].pending.digest
    BY <2>1 DEF PendingIsWhole, PendingInv, MemoryOK, SystemTypeOK
  <2>3. Fits(state[d].revision, state[d].pending.digest)
    <3>1. state[d] \in {state[d], disk[d]} \ {None}
      BY <2>2, NoneIsNone
    <3> QED
      BY <2>2, <3>1 DEF PortableInv, NamesOK
  <2> QED
    BY <2>2, <2>3, StateParts
<1>3. ASSUME NEW d \in Devices, EngineStep(d) \/ Failure(d), ~SubmitPending(d)
      PROVE  Fits(n.expected, n.body) /\ n.expected \in Revisions
  <2>1. CASE Interrupt(d)
    <3>1. PICK m \in net : n = IF m.dev = d THEN [m EXCEPT !.late = TRUE] ELSE m
      BY <2>1 DEF Interrupt
    <3>2. n.expected = m.expected /\ n.body = m.body
      BY <3>1 DEF SystemTypeOK, Uploads
    <3> QED
      BY <1>1, <3>2
  <2>2. CASE ~Interrupt(d)
    <3>1. net' = net
      BY <1>3, <2>2
      DEF EngineStep, LoadState, UploadReply, PullStep, AskHead, Fetch,
          ListVault, ReadFile, PlanRemote, CheckDelete, TrashFile, WriteCopy, CheckPut,
          WriteFile, SaveBatch, PushStep, PlanPush, PackDelete, PackPut, FlushLast,
          PersistPacket, RecordPending, Report, Failure, DamageState, server
    <3> QED
      BY <1>1, <3>1
  <2> QED
    BY <2>1, <2>2
<1>4. ASSUME n \in net
      PROVE  Fits(n.expected, n.body) /\ n.expected \in Revisions
  BY <1>1, <1>4
<1>5. ASSUME NEW d \in Devices, UserStep(d)
      PROVE  n \in net
  BY <1>5, UserTypeStep DEF server
<1>6. Fits(n.expected, n.body) /\ n.expected \in Revisions
  BY <1>2, <1>3, <1>4, <1>5
  DEF Next, ServerStep, HandleUpload, Restore, Sync, Fail, vars
<1> QED
  BY <1>6, FitsStays

(* The packets of the states a step leaves.                                *)
PendingFits(s) == s.pending # None => Fits(s.revision, s.pending.digest)

LEMMA PendingFitsStep ==
  ASSUME SystemTypeOK, PendingInv, NEW d \in Devices, NamesOK(d), EngineStep(d) \/ Failure(d)
  PROVE  /\ PendingFits(state'[d]) /\ (disk'[d] = None \/ PendingFits(disk'[d]))
<1> DEFINE Goal == /\ PendingFits(state'[d]) /\ (disk'[d] = None \/ PendingFits(disk'[d]))
<1>1. /\ state \in [Devices -> States] /\ state[d] \in States
      /\ disk \in [Devices -> States \cup {None}] /\ disk[d] \in States \cup {None}
      /\ work[d] \in Works
  BY DEF SystemTypeOK
<1>2. PendingFits(state[d]) /\ (disk[d] = None \/ PendingFits(disk[d]))
  <2>1. state[d] \in {state[d], disk[d]} \ {None}
    BY <1>1, NoneIsNone
  <2> QED
    BY <2>1 DEF NamesOK, PendingFits
<1>3. PendingFits(FreshState)
  BY DEF PendingFits, FreshState
<1>4. PendingFits([state[d] EXCEPT !.pending = None])
  BY <1>1 DEF PendingFits, States, StateFields
<1>5. ASSUME NEW s, PendingFits(s), SaveState(d, s)
      PROVE  Goal
  BY <1>1, <1>5 DEF SaveState
<1>6. ASSUME UNCHANGED <<state, disk>>
      PROVE  Goal
  BY <1>2, <1>6
<1>7. ASSUME Stop(d), UNCHANGED disk \/ disk' = [disk EXCEPT ![d] = None]
      PROVE  Goal
  BY <1>1, <1>2, <1>3, <1>7 DEF Stop
<1>8. ASSUME AfterDrop(d)
      PROVE  Goal
  <2>1. CASE DropPending(d)
    BY <1>4, <1>5, <2>1 DEF DropPending
  <2>2. CASE Stop(d) /\ disk' = [disk EXCEPT ![d] = [state[d] EXCEPT !.pending = None]]
    BY <1>1, <1>3, <1>4, <2>2 DEF Stop
  <2> QED
    BY <1>8, <2>1, <2>2 DEF AfterDrop
<1>9. CASE LoadState(d)
  BY <1>1, <1>2, <1>3, <1>9 DEF LoadState
<1>10. CASE SubmitPending(d)
  BY <1>6, <1>8, <1>10 DEF SubmitPending
<1>11. CASE UploadReply(d)
  <2>1. PendingFits(ConfirmedState(d))
    BY DEF PendingFits, ConfirmedState
  <2> QED
    BY <1>5, <1>7, <1>8, <1>11, <2>1 DEF UploadReply, Confirm
<1>12. CASE AskHead(d)
  BY <1>3, <1>5, <1>6, <1>12 DEF AskHead, ResetBase, ResetState, UpToDate, StartBatch
<1>13. CASE \/ Fetch(d) \/ PlanRemote(d) \/ CheckDelete(d) \/ WriteCopy(d) \/ CheckPut(d)
  BY <1>6, <1>7, <1>13 DEF Fetch, PlanRemote, CheckDelete, WriteCopy, CheckPut
<1>14. CASE \/ ListVault(d) \/ ReadFile(d) \/ TrashFile(d) \/ WriteFile(d)
            \/ PersistPacket(d)
  BY <1>6, <1>14 DEF ListVault, ReadFile, TrashFile, WriteFile, PersistPacket
<1>15. CASE SaveBatch(d)
  <2> DEFINE s == [revision |-> BatchRevision(d), digests |-> Remote(d), pending |-> None]
  <2>1. PendingFits(s)
    BY DEF PendingFits
  <2> HIDE DEF s
  <2> QED
    BY <1>5, <1>15, <2>1 DEF SaveBatch, s
<1>16. CASE \/ PlanPush(d) \/ PackDelete(d) \/ PackPut(d) \/ FlushLast(d)
            \/ Report(d)
  BY <1>6, <1>7, <1>16
  DEF PlanPush, PackDelete, PackPut, AddChange, FlushLast, Flush, Report
<1>17. CASE RecordPending(d)
  <2>1. PICK op \in OpIds : SaveState(d, RecordedState(d, op))
    BY <1>17 DEF RecordPending
  <2>2. /\ RecordedState(d, op).revision = state[d].revision
        /\ RecordedState(d, op).pending = PendingUpload(d, op)
    BY <1>1 DEF RecordedState, States, StateFields
  <2>3. PendingUpload(d, op).digest = work[d].body
    BY DEF PendingUpload
  <2>4. Fits(state[d].revision, work[d].body)
    BY <1>17 DEF RecordPending, NamesOK
  <2>5. PendingFits(RecordedState(d, op))
    BY <2>2, <2>3, <2>4 DEF PendingFits
  <2> QED
    BY <1>5, <2>1, <2>5
<1>18. CASE Failure(d)
  BY <1>1, <1>2, <1>7, <1>18 DEF Failure, Interrupt, DamageState
<1> QED
  BY <1>9, <1>10, <1>11, <1>12, <1>13, <1>14, <1>15, <1>16, <1>17, <1>18
  DEF EngineStep, PullStep, PushStep

(* What the push of a device leaves to be packed, and the packet it has    *)
(* made.                                                                   *)
PushedNames(d) ==
  /\ Pushing(d) => Portable(Present(Local(d)))
  /\ Pushing(d) => work[d].deletes = {} \/ \A p \in DOMAIN work[d].batch : Local(d)[p] = None
  /\ pc[d] \in {"persist", "record"} => Fits(state[d].revision, work[d].body)

LEMMA AddedNames ==
  ASSUME SystemTypeOK, BaseInv, PortableInv, NEW d \in Devices, PushOK(d), LargeOK(d),
         NamesOK(d), pc[d] = "pack", work[d].ctx = "push", UNCHANGED log,
         NEW p \in Paths, NEW value \in Contents \cup {None}, Local(d)[p] = value,
         value = None \/ work[d].deletes = {}, Added(d, p, value)
  PROVE  PushedNames(d)'
<1> DEFINE joined == WithChange(work[d].batch, p, value)
           next == NextPacket(d, p, value)
<1>1. work \in [Devices -> Works] /\ work[d] \in Works /\ pc \in [Devices -> Labels]
  BY DEF SystemTypeOK
<1>2. /\ Portable(Present(Local(d)))
      /\ work[d].deletes = {} \/ \A q \in DOMAIN work[d].batch : Local(d)[q] = None
  BY DEF NamesOK, Pushing
<1>3. Fits(state[d].revision, work[d].batch)
  BY <1>2, PacketFits
<1>4. DOMAIN joined = DOMAIN work[d].batch \cup {p} /\ DOMAIN next = {p}
  BY EmptyPacketType DEF WithChange, NextPacket
<1> HIDE DEF joined, next
<1>5. CASE work' = [work EXCEPT ![d].batch = joined, ![d].deletes = @ \ {p},
                                ![d].puts = @ \ {p}]
           /\ UNCHANGED <<pc, state>>
  <2>1. /\ work'[d].batch = joined /\ work'[d].deletes = work[d].deletes \ {p}
        /\ work'[d].local = work[d].local
    BY <1>1, <1>5 DEF Works
  <2> QED
    BY <1>2, <1>4, <1>5, <2>1 DEF PushedNames, Local
<1>6. CASE work' = [work EXCEPT ![d].body = work[d].batch, ![d].batch = next,
                                ![d].deletes = @ \ {p}, ![d].puts = @ \ {p}]
           /\ Goto(d, "persist") /\ UNCHANGED state
  <2>1. /\ work'[d].batch = next /\ work'[d].deletes = work[d].deletes \ {p}
        /\ work'[d].local = work[d].local /\ work'[d].body = work[d].batch
        /\ pc'[d] = "persist"
    BY <1>1, <1>6 DEF Works, Goto
  <2>2. Fits(state[d].revision, work[d].body)'
    BY <1>3, <1>6, <2>1 DEF Fits, ContentsAt
  <2> QED
    BY <1>2, <1>4, <2>1, <2>2 DEF PushedNames, Local
<1> QED
  BY <1>5, <1>6 DEF Added, Joined, Started, joined, next

LEMMA PushedNamesStep ==
  ASSUME SystemTypeOK, PendingInv, BaseInv, PortableInv, NEW d \in Devices, PushOK(d), LargeOK(d),
         NamesOK(d), EngineStep(d) \/ Failure(d)
  PROVE  PushedNames(d)'
<1>1. /\ work \in [Devices -> Works] /\ work[d] \in Works
      /\ pc \in [Devices -> Labels] /\ pc[d] \in Labels
      /\ state \in [Devices -> States] /\ state[d] \in States
  BY DEF SystemTypeOK
<1>2. ContextOK(d) /\ UNCHANGED log
  BY NetTypeStep DEF PendingInv
<1>3. ASSUME pc'[d] \notin {"pack", "persist", "record", "submit", "reply", "done"}
      PROVE  PushedNames(d)'
  BY <1>3 DEF PushedNames, Pushing
<1>4. ASSUME Stop(d)
      PROVE  PushedNames(d)'
  BY <1>1, <1>3, <1>4 DEF Stop
(* A step of the upload of a packet.                                       *)
<1>5. ASSUME work'[d].local = work[d].local, work'[d].deletes = work[d].deletes,
             work'[d].batch = work[d].batch, work'[d].ctx = work[d].ctx,
             pc[d] \in {"pack", "persist", "record", "submit", "reply", "done"},
             pc'[d] \notin {"persist", "record"}
      PROVE  PushedNames(d)'
  BY <1>5 DEF PushedNames, NamesOK, Pushing, Local
<1>6. CASE LoadState(d)
  <2>1. work'[d].ctx = "pull" /\ pc'[d] \in {"submit", "head"}
    BY <1>1, <1>2, <1>6 DEF LoadState, ContextOK, Goto, Works
  <2> QED
    BY <2>1 DEF PushedNames, Pushing
<1>7. ASSUME AfterDrop(d)
      PROVE  PushedNames(d)'
  BY <1>1, <1>3, <1>4, <1>7 DEF AfterDrop, Goto
<1>8. CASE SubmitPending(d)
  BY <1>1, <1>5, <1>7, <1>8 DEF SubmitPending, Goto
<1>9. CASE UploadReply(d)
  <2>1. CASE Confirm(d)
    <3>1. /\ work'[d].local = work[d].local /\ work'[d].deletes = work[d].deletes
          /\ work'[d].batch = work[d].batch /\ work'[d].ctx = work[d].ctx
          /\ pc[d] = "reply" /\ pc'[d] \in {"pack", "head"}
      BY <1>1, <1>9, <2>1 DEF UploadReply, Confirm, Goto, Works
    <3> QED
      BY <1>5, <3>1
  <2> QED
    BY <1>4, <1>7, <1>9, <2>1 DEF UploadReply
<1>10. CASE PullStep(d)
  <2>1. Stop(d) \/ pc'[d] \notin {"pack", "persist", "record", "submit", "reply", "done"}
    BY <1>1, <1>10
    DEF PullStep, AskHead, ResetBase, UpToDate, StartBatch, Fetch, ListVault, ReadFile,
        PlanRemote, CheckDelete, TrashFile, WriteCopy, CheckPut, WriteFile, SaveBatch, Goto
  <2> QED
    BY <1>3, <1>4, <2>1
<1>11. CASE PlanPush(d) /\ ~Stop(d)
  <2>1. /\ work' = [work EXCEPT ![d].deletes = PushedDeletes(d), ![d].puts = PushedPuts(d)]
        /\ LocalIsPortable(d) /\ pc[d] = "scan" /\ pc'[d] = "pack"
    BY <1>1, <1>11 DEF PlanPush, Goto
  <2>2. work'[d].local = work[d].local /\ work'[d].batch = work[d].batch
    BY <1>1, <2>1 DEF Works
  <2>3. DOMAIN work[d].batch = {}
    BY <2>1 DEF PushOK, Pushing
  <2> QED
    BY <2>1, <2>2, <2>3 DEF PushedNames, LocalIsPortable, Local
<1>12. CASE PlanPush(d) /\ Stop(d)
  BY <1>4, <1>12
<1>13. CASE PackDelete(d)
  <2>1. pc[d] = "pack" /\ work[d].ctx = "push" /\ NextDelete(d) \in work[d].deletes
    BY <1>2, <1>13, FirstIsIn DEF PackDelete, ContextOK, NextDelete
  <2>2. NextDelete(d) \in Paths /\ Local(d)[NextDelete(d)] = None
    BY <1>1, <2>1 DEF Works, PushOK, Pushing
  <2> QED
    BY <1>2, <1>4, <1>13, <2>1, <2>2, AddChangeCases, AddedNames DEF PackDelete
<1>14. CASE PackPut(d)
  <2>1. CASE Stop(d)
    BY <1>4, <2>1
  <2>2. CASE Added(d, NextPut(d), Local(d)[NextPut(d)])
    <3>1. /\ pc[d] = "pack" /\ work[d].ctx = "push" /\ NextPut(d) \in work[d].puts
          /\ work[d].deletes = {}
      BY <1>2, <1>14, FirstIsIn DEF PackPut, ContextOK, NextPut
    <3>2. NextPut(d) \in Paths /\ Local(d) \in Digests
      BY <1>1, <3>1 DEF Works, Local
    <3>3. Local(d)[NextPut(d)] \in Contents \cup {None}
      BY <3>2 DEF Digests
    <3> QED
      BY <1>2, <2>2, <3>1, <3>2, <3>3, AddedNames
  <2> QED
    BY <1>14, <2>1, <2>2, AddChangeCases DEF PackPut
<1>15. CASE FlushLast(d)
  <2>1. pc[d] = "pack" /\ work[d].ctx = "push" /\ work[d].deletes = {}
    BY <1>2, <1>15 DEF FlushLast, ContextOK
  <2>2. CASE Flushed(d)
    <3>1. /\ work'[d].body = work[d].batch /\ work'[d].local = work[d].local
          /\ work'[d].deletes = {} /\ UNCHANGED state
      BY <1>1, <2>1, <2>2 DEF Flushed, Works
    <3>2. Fits(state[d].revision, work[d].batch)
      BY <2>1, PacketFits
    <3>3. Fits(state[d].revision, work[d].body)'
      BY <1>2, <2>1, <3>1, <3>2 DEF Fits, ContentsAt
    <3>4. Portable(Present(Local(d)))
      BY <2>1 DEF NamesOK, Pushing
    <3> QED
      BY <3>1, <3>3, <3>4 DEF PushedNames, Local
  <2>3. CASE Finished(d)
    BY <1>1, <1>5, <2>1, <2>3 DEF Finished, Goto
  <2> QED
    BY <1>4, <1>15, <2>2, <2>3, FlushLastCases
<1>16. CASE PersistPacket(d)
  <2>1. pc[d] = "persist" /\ pc'[d] = "record" /\ UNCHANGED <<state, work>>
    BY <1>1, <1>16 DEF PersistPacket, Goto
  <2>2. Fits(state[d].revision, work[d].body)'
    BY <1>2, <2>1 DEF NamesOK, Fits, ContentsAt
  <2> QED
    BY <2>1, <2>2 DEF PushedNames, NamesOK, Pushing, Local
<1>17. CASE RecordPending(d)
  BY <1>1, <1>5, <1>17 DEF RecordPending, Goto
<1>18. CASE Report(d)
  BY <1>4, <1>18 DEF Report
<1>19. CASE Failure(d)
  <2>1. CASE DamageState(d)
    BY <1>3, <2>1 DEF DamageState
  <2> QED
    BY <1>4, <1>19, <2>1 DEF Failure, Interrupt
<1> QED
  BY <1>6, <1>8, <1>9, <1>10, <1>11, <1>12, <1>13, <1>14, <1>15, <1>16, <1>17, <1>18, <1>19
  DEF EngineStep, PushStep

LEMMA NamesStep ==
  ASSUME SystemTypeOK, PendingInv, BaseInv, PushInv, PortableInv, restores' = 0, [Next]_vars,
         NEW e \in Devices
  PROVE  NamesOK(e)'
<1>1. NamesOK(e) /\ PushOK(e) /\ LargeOK(e)
  BY DEF PortableInv, PushInv
<1>2. ASSUME UNCHANGED <<pc[e], state[e], work[e], disk[e]>>
      PROVE  NamesOK(e)'
  <2>1. ASSUME NEW expected \in Revisions, NEW packet, Fits(expected, packet)
        PROVE  expected <= Len(log')
               /\ Portable(Present(ApplyPacket(ContentsIn(log', expected), packet)))
    BY <2>1, FitsStays
  <2>2. state[e].revision \in Revisions
    BY StateParts DEF SystemTypeOK
  <2>3. pc[e] \in {"persist", "record"} => Fits(state[e].revision, work[e].body)'
    <3>1. SUFFICES ASSUME pc[e] \in {"persist", "record"}
                   PROVE  Fits(state[e].revision, work[e].body)'
      OBVIOUS
    <3>2. Fits(state[e].revision, work[e].body)
      BY <1>1, <3>1 DEF NamesOK
    <3> QED
      BY <1>2, <2>1, <2>2, <3>2 DEF Fits, ContentsAt, ContentsIn
  <2>4. ASSUME NEW s \in {state[e], disk[e]} \ {None}, s.pending # None
        PROVE  s.revision <= Len(log')
               /\ Portable(Present(ApplyPacket(ContentsIn(log', s.revision), s.pending.digest)))
    <3>1. s \in States /\ s.revision \in Revisions
      BY <2>4, StateParts DEF SystemTypeOK
    <3>2. Fits(s.revision, s.pending.digest)
      BY <1>1, <2>4 DEF NamesOK
    <3> QED
      BY <2>1, <3>1, <3>2
  <2> QED
    BY <1>1, <1>2, <2>3, <2>4 DEF NamesOK, Pushing, Local, Fits, ContentsAt, ContentsIn
<1>3. ASSUME NEW m \in net, HandleUpload(m)
      PROVE  NamesOK(e)'
  BY <1>2, <1>3 DEF HandleUpload
<1>4. ASSUME NEW revision, Restore(revision)
      PROVE  FALSE
  BY <1>4 DEF Restore, SystemTypeOK
<1>5. ASSUME NEW d \in Devices, UserStep(d)
      PROVE  NamesOK(e)'
  BY <1>2, <1>5, UserTypeStep DEF plugin
<1>6. ASSUME NEW d \in Devices, EngineStep(d) \/ Failure(d), d # e
      PROVE  NamesOK(e)'
  BY <1>2, <1>6, OthersKeep DEF Own
<1>7. ASSUME EngineStep(e) \/ Failure(e)
      PROVE  NamesOK(e)'
  <2>1. PushedNames(e)'
    BY <1>1, <1>7, PushedNamesStep
  <2>2. /\ PendingFits(state'[e]) /\ (disk'[e] = None \/ PendingFits(disk'[e]))
        /\ UNCHANGED log
    BY <1>1, <1>7, PendingFitsStep, NetTypeStep
  <2> QED
    BY <2>1, <2>2 DEF NamesOK, PushedNames, PendingFits, Fits, ContentsAt
<1>8. CASE UNCHANGED vars
  BY <1>2, <1>8 DEF vars
<1> QED
  BY <1>3, <1>4, <1>5, <1>6, <1>7, <1>8 DEF Next, ServerStep, Sync, Fail

(* Until the server is restored from a backup, the contents of each of its *)
(* revisions have portable names: whatever the packets a push is split     *)
(* into, and whatever comes late or between them.                          *)
THEOREM ServerNamesArePortable == Spec => []ServerIsPortable
<1> DEFINE System == SystemTypeOK /\ PendingInv /\ (restores = 0 => BaseInv) /\ PushInv
           Inv == restores = 0 => PortableInv
<1>1. Init => Inv
  BY PortableStart
<1>2. System /\ Inv /\ [Next]_vars => Inv'
  <2> SUFFICES ASSUME System, Inv, [Next]_vars, restores' = 0
               PROVE  PortableInv'
    OBVIOUS
  <2>1. restores = 0
    BY RestoresStep
  <2> QED
    BY <2>1, ServerStaysPortable, UploadsStayPortable, NamesStep DEF PortableInv
<1>3. Inv => ServerIsPortable
  BY DEF PortableInv, AllPortable, ServerIsPortable
<1>4. Spec => []System
  BY BaseInvHolds, PushInvHolds, PTL
<1> HIDE DEF System, Inv
<1> QED
  BY <1>1, <1>2, <1>3, <1>4, PTL DEF Spec
=============================================================================
