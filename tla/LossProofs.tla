----------------------------- MODULE LossProofs -----------------------------
(***************************************************************************)
(* A proof that no version of a file disappears silently from the system   *)
(* of SyncSystem: who holds each version, and why whoever gives it up may. *)
(***************************************************************************)
EXTENDS EngineProofs

-----------------------------------------------------------------------------
(* Versions that may go. *)

(* The paths that are somebody's conflict copies.                          *)
CopyNames == UNION {CopiesOf[p] : p \in Paths}

(* The name of a conflict copy is new (it has the time in it): it stands   *)
(* for the same contents wherever it is.                                   *)
NamesAreUnique ==
  \A q \in CopyNames : \A x, y \in {Now[q]} \cup {files[d][q] : d \in Devices} :
    x = None \/ y = None \/ x = y

(* The contents there have been, and no file.                              *)
Made ==
  (1 .. StartContents + edits)
  \cup (StartContents + MaxEdits + 1 .. StartContents + MaxEdits + edits) \cup {None}

InCopy(p, c) ==
  \E q \in CopiesOf[p] : Now[q] = c \/ \E d \in Devices : files[d][q] = c

(* Version c of p may go: a user has replaced or dismissed it, or it is in *)
(* a conflict copy.  A conflict copy itself stays.                         *)
Settled(p, c) ==
  \/ c = None
  \/ c \in Made /\ p \notin CopyNames /\ (<<p, c>> \notin live \/ InCopy(p, c))

Kept(d, p, c) == c = files[d][p] \/ Settled(p, c)

-----------------------------------------------------------------------------
(* The inductive invariant. *)

(* What a later revision does not have of an earlier one is settled.       *)
HistoryKept ==
  \A j \in 0 .. Len(log), p \in Paths :
    /\ ContentsAt(j)[p] \in Made
    /\ \A i \in 0 .. j : ContentsAt(i)[p] = ContentsAt(j)[p] \/ Settled(p, ContentsAt(i)[p])

(* A packet for revision k replaces what is settled there.                 *)
Replaces(k, packet) ==
  \A p \in DOMAIN packet :
    /\ packet[p] \in Made
    /\ ContentsAt(k)[p] = packet[p] \/ Settled(p, ContentsAt(k)[p])

UploadsKept == \A m \in net : m.expected <= Len(log) /\ Replaces(m.expected, m.body)

(* The vault still has what the engine believes it to have, or may have    *)
(* given it up: what the base, the scan, ... *)
BaseKept(d) ==
  \A s \in {state[d], disk[d]} \ {None} : \A p \in Paths : Kept(d, p, s.digests[p])

ScanKept(d) ==
  pc[d] = "scan" =>
    \A p \in Paths :
      /\ Kept(d, p, Local(d)[p])
      /\ work[d].ctx = "push" =>
           p \in work[d].todo \/ Local(d)[p] = Base(d)[p] \/ Settled(p, Base(d)[p])

(* ... the batch being applied, except for what the plan still has to do,  *)
ApplyKept(d) ==
  /\ Pulling(d) => state[d].revision <= work[d].end
  /\ pc[d] \in {"apply", "trash", "write"} =>
       /\ \A p \in Paths :
            \/ Kept(d, p, Remote(d)[p])
            \/ p \in work[d].deletes \cup work[d].puts
            \/ /\ p \notin CopyNames
               /\ \E q \in CopiesOf[p] \cap DOMAIN work[d].copies :
                    work[d].copies[q] = Remote(d)[p]
       /\ \A q \in DOMAIN work[d].copies : work[d].copies[q] \in Made
       /\ \A p \in work[d].deletes \cup work[d].puts : Local(d)[p] # Remote(d)[p]
       /\ \A p \in work[d].deletes : Remote(d)[p] = None

(* ... and the packets of a push say that it has.                          *)
HasBytes(d, packet) == \A p \in DOMAIN packet : Kept(d, p, packet[p])

PushKept(d) ==
  Pushing(d) => \A p \in Paths : Local(d)[p] = Base(d)[p] \/ Settled(p, Base(d)[p])

PacketKept(d) ==
  /\ HasBytes(d, work[d].batch)
  /\ pc[d] \in {"persist", "record"} =>
       HasBytes(d, work[d].body) /\ Replaces(state[d].revision, work[d].body)
  /\ \A s \in {state[d], disk[d]} \ {None} : s.pending # None =>
       HasBytes(d, s.pending.digest) /\ Replaces(s.revision, s.pending.digest)

FilesMade(d) == \A p \in Paths : files[d][p] \in Made

LossOK(d) ==
  /\ FilesMade(d) /\ BaseKept(d) /\ ScanKept(d) /\ ApplyKept(d) /\ PushKept(d)
  /\ PacketKept(d)

LossInv == HistoryKept /\ UploadsKept /\ \A d \in Devices : LossOK(d)

(* The invariants of EngineProofs that this one rests on.                  *)
SystemInv ==
  /\ SystemTypeOK /\ PendingInv /\ BaseInv /\ PlanInv /\ PushInv
  /\ restores = 0

(* What the proof assumes of the instance. *)
Instance ==
  /\ TakingCopies = FALSE /\ EditsInWindow = FALSE /\ MaxRestores = 0
  /\ Edited \cap CopyNames = {}

LEMMA NotRestored ==
  ASSUME SystemInv, Instance, [Next]_vars
  PROVE  restores' = 0
<1>1. ASSUME NEW revision, Restore(revision)
      PROVE  FALSE
  BY <1>1 DEF SystemInv, Instance, Restore
<1>2. ASSUME NEW m \in net, HandleUpload(m)
      PROVE  UNCHANGED restores
  BY <1>2 DEF HandleUpload
<1>3. ASSUME NEW d \in Devices, UserStep(d)
      PROVE  UNCHANGED restores
  BY <1>3, UserTypeStep DEF SystemInv
<1> QED
  BY <1>1, <1>2, <1>3 DEF SystemInv, Next, ServerStep, Sync, Fail, vars

-----------------------------------------------------------------------------
(* Numbers of versions. *)

LEMMA MadeStep ==
  ASSUME SystemTypeOK, [Next]_vars
  PROVE  /\ Made \subseteq Made'
         /\ edits < MaxEdits => NewContents \cap Made = {}
         /\ edits < MaxEdits /\ edits' = edits + 1 => NewContents \subseteq Made'
<1>1. StartContents \in Nat
  <2>1. Present(SharedStart) \subseteq Paths /\ IsFiniteSet(Paths)
    BY PacketSizeAssumption DEF Present
  <2> QED
    BY <2>1, FS_Subset, FS_CardinalityType DEF StartContents
<1>2. edits \in 0 .. MaxEdits /\ MaxEdits \in Nat /\ edits \in Nat
  BY SyncSystemAssumption DEF SystemTypeOK
<1>3. edits' = edits \/ edits' = edits + 1
  <2>1. ASSUME NEW d \in Devices, UserStep(d)
        PROVE  edits' = edits + 1
    BY <2>1 DEF UserStep, UserWrite, UserDelete, UserTakeCopy
  <2>2. ASSUME NEW m, HandleUpload(m)
        PROVE  edits' = edits
    BY <2>2 DEF HandleUpload, user
  <2>3. ASSUME NEW revision, Restore(revision)
        PROVE  edits' = edits
    BY <2>3 DEF Restore, user
  <2> QED
    BY <2>1, <2>2, <2>3 DEF Next, ServerStep, Sync, Fail, user, vars
<1>4. None \notin Contents
  BY NoneIsNone
<1>5. NewContents \subseteq {StartContents + edits + 1, StartContents + MaxEdits + edits + 1}
  BY <1>1, <1>2 DEF NewContents
<1>6. Made \subseteq Made'
  BY <1>1, <1>2, <1>3 DEF Made
<1>7. ASSUME edits < MaxEdits
      PROVE  NewContents \cap Made = {}
  <2> SUFFICES ASSUME NEW c \in NewContents
               PROVE  c \notin Made
    OBVIOUS
  <2>1. c \in Contents /\ c \in Nat /\ c # None
    BY <1>1, <1>2, <1>4, <1>7, NewContentsType DEF Contents
  <2>2. c = StartContents + edits + 1 \/ c = StartContents + MaxEdits + edits + 1
    BY <1>5
  <2>3. c \notin 1 .. StartContents + edits
    BY <1>1, <1>2, <2>2
  <2>4. c \notin StartContents + MaxEdits + 1 .. StartContents + MaxEdits + edits
    BY <1>1, <1>2, <1>7, <2>2
  <2> QED
    BY <2>1, <2>3, <2>4 DEF Made
<1>8. ASSUME edits < MaxEdits, edits' = edits + 1
      PROVE  NewContents \subseteq Made'
  BY <1>1, <1>2, <1>5, <1>8 DEF Made
<1> QED
  BY <1>6, <1>7, <1>8

(* What a user may do: write or remove a file that is no conflict copy.    *)
LEMMA UserEffect ==
  ASSUME SystemTypeOK, Instance, NEW d \in Devices, UserStep(d)
  PROVE  \E p \in Edited, value \in NewContents \cup {None} :
           /\ p \in Paths /\ p \notin CopyNames
           /\ edits < MaxEdits /\ edits' = edits + 1
           /\ files' = [files EXCEPT ![d] = [files[d] EXCEPT ![p] = value]]
           /\ live' \subseteq (live \ Dismissed(d, p)) \cup {<<p, value>>}
<1>1. PICK p \in Edited : \/ UserWrite(d, p) \/ UserDelete(d, p)
                          \/ \E q \in CopiesOf[p] : UserTakeCopy(d, p, q)
  BY DEF UserStep
<1>2. p \in Paths /\ p \notin CopyNames
  BY SyncSystemAssumption DEF Instance
<1>3. CASE UserWrite(d, p)
  BY <1>2, <1>3 DEF UserWrite
<1>4. CASE UserDelete(d, p)
  BY <1>2, <1>4 DEF UserDelete
<1> QED
  BY <1>1, <1>3, <1>4 DEF UserTakeCopy, Instance

-----------------------------------------------------------------------------
(* What is given up is settled. *)

LEMMA BaseContents ==
  ASSUME SystemInv, NEW d \in Devices
  PROVE  /\ state[d].revision \in 0 .. Len(log)
         /\ Base(d) = ContentsAt(state[d].revision)
<1>1. state[d] \in States /\ Known(state[d]) /\ SystemTypeOK
  BY DEF SystemInv, SystemTypeOK, BaseInv, BaseOK
<1> QED
  BY <1>1, StateParts, LengthIsRevision DEF Known, Base, Revisions

LEMMA BatchContents ==
  ASSUME SystemInv, LossInv, NEW d \in Devices, Pulling(d)
  PROVE  /\ work[d].end \in 0 .. Len(log) /\ state[d].revision \in 0 .. work[d].end
         /\ Remote(d) = ContentsAt(work[d].end)
<1>1. FetchedOK(d) /\ ApplyKept(d) /\ SystemTypeOK
  BY DEF SystemInv, BaseInv, LossInv, LossOK
<1>2. /\ work[d].end <= work[d].head /\ work[d].head <= Len(log)
      /\ Remote(d) = ContentsAt(work[d].end) /\ state[d].revision <= work[d].end
  BY <1>1 DEF FetchedOK, ApplyKept
<1>3. work[d].end \in Revisions /\ work[d].head \in Revisions
  BY <1>1 DEF SystemTypeOK, Works
<1> QED
  BY <1>1, <1>2, <1>3, BaseContents, LengthIsRevision DEF Revisions

(* The engine replaces what is in the base and not in the batch.           *)
LEMMA EngineReplaced ==
  ASSUME SystemInv, LossInv, NEW d \in Devices, EngineStep(d) \/ Failure(d),
         NEW p \in Paths, files'[d][p] # files[d][p]
  PROVE  Settled(p, files[d][p])
<1>1. SystemTypeOK /\ PlanOK(d) /\ ContextOK(d) /\ ApplyKept(d) /\ HistoryKept
  BY DEF SystemInv, PlanInv, PendingInv, LossInv, LossOK
<1>2. files[d][p] \in {None, Base(d)[p]}
  BY <1>1, ChangedFile
<1>3. files \in [Devices -> Digests] /\ files[d] \in Digests
  BY <1>1 DEF SystemTypeOK
<1>4. ASSUME pc[d] \in {"trash", "write"}, p \in work[d].deletes \cup work[d].puts,
             files[d][p] = Local(d)[p], files[d][p] # None
      PROVE  Settled(p, files[d][p])
  <2>1. Pulling(d)
    BY <1>1, <1>4 DEF ContextOK, Pulling
  <2>2. Local(d)[p] # Remote(d)[p]
    BY <1>1, <1>4 DEF ApplyKept
  <2>3. files[d][p] = ContentsAt(state[d].revision)[p]
    BY <1>2, <1>4, BaseContents
  <2> QED
    BY <1>1, <1>4, <2>1, <2>2, <2>3, BatchContents DEF HistoryKept
<1>5. CASE TrashFile(d)
  <2>1. files' = [files EXCEPT ![d] = [files[d] EXCEPT ![NextDelete(d)] = None]]
    BY <1>5 DEF TrashFile
  <2>2. p = NextDelete(d)
    BY <1>3, <2>1 DEF Digests
  <2>3. p \in work[d].deletes /\ AsScanned(d, p) /\ pc[d] = "trash"
    BY <1>1, <1>5, <2>2, FirstIsIn DEF TrashFile, PlanOK, NextDelete
  <2> QED
    BY <1>4, <2>3 DEF AsScanned, Settled
<1>6. CASE WriteFile(d)
  <2>1. files' = [files EXCEPT ![d] = [files[d] EXCEPT ![NextPut(d)] = Remote(d)[NextPut(d)]]]
    BY <1>6 DEF WriteFile
  <2>2. p = NextPut(d)
    BY <1>3, <2>1 DEF Digests
  <2>3. p \in work[d].puts /\ AsScanned(d, p) /\ pc[d] = "write"
    BY <1>1, <1>6, <2>2, FirstIsIn DEF WriteFile, PlanOK, NextPut
  <2> QED
    BY <1>4, <2>3 DEF AsScanned, Settled
<1>7. CASE WriteCopy(d)
  <2> DEFINE q == NextCopy(d)
  <2>1. files[d][q] = None
        /\ files' = [files EXCEPT ![d] = [files[d] EXCEPT ![q] = work[d].copies[q]]]
    BY <1>7 DEF WriteCopy
  <2>2. p = q
    BY <1>3, <2>1 DEF Digests
  <2> QED
    BY <2>1, <2>2 DEF Settled
<1> QED
  BY <1>5, <1>6, <1>7
  DEF EngineStep, LoadState, SubmitPending, UploadReply, PullStep, AskHead, Fetch,
      ListVault, ReadFile, PlanRemote, CheckDelete, CheckPut, SaveBatch, PushStep,
      PlanPush, PackDelete, PackPut, FlushLast, PersistPacket, RecordPending, Report,
      Failure, Interrupt, DamageState

(* A file is replaced when its contents are settled, or a user settles     *)
(* them.                                                                   *)
LEMMA FileReplaced ==
  ASSUME SystemInv, LossInv, Instance, [Next]_vars, NEW d \in Devices, NEW p \in Paths,
         files'[d][p] # files[d][p]
  PROVE  \/ Settled(p, files[d][p])
         \/ p \notin CopyNames /\ files[d][p] \in Made /\ <<p, files[d][p]>> \notin live'
<1>1. SystemTypeOK /\ files \in [Devices -> Digests]
  BY DEF SystemInv, SystemTypeOK
<1>2. ASSUME NEW e \in Devices, UserStep(e)
      PROVE  p \notin CopyNames /\ files[d][p] \in Made /\ <<p, files[d][p]>> \notin live'
  <2>1. PICK r \in Edited, value \in NewContents \cup {None} :
          /\ r \in Paths /\ r \notin CopyNames
          /\ files' = [files EXCEPT ![e] = [files[e] EXCEPT ![r] = value]]
          /\ live' \subseteq (live \ Dismissed(e, r)) \cup {<<r, value>>}
    BY <1>1, <1>2, UserEffect
  <2>2. d = e /\ p = r /\ value # files[d][p]
    BY <1>1, <2>1 DEF Digests
  <2>3. <<p, files[d][p]>> \in Dismissed(d, p)
    BY DEF Dismissed
  <2>4. FilesMade(d)
    BY DEF LossInv, LossOK
  <2> QED
    BY <2>1, <2>2, <2>3, <2>4 DEF FilesMade
<1>3. ASSUME NEW e \in Devices, EngineStep(e) \/ Failure(e)
      PROVE  Settled(p, files[d][p])
  <2>1. e = d
    BY <1>1, <1>3, OthersKeep
  <2> QED
    BY <1>3, <2>1, EngineReplaced
<1>4. ASSUME NEW m, HandleUpload(m)
      PROVE  FALSE
  BY <1>4 DEF HandleUpload
<1>5. ASSUME NEW revision, Restore(revision)
      PROVE  FALSE
  BY <1>5 DEF Restore
<1> QED
  BY <1>2, <1>3, <1>4, <1>5 DEF Next, ServerStep, Sync, Fail, vars

(* So are the contents of the server.                                      *)
LEMMA ContentsReplaced ==
  ASSUME SystemInv, LossInv, Instance, [Next]_vars, NEW p \in Paths, Now'[p] # Now[p]
  PROVE  Settled(p, Now[p])
<1>1. SystemTypeOK /\ PendingInv
  BY DEF SystemInv
<1>2. PICK m \in net : HandleUpload(m)
  <2>1. log' # log
    BY DEF Now, ContentsAt
  <2>2. ASSUME NEW revision, Restore(revision)
        PROVE  FALSE
    BY <1>1, <2>2 DEF Restore, SystemTypeOK, Instance
  <2>3. ASSUME NEW d \in Devices, UserStep(d) \/ Sync(d) \/ Fail(d)
        PROVE  FALSE
    BY <1>1, <2>1, <2>3, UserTypeStep, NetTypeStep DEF server, Sync, Fail
  <2> QED
    BY <2>1, <2>2, <2>3 DEF Next, ServerStep, vars
<1>3. /\ DecisionFor(m).kind = "Apply" /\ Len(log') = Len(log) + 1
      /\ log'[Len(log) + 1] = NewEntry(m)
  BY <1>1, <1>2, HandledLog DEF Now, ContentsAt
<1>4. m.expected = Len(log) /\ Len(log) \in Nat
  BY <1>1, <1>3, AppliedOnTop, LengthIsRevision
<1>5. Now' = ApplyPacket(Now, m.body)
  BY <1>3, <1>4 DEF Now, ContentsAt, NewEntry
<1>6. p \in DOMAIN m.body /\ Now'[p] = m.body[p]
  BY <1>5 DEF ApplyPacket
<1>7. Replaces(m.expected, m.body)
  BY DEF LossInv, UploadsKept
<1> QED
  BY <1>4, <1>6, <1>7 DEF Replaces, Now

LEMMA SettledStays ==
  ASSUME SystemInv, LossInv, Instance, [Next]_vars
  PROVE  \A p \in Paths : \A c : Settled(p, c) => Settled(p, c)'
<1> SUFFICES ASSUME NEW p \in Paths, NEW c, Settled(p, c), c # None
             PROVE  Settled(p, c)'
  BY DEF Settled
<1>1. c \in Made /\ p \notin CopyNames /\ (<<p, c>> \notin live \/ InCopy(p, c))
  BY DEF Settled
<1>2. SystemTypeOK
  BY DEF SystemInv
<1>3. ASSUME <<p, c>> \notin live
      PROVE  <<p, c>> \notin live'
  <2>1. ASSUME NEW d \in Devices, UserStep(d)
        PROVE  <<p, c>> \notin live'
    <3>1. PICK r \in Edited, value \in NewContents \cup {None} :
            /\ edits < MaxEdits
            /\ live' \subseteq (live \ Dismissed(d, r)) \cup {<<r, value>>}
      BY <1>2, <2>1, UserEffect
    <3>2. c # value
      BY <1>1, <1>2, <3>1, MadeStep
    <3> QED
      BY <1>3, <3>1, <3>2
  <2>2. ASSUME UNCHANGED user
        PROVE  <<p, c>> \notin live'
    BY <1>3, <2>2 DEF user
  <2>3. ASSUME NEW m, HandleUpload(m)
        PROVE  UNCHANGED user
    BY <2>3 DEF HandleUpload
  <2>4. ASSUME NEW revision, Restore(revision)
        PROVE  UNCHANGED user
    BY <2>4 DEF Restore
  <2> QED
    BY <2>1, <2>2, <2>3, <2>4 DEF Next, ServerStep, Sync, Fail, vars, user
(* A conflict copy is never replaced.                                      *)
<1>4. ASSUME InCopy(p, c)
      PROVE  InCopy(p, c)'
  <2>1. PICK q \in CopiesOf[p] : Now[q] = c \/ \E d \in Devices : files[d][q] = c
    BY <1>4 DEF InCopy
  <2>2. q \in Paths /\ q \in CopyNames
    BY PlanAssumption DEF CopyNames
  <2>3. ~Settled(q, c)
    BY <2>2 DEF Settled
  <2>4. CASE Now[q] = c
    BY <2>2, <2>3, <2>4, ContentsReplaced DEF InCopy
  <2>5. ASSUME NEW d \in Devices, files[d][q] = c
        PROVE  files'[d][q] = c
    BY <2>2, <2>3, <2>5, FileReplaced
  <2> QED
    BY <2>1, <2>4, <2>5 DEF InCopy
<1>5. c \in Made'
  BY <1>1, <1>2, MadeStep
<1> QED
  BY <1>1, <1>3, <1>4, <1>5 DEF Settled

LEMMA KeptStays ==
  ASSUME SystemInv, LossInv, Instance, [Next]_vars
  PROVE  \A d \in Devices : \A p \in Paths : \A c : Kept(d, p, c) => Kept(d, p, c)'
<1> SUFFICES ASSUME NEW d \in Devices, NEW p \in Paths, NEW c, Kept(d, p, c)
             PROVE  Kept(d, p, c)'
  OBVIOUS
<1>1. Settled(p, c) => Settled(p, c)'
  BY SettledStays
<1>2. CASE c = files[d][p] /\ files'[d][p] # files[d][p]
  <2>1. ASSUME p \notin CopyNames, c \in Made, <<p, c>> \notin live'
        PROVE  Settled(p, c)'
    <3>1. c \in Made'
      BY <2>1, MadeStep DEF SystemInv
    <3> QED
      BY <2>1, <3>1 DEF Settled
  <2> QED
    BY <1>1, <1>2, <2>1, FileReplaced DEF Kept
<1> QED
  BY <1>1, <1>2 DEF Kept

(* What has been said of packets stays true. *)
LEMMA PacketsStay ==
  ASSUME SystemInv, LossInv, Instance, [Next]_vars
  PROVE  /\ \A d \in Devices, packet \in Packets :
              HasBytes(d, packet) => HasBytes(d, packet)'
         /\ \A k \in 0 .. Len(log), packet \in Packets :
              Replaces(k, packet) => Replaces(k, packet)'
<1>1. SystemTypeOK /\ PendingInv /\ restores' = 0
  BY NotRestored DEF SystemInv
<1>2. ASSUME NEW d \in Devices, NEW packet \in Packets, HasBytes(d, packet)
      PROVE  HasBytes(d, packet)'
  BY <1>2, KeptStays, PacketParts DEF HasBytes
<1>3. ASSUME NEW k \in 0 .. Len(log), NEW packet \in Packets, Replaces(k, packet)
      PROVE  Replaces(k, packet)'
  <2>1. ContentsAt(k) = ContentsIn(log, k) /\ ContentsAt(k)' = ContentsIn(log', k)
    BY DEF ContentsAt, ContentsIn
  <2>2. ContentsAt(k)' = ContentsAt(k)
    BY <1>1, <2>1, LogStep
  <2>3. \A p \in DOMAIN packet : Settled(p, ContentsAt(k)[p]) => Settled(p, ContentsAt(k)[p])'
    <3> SUFFICES ASSUME NEW p \in DOMAIN packet, NEW c, c = ContentsAt(k)[p], Settled(p, c)
                 PROVE  Settled(p, c)'
      BY <2>2
    <3> QED
      BY SettledStays, PacketParts
  <2> QED
    BY <1>1, <1>3, <2>2, <2>3, MadeStep DEF Replaces
<1> QED
  BY <1>2, <1>3

-----------------------------------------------------------------------------
(* The history, the network and the contents of files. *)

LEMMA HistoryStep ==
  ASSUME SystemInv, LossInv, Instance, [Next]_vars
  PROVE  HistoryKept'
<1>1. /\ SystemTypeOK /\ PendingInv /\ restores' = 0 /\ HistoryKept /\ Made \subseteq Made'
      /\ Len(log) \in Nat
  BY NotRestored, MadeStep, LengthIsRevision DEF SystemInv, Instance, LossInv
<1> DEFINE At(r) == ContentsIn(log, r)
           Next_(r) == ContentsIn(log', r)
<1>2. \A r : ContentsAt(r) = At(r) /\ ContentsAt(r)' = Next_(r)
  BY DEF ContentsAt, ContentsIn
<1>3. \A r \in 0 .. Len(log) : Next_(r) = At(r)
  BY <1>1, LogStep
<1>4. \A j \in 0 .. Len(log), p \in Paths :
        /\ At(j)[p] \in Made
        /\ \A i \in 0 .. j : At(i)[p] = At(j)[p] \/ Settled(p, At(i)[p])
  BY <1>1, <1>2 DEF HistoryKept
<1>5. Now = At(Len(log)) /\ Now' = Next_(Len(log'))
  BY DEF Now, ContentsAt, ContentsIn
<1> HIDE DEF At, Next_
<1> SUFFICES ASSUME NEW j \in 0 .. Len(log'), NEW p \in Paths
             PROVE  /\ Next_(j)[p] \in Made'
                    /\ \A i \in 0 .. j : \A c : c = Next_(i)[p] =>
                         c = Next_(j)[p] \/ Settled(p, c)'
  BY <1>2 DEF HistoryKept
<1>6. CASE j \in 0 .. Len(log)
  <2>1. \A i \in 0 .. j : i \in 0 .. Len(log)
    BY <1>1, <1>6
  <2> QED
    BY <1>1, <1>3, <1>4, <1>6, <2>1, SettledStays
<1>7. CASE j \notin 0 .. Len(log)
  <2>1. PICK m \in net : HandleUpload(m)
    <3>1. log' # log
      BY <1>7
    <3>2. ASSUME NEW revision, Restore(revision)
          PROVE  FALSE
      BY <1>1, <3>2 DEF Restore, SystemTypeOK
    <3>3. ASSUME NEW d \in Devices, UserStep(d) \/ Sync(d) \/ Fail(d)
          PROVE  FALSE
      BY <1>1, <3>1, <3>3, UserTypeStep, NetTypeStep DEF server, Sync, Fail
    <3> QED
      BY <3>1, <3>2, <3>3 DEF Next, ServerStep, vars
  <2>2. /\ DecisionFor(m).kind = "Apply" /\ Len(log') = Len(log) + 1
        /\ log'[Len(log) + 1] = NewEntry(m)
    BY <1>1, <1>7, <2>1, HandledLog
  <2>3. j = Len(log') /\ j = Len(log) + 1
    BY <1>1, <1>7, <2>2
  <2>4. Next_(j) = Now' /\ Now' = ApplyPacket(Now, m.body)
    BY <1>1, <1>5, <2>2, <2>3 DEF Now, ContentsAt, NewEntry
  <2>5. /\ Now[p] \in Made
        /\ \A i \in 0 .. Len(log) : At(i)[p] = Now[p] \/ Settled(p, At(i)[p])
    BY <1>1, <1>4, <1>5
  <2>6. Next_(j)[p] \in Made'
    <3>1. Replaces(m.expected, m.body)
      BY DEF LossInv, UploadsKept
    <3> QED
      BY <1>1, <2>4, <2>5, <3>1 DEF Replaces, ApplyPacket
  <2>7. ASSUME NEW i \in 0 .. j, NEW c, c = Next_(i)[p]
        PROVE  c = Next_(j)[p] \/ Settled(p, c)'
    <3>1. CASE i = j
      BY <2>7, <3>1
    <3>2. CASE i # j
      <4>1. i \in 0 .. Len(log) /\ c = At(i)[p]
        BY <1>1, <1>3, <2>3, <2>7, <3>2
      <4>2. Now'[p] = Now[p] \/ Settled(p, Now[p])
        BY ContentsReplaced
      <4>3. c = Now'[p] \/ Settled(p, c)
        BY <2>5, <4>1, <4>2
      <4> QED
        BY <2>4, <4>3, SettledStays
    <3> QED
      BY <3>1, <3>2
  <2> QED
    BY <2>6, <2>7
<1> QED
  BY <1>6, <1>7

LEMMA UploadsStep ==
  ASSUME SystemInv, LossInv, Instance, [Next]_vars
  PROVE  UploadsKept'
<1>1. SystemTypeOK /\ PendingInv /\ UploadsKept /\ restores' = 0 /\ net \subseteq Uploads
  BY NotRestored DEF SystemInv, SystemTypeOK, Instance, LossInv
<1> DEFINE Right(m) == /\ m.expected \in 0 .. Len(log) /\ m.body \in Packets
                       /\ Replaces(m.expected, m.body)
<1>2. \A m \in net : Right(m)
  BY <1>1, LengthIsRevision DEF UploadsKept, Uploads, Revisions
<1>3. ASSUME \A m \in net' : Right(m)
      PROVE  UploadsKept'
  <2>1. \A m \in net' : Replaces(m.expected, m.body)'
    <3> SUFFICES ASSUME NEW m, Right(m), NEW k, k = m.expected, NEW packet, packet = m.body
                 PROVE  Replaces(k, packet)'
      BY <1>3
    <3> QED
      BY PacketsStay
  <2>2. \A m \in net' : m.expected <= Len(log')
    BY <1>1, <1>3, LogStep, LengthIsRevision
  <2> QED
    BY <2>1, <2>2 DEF UploadsKept
<1>4. ASSUME NEW d \in Devices, SubmitPending(d), net' # net
      PROVE  \A m \in net' : Right(m)
  <2>1. /\ net' = net \cup {[dev |-> d, op |-> state[d].pending.op,
                             expected |-> state[d].pending.expected,
                             body |-> pendingFile[d], late |-> FALSE]}
        /\ PendingIsWhole(d) /\ pc[d] = "submit"
    BY <1>4 DEF SubmitPending
  <2>2. state[d] \in States /\ state[d] # None /\ state[d].pending # None
    BY <1>1, <2>1, NoneIsNone DEF SystemTypeOK, PendingInv, MemoryOK
  <2>3. PacketKept(d)
    BY DEF LossInv, LossOK
  <2>4. Replaces(state[d].revision, state[d].pending.digest)
    BY <2>2, <2>3 DEF PacketKept
  <2>5. state[d].pending.expected = state[d].revision /\ pendingFile[d] = state[d].pending.digest
    BY <2>1 DEF PendingIsWhole
  <2>6. state[d].pending.digest \in Packets /\ state[d].revision \in 0 .. Len(log)
    BY <2>2, BaseContents, StateParts
  <2> QED
    BY <1>2, <2>1, <2>4, <2>5, <2>6
<1>5. ASSUME NEW d \in Devices, Interrupt(d)
      PROVE  \A m \in net' : Right(m)
  <2>1. net' = {IF m.dev = d THEN [m EXCEPT !.late = TRUE] ELSE m : m \in net}
    BY <1>5 DEF Interrupt
  <2>2. \A m \in net : [m EXCEPT !.late = TRUE].expected = m.expected
                        /\ [m EXCEPT !.late = TRUE].body = m.body
    BY <1>1 DEF Uploads
  <2> QED
    BY <1>2, <2>1, <2>2
<1>6. ASSUME NEW m, HandleUpload(m)
      PROVE  net' \subseteq net
  BY <1>6 DEF HandleUpload
<1>7. ASSUME NEW d \in Devices, EngineStep(d) \/ DamageState(d), ~SubmitPending(d)
      PROVE  UNCHANGED net
  BY <1>7
  DEF EngineStep, LoadState, UploadReply, PullStep, AskHead, Fetch,
      ListVault, ReadFile, PlanRemote, CheckDelete, TrashFile, WriteCopy, CheckPut,
      WriteFile, SaveBatch, PushStep, PlanPush, PackDelete, PackPut, FlushLast,
      PersistPacket, RecordPending, Report, DamageState, server
<1>8. ASSUME NEW d \in Devices, UserStep(d)
      PROVE  UNCHANGED net
  BY <1>1, <1>8, UserTypeStep DEF server
<1>9. ASSUME NEW revision, Restore(revision)
      PROVE  UNCHANGED net
  BY <1>9 DEF Restore
<1> HIDE DEF Right
<1>10. net' \subseteq net \/ \A m \in net' : Right(m)
  BY <1>4, <1>5, <1>6, <1>7, <1>8, <1>9 DEF Next, ServerStep, Sync, Fail, Failure, vars
<1> QED
  BY <1>2, <1>3, <1>10

LEMMA FilesMadeStep ==
  ASSUME SystemInv, LossInv, Instance, [Next]_vars, NEW e \in Devices
  PROVE  FilesMade(e)'
<1>1. /\ SystemTypeOK /\ FilesMade(e) /\ Made \subseteq Made' /\ HistoryKept
      /\ files \in [Devices -> Digests]
  BY MadeStep DEF SystemInv, SystemTypeOK, LossInv, LossOK
<1>2. ASSUME UNCHANGED files[e]
      PROVE  FilesMade(e)'
  BY <1>1, <1>2 DEF FilesMade
<1>3. ASSUME NEW p \in Paths, NEW value \in Made',
             files' = [files EXCEPT ![e] = [files[e] EXCEPT ![p] = value]]
      PROVE  FilesMade(e)'
  BY <1>1, <1>3 DEF FilesMade, Digests
<1>4. ASSUME NEW d \in Devices, UserStep(d)
      PROVE  FilesMade(e)'
  <2>1. PICK p \in Edited, value \in NewContents \cup {None} :
          /\ p \in Paths /\ edits < MaxEdits /\ edits' = edits + 1
          /\ files' = [files EXCEPT ![d] = [files[d] EXCEPT ![p] = value]]
    BY <1>1, <1>4, UserEffect
  <2>2. value \in Made'
    <3>1. CASE value \in NewContents
      BY <1>1, <2>1, <3>1, MadeStep
    <3>2. CASE value = None
      BY <3>2 DEF Made
    <3> QED
      BY <3>1, <3>2
  <2> QED
    BY <1>1, <1>2, <1>3, <2>1, <2>2
<1>5. ASSUME EngineStep(e) \/ Failure(e)
      PROVE  FilesMade(e)'
  <2>1. work[e] \in Works /\ ContextOK(e) /\ ApplyKept(e) /\ PlanOK(e)
    BY <1>1 DEF SystemTypeOK, SystemInv, PendingInv, PlanInv, LossInv, LossOK
  <2>2. CASE TrashFile(e)
    <3>1. NextDelete(e) \in Paths /\ None \in Made'
      BY <2>1, <2>2, FirstIsIn DEF TrashFile, PlanOK, NextDelete, Works, Made
    <3> QED
      BY <1>3, <2>2, <3>1 DEF TrashFile
  <2>3. CASE WriteFile(e)
    <3>1. NextPut(e) \in Paths /\ Pulling(e)
      BY <2>1, <2>3, FirstIsIn DEF WriteFile, PlanOK, NextPut, Works, ContextOK, Pulling
    <3>2. Remote(e)[NextPut(e)] \in Made'
      BY <1>1, <3>1, BatchContents DEF HistoryKept
    <3> QED
      BY <1>3, <2>3, <3>1, <3>2 DEF WriteFile
  <2>4. CASE WriteCopy(e) /\ files' # files
    <3>1. NextCopy(e) \in DOMAIN work[e].copies
      BY <2>4, FirstIsIn DEF WriteCopy, NextCopy
    <3>2. NextCopy(e) \in Paths /\ work[e].copies[NextCopy(e)] \in Made'
      BY <1>1, <2>1, <2>4, <3>1, PacketParts DEF Works, WriteCopy, ApplyKept
    <3>3. files' = [files EXCEPT ![e] = [files[e] EXCEPT ![NextCopy(e)] =
                                           work[e].copies[NextCopy(e)]]]
      BY <2>4 DEF WriteCopy
    <3> QED
      BY <1>3, <3>2, <3>3
  <2>5. CASE files' = files
    BY <1>2, <2>5
  <2> QED
    BY <1>5, <2>2, <2>3, <2>4, <2>5
    DEF EngineStep, LoadState, SubmitPending, UploadReply, PullStep, AskHead, Fetch,
        ListVault, ReadFile, PlanRemote, CheckDelete, CheckPut, SaveBatch, PushStep,
        PlanPush, PackDelete, PackPut, FlushLast, PersistPacket, RecordPending, Report,
        Failure, Interrupt, DamageState
<1>6. ASSUME NEW d \in Devices, EngineStep(d) \/ Failure(d)
      PROVE  FilesMade(e)'
  BY <1>1, <1>2, <1>5, <1>6, OthersKeep
<1>7. ASSUME UNCHANGED files
      PROVE  FilesMade(e)'
  BY <1>2, <1>7
<1> QED
  BY <1>4, <1>6, <1>7 DEF Next, ServerStep, HandleUpload, Restore, Sync, Fail, vars

-----------------------------------------------------------------------------
(* The steps of others. *)

LEMMA OthersKeepVersions ==
  ASSUME SystemInv, LossInv, Instance, [Next]_vars, NEW e \in Devices,
         UNCHANGED <<pc[e], state[e], work[e], disk[e]>>
  PROVE  BaseKept(e)' /\ ScanKept(e)' /\ ApplyKept(e)' /\ PushKept(e)' /\ PacketKept(e)'
<1>1. /\ BaseKept(e) /\ ScanKept(e) /\ ApplyKept(e) /\ PushKept(e) /\ PacketKept(e)
      /\ Made \subseteq Made'
  BY MadeStep DEF SystemInv, LossInv, LossOK
<1>2. /\ state[e] \in States /\ disk[e] \in States \cup {None} /\ work[e] \in Works
      /\ work[e].batch \in Packets /\ work[e].body \in Packets
      /\ state[e] # None /\ state[e].revision \in 0 .. Len(log)
      /\ disk[e] # None => disk[e].revision \in 0 .. Len(log)
  <2>1. SystemTypeOK /\ BaseOK(e)
    BY DEF SystemInv, BaseInv
  <2> QED
    BY <2>1, NoneIsNone, StateParts, LengthIsRevision
    DEF SystemTypeOK, Works, BaseOK, Known, Revisions
<1>3. \A s \in {state[e], disk[e]} \ {None} :
        s \in States /\ s.revision \in 0 .. Len(log) /\ s.digests \in Digests
  BY <1>2, StateParts
<1>4. BaseKept(e)'
  <2> SUFFICES ASSUME NEW s \in {state[e], disk[e]} \ {None}, NEW p \in Paths,
                      NEW c, c = s.digests[p]
               PROVE  Kept(e, p, c)'
    BY <1>2 DEF BaseKept
  <2> QED
    BY <1>1, KeptStays DEF BaseKept
<1>5. ScanKept(e)'
  <2> SUFFICES ASSUME pc[e] = "scan", NEW p \in Paths, NEW c, c = Local(e)[p],
                      NEW b, b = Base(e)[p]
               PROVE  /\ Kept(e, p, c)'
                      /\ work[e].ctx = "push" =>
                           p \in work[e].todo \/ c = b \/ Settled(p, b)'
    BY DEF ScanKept, Local, Base
  <2> QED
    BY <1>1, KeptStays, SettledStays DEF ScanKept
<1>6. ApplyKept(e)'
  <2>1. ASSUME NEW p \in Paths, NEW c, Kept(e, p, c)
        PROVE  Kept(e, p, c)'
    BY <2>1, KeptStays
  <2>2. \A p \in Paths : Kept(e, p, Remote(e)[p]) => Kept(e, p, Remote(e)[p])'
    <3> SUFFICES ASSUME NEW p \in Paths, NEW c, c = work[e].remote[p], Kept(e, p, c)
                 PROVE  Kept(e, p, c)'
      BY DEF Remote
    <3> QED
      BY <2>1
  <2> HIDE DEF Kept
  <2> QED
    BY <1>1, <2>2 DEF ApplyKept, Pulling, Remote, Local
<1>7. PushKept(e)'
  <2> SUFFICES ASSUME Pushing(e), NEW p \in Paths, NEW b, b = Base(e)[p]
               PROVE  Local(e)[p] = b \/ Settled(p, b)'
    BY DEF PushKept, Pushing, Local, Base
  <2> QED
    BY <1>1, SettledStays DEF PushKept
<1>8. PacketKept(e)'
  <2>1. HasBytes(e, work[e].batch)'
    <3> SUFFICES ASSUME NEW X, X = work[e].batch
                 PROVE  HasBytes(e, X)'
      OBVIOUS
    <3> QED
      BY <1>1, <1>2, PacketsStay DEF PacketKept
  <2>2. ASSUME pc[e] \in {"persist", "record"}, NEW X, X = work[e].body,
               NEW k, k = state[e].revision
        PROVE  HasBytes(e, X)' /\ Replaces(k, X)'
    BY <1>1, <1>2, <2>2, PacketsStay DEF PacketKept
  <2>3. ASSUME NEW s \in {state[e], disk[e]} \ {None}, s.pending # None,
               NEW X, X = s.pending.digest, NEW k, k = s.revision
        PROVE  HasBytes(e, X)' /\ Replaces(k, X)'
    <3>1. X \in Packets
      BY <1>3, <2>3, StateParts
    <3> QED
      BY <1>1, <1>3, <2>3, <3>1, PacketsStay DEF PacketKept
  <2> QED
    BY <2>1, <2>2, <2>3 DEF PacketKept
<1> QED
  BY <1>4, <1>5, <1>6, <1>7, <1>8

-----------------------------------------------------------------------------
(* The steps of an engine. *)

(* What a state says and the vault still has, or what is settled.          *)
Holds(d, digests) == \A p \in Paths : Kept(d, p, digests[p])

LEMMA BatchHolds ==
  ASSUME SystemInv, LossInv, NEW d \in Devices, SaveBatch(d)
  PROVE  Holds(d, Remote(d))
<1>1. /\ pc[d] = "apply" /\ work[d].deletes = {} /\ DOMAIN work[d].copies = {}
      /\ work[d].puts = {}
  BY DEF SaveBatch, Applied
<1>2. ApplyKept(d)
  BY DEF LossInv, LossOK
<1> QED
  BY <1>1, <1>2 DEF ApplyKept, Holds

LEMMA ConfirmedHolds ==
  ASSUME SystemInv, LossInv, NEW d \in Devices, pc[d] = "reply"
  PROVE  Holds(d, ConfirmedState(d).digests)
<1>1. /\ state[d] \in States /\ state[d] # None /\ state[d].pending # None
      /\ pendingFile[d] = state[d].pending.digest
  BY NoneIsNone
  DEF SystemInv, SystemTypeOK, PendingInv, MemoryOK, BytesOK, PendingIsWhole
<1>2. BaseKept(d) /\ PacketKept(d)
  BY DEF LossInv, LossOK
<1>3. Holds(d, state[d].digests) /\ HasBytes(d, pendingFile[d])
  BY <1>1, <1>2 DEF BaseKept, PacketKept, Holds
<1>4. ConfirmedState(d).digests = ApplyPacket(state[d].digests, pendingFile[d])
  BY DEF ConfirmedState
<1>5. \A p \in Paths : ConfirmedState(d).digests[p] =
                         IF p \in DOMAIN pendingFile[d] THEN pendingFile[d][p]
                         ELSE state[d].digests[p]
  BY <1>4 DEF ApplyPacket
<1> HIDE DEF Kept
<1> QED
  BY <1>3, <1>5 DEF Holds, HasBytes

LEMMA BaseKeptStep ==
  ASSUME SystemInv, LossInv, Instance, [Next]_vars, NEW e \in Devices,
         EngineStep(e) \/ Failure(e)
  PROVE  BaseKept(e)'
<1>1. /\ state \in [Devices -> States] /\ state[e] \in States /\ state[e] # None
      /\ disk \in [Devices -> States \cup {None}] /\ disk[e] \in States \cup {None}
  BY NoneIsNone DEF SystemInv, SystemTypeOK
<1>2. BaseKept(e)
  BY DEF LossInv, LossOK
<1> DEFINE Right(s) == s \in States /\ Holds(e, s.digests)
<1>3. ASSUME NEW s, NEW t, Right(s), t = None \/ Right(t), state'[e] = s, disk'[e] = t
      PROVE  BaseKept(e)'
  <2> SUFFICES ASSUME NEW u \in {s, t} \ {None}, NEW p \in Paths, NEW c, c = u.digests[p]
               PROVE  Kept(e, p, c)'
    BY <1>3 DEF BaseKept
  <2> QED
    BY <1>3, KeptStays DEF Holds
<1>4. Right(state[e]) /\ (disk[e] = None \/ Right(disk[e])) /\ Right(FreshState)
  <2>1. \A p \in Paths : Kept(e, p, NoFiles[p])
    BY DEF Kept, Settled, NoFiles
  <2> QED
    BY <1>1, <1>2, <2>1, FreshTypes DEF BaseKept, Holds, FreshState
<1>5. Right([state[e] EXCEPT !.pending = None])
  BY <1>1, <1>4 DEF States, StateFields
<1> HIDE DEF Right
<1>6. ASSUME UNCHANGED <<state[e], disk[e]>>
      PROVE  BaseKept(e)'
  BY <1>3, <1>4, <1>6
<1>7. ASSUME Stop(e), UNCHANGED disk \/ disk' = [disk EXCEPT ![e] = None]
      PROVE  BaseKept(e)'
  BY <1>1, <1>3, <1>4, <1>7 DEF Stop
<1>8. ASSUME NEW s, Right(s), SaveState(e, s)
      PROVE  BaseKept(e)'
  BY <1>1, <1>3, <1>8 DEF SaveState
<1>10. ASSUME AfterDrop(e)
       PROVE  BaseKept(e)'
  <2>1. CASE DropPending(e)
    BY <1>5, <1>8, <2>1 DEF DropPending
  <2>2. CASE Stop(e) /\ disk' = [disk EXCEPT ![e] = [state[e] EXCEPT !.pending = None]]
    BY <1>1, <1>3, <1>4, <1>5, <2>2 DEF Stop
  <2> QED
    BY <1>10, <2>1, <2>2 DEF AfterDrop
<1>11. CASE LoadState(e)
  BY <1>1, <1>3, <1>4, <1>11 DEF LoadState
<1>12. CASE SubmitPending(e)
  BY <1>6, <1>10, <1>12 DEF SubmitPending
<1>13. CASE UploadReply(e)
  <2>1. CASE Outcome(e) \in {"applied", "replayed"} /\ Confirm(e)
    <3>1. Right(ConfirmedState(e))
      BY <1>13, <2>1, ConfirmedIsKnown, ConfirmedHolds DEF SystemInv, UploadReply, Right
    <3> QED
      BY <1>8, <2>1, <3>1 DEF Confirm
  <2> QED
    BY <1>7, <1>10, <1>13, <2>1 DEF UploadReply
<1>14. CASE AskHead(e)
  BY <1>4, <1>6, <1>8, <1>14 DEF AskHead, ResetBase, ResetState, UpToDate, StartBatch
<1>15. CASE Fetch(e) \/ PlanRemote(e) \/ CheckDelete(e) \/ WriteCopy(e) \/ CheckPut(e)
  BY <1>6, <1>7, <1>15 DEF Fetch, PlanRemote, CheckDelete, WriteCopy, CheckPut
<1>16. CASE \/ ListVault(e) \/ ReadFile(e) \/ TrashFile(e) \/ WriteFile(e)
            \/ PersistPacket(e)
  BY <1>6, <1>16
  DEF ListVault, ReadFile, TrashFile, WriteFile, PersistPacket
<1>17. CASE SaveBatch(e)
  <2> DEFINE s == [revision |-> work[e].end, digests |-> work[e].remote, pending |-> None]
  <2>1. s \in States
    BY DEF SystemInv, SystemTypeOK, Works, States, StateFields
  <2>2. Right(s)
    BY <1>17, <2>1, BatchHolds DEF Right, Remote
  <2> QED
    BY <1>8, <1>17, <2>2 DEF SaveBatch, BatchRevision, Remote
<1>18. CASE PlanPush(e) \/ PackDelete(e) \/ PackPut(e) \/ FlushLast(e) \/ Report(e)
  BY <1>6, <1>7, <1>18, PackKeeps
  DEF SystemInv, PlanPush, PackDelete, PackPut, FlushLast, Report
<1>19. CASE RecordPending(e)
  <2>1. PICK op \in OpIds : SaveState(e, RecordedState(e, op))
    BY <1>19 DEF RecordPending
  <2>2. RecordedState(e, op).digests = state[e].digests
    BY <1>1 DEF RecordedState, States, StateFields
  <2>3. state'[e] = RecordedState(e, op) /\ state'[e] \in States
    BY <1>1, <1>19, <2>1, StateTypeStep DEF SaveState, SystemInv
  <2>4. Right(RecordedState(e, op))
    BY <1>4, <2>2, <2>3 DEF Right
  <2> QED
    BY <1>8, <2>1, <2>4
<1>20. CASE Failure(e)
  BY <1>1, <1>3, <1>4, <1>7, <1>20 DEF Failure, Interrupt, DamageState
<1> QED
  BY <1>11, <1>12, <1>13, <1>14, <1>15, <1>16, <1>17, <1>18, <1>19, <1>20
  DEF EngineStep, PullStep, PushStep

LEMMA ScanKeptStep ==
  ASSUME SystemInv, LossInv, Instance, [Next]_vars, NEW e \in Devices,
         EngineStep(e) \/ Failure(e)
  PROVE  ScanKept(e)'
<1>1. /\ work \in [Devices -> Works] /\ work[e] \in Works /\ pc \in [Devices -> Labels]
      /\ files[e] \in Digests /\ state[e] \in States /\ state[e] # None
  BY NoneIsNone DEF SystemInv, SystemTypeOK
<1>2. BaseKept(e) /\ ScanKept(e)
  BY DEF LossInv, LossOK
<1>3. ASSUME pc'[e] # "scan"
      PROVE  ScanKept(e)'
  BY <1>3 DEF ScanKept
<1>4. ASSUME NEW local \in Digests, NEW todo \in SUBSET Paths,
             work'[e].local = local, work'[e].todo = todo, work'[e].ctx = work[e].ctx,
             UNCHANGED state,
             \A p \in Paths :
               /\ Kept(e, p, local[p])
               /\ work[e].ctx = "push" =>
                    p \in todo \/ local[p] = Base(e)[p] \/ Settled(p, Base(e)[p])
      PROVE  ScanKept(e)'
  <2> SUFFICES ASSUME NEW p \in Paths, NEW c, c = local[p], NEW b, b = Base(e)[p]
               PROVE  /\ Kept(e, p, c)'
                      /\ work[e].ctx = "push" => p \in todo \/ c = b \/ Settled(p, b)'
    BY <1>4 DEF ScanKept, Local, Base
  <2> QED
    BY <1>4, KeptStays, SettledStays
<1>5. \A p \in Paths : files[e][p] = Base(e)[p] \/ Settled(p, Base(e)[p])
  BY <1>1, <1>2 DEF BaseKept, Kept, Base
<1>6. CASE ListVault(e)
  <2>1. PICK known \in SUBSET Present(files[e]) :
          work' = [work EXCEPT
            ![e].local = [p \in Paths |-> IF p \in known THEN files[e][p] ELSE None],
            ![e].todo = Present(files[e]) \ known,
            ![e].large = {p \in known : files[e][p] \in Oversized}]
    BY <1>6 DEF ListVault
  <2> DEFINE local == [p \in Paths |-> IF p \in known THEN files[e][p] ELSE None]
             todo == Present(files[e]) \ known
             large == {p \in known : files[e][p] \in Oversized}
  <2>4. work' = [work EXCEPT ![e].local = local, ![e].todo = todo, ![e].large = large]
    BY <2>1
  <2>5. local \in Digests /\ todo \in SUBSET Paths
    BY <1>1 DEF Digests, Present
  <2>3. \A p \in Paths : Kept(e, p, local[p]) /\ (p \in todo \/ local[p] = files[e][p])
    BY DEF Kept, Settled, Present
  <2> HIDE DEF local, todo, large
  <2>2. /\ work'[e].local = local /\ work'[e].todo = todo /\ work'[e].ctx = work[e].ctx
        /\ UNCHANGED state
    BY <1>1, <1>6, <2>4 DEF ListVault, Works
  <2> QED
    BY <1>4, <1>5, <2>2, <2>3, <2>5
<1>7. CASE ReadFile(e)
  <2> DEFINE q == First(work[e].todo)
             local == [work[e].local EXCEPT ![q] = files[e][q]]
             todo == work[e].todo \ {q}
  <2>1. work' = [work EXCEPT ![e] = [work[e] EXCEPT !.local = local, !.todo = todo]]
    BY <1>7 DEF ReadFile
  <2>2. q \in Paths /\ files[e][q] \in Contents \cup {None} /\ work[e].local \in Digests
    BY <1>1, <1>7, FirstIsIn DEF ReadFile, Works, Digests
  <2>3. local \in Digests
    BY <2>2 DEF Digests
  <2>4. \A p \in Paths : local[p] = IF p = q THEN files[e][p] ELSE work[e].local[p]
    BY <2>2 DEF Digests
  <2> HIDE DEF q, local
  <2>5. /\ work'[e].local = local /\ work'[e].todo = todo /\ work'[e].ctx = work[e].ctx
        /\ UNCHANGED state /\ todo \in SUBSET Paths /\ pc[e] = "scan"
    BY <1>1, <1>7, <2>1 DEF ReadFile, Works
  <2>6. \A p \in Paths :
          /\ Kept(e, p, local[p])
          /\ work[e].ctx = "push" =>
               p \in todo \/ local[p] = Base(e)[p] \/ Settled(p, Base(e)[p])
    <3> SUFFICES ASSUME NEW p \in Paths
                 PROVE  /\ Kept(e, p, local[p])
                        /\ work[e].ctx = "push" =>
                             p \in todo \/ local[p] = Base(e)[p] \/ Settled(p, Base(e)[p])
      OBVIOUS
    <3>1. CASE p = q
      BY <1>5, <2>4, <3>1 DEF Kept
    <3>2. CASE p # q
      BY <1>2, <2>4, <2>5, <3>2 DEF ScanKept, Local
    <3> QED
      BY <3>1, <3>2
  <2> HIDE DEF todo
  <2> QED
    BY <1>4, <2>3, <2>5, <2>6
<1>8. CASE LoadState(e) \/ SubmitPending(e) \/ UploadReply(e) \/ AskHead(e) \/ Fetch(e)
  BY <1>1, <1>3, <1>8
  DEF LoadState, SubmitPending, UploadReply, AfterDrop, Confirm, AskHead, ResetBase,
      UpToDate, StartBatch, Fetch, Goto, Stop
<1>9. CASE \/ PlanRemote(e) \/ CheckDelete(e) \/ TrashFile(e) \/ WriteCopy(e)
           \/ CheckPut(e) \/ WriteFile(e) \/ SaveBatch(e)
  BY <1>1, <1>3, <1>9
  DEF PlanRemote, CheckDelete, TrashFile, WriteCopy, CheckPut, WriteFile, SaveBatch,
      Goto, Stop
<1>10. CASE PushStep(e)
  BY <1>1, <1>3, <1>10
  DEF PushStep, PlanPush, PackDelete, PackPut, AddChange, FlushLast, Flush, PersistPacket,
      RecordPending, Report, Goto, Stop
<1>11. CASE Failure(e)
  BY <1>1, <1>3, <1>11 DEF Failure, Interrupt, DamageState, Stop
<1> QED
  BY <1>6, <1>7, <1>8, <1>9, <1>10, <1>11 DEF EngineStep, PullStep

(* The batch is ahead of the base.                                         *)
LEMMA BatchAheadStep ==
  ASSUME SystemInv, LossInv, NEW e \in Devices, EngineStep(e) \/ Failure(e), Pulling(e)'
  PROVE  state'[e].revision <= work'[e].end
<1>1. /\ work \in [Devices -> Works] /\ work[e] \in Works /\ pc \in [Devices -> Labels]
      /\ ContextOK(e)
  BY DEF SystemInv, SystemTypeOK, PendingInv
<1>2. work[e].end \in Int /\ state[e].revision \in Int
  BY <1>1, StateParts DEF SystemInv, SystemTypeOK, Works, Revisions
<1>3. ASSUME Pulling(e), UNCHANGED state[e], work'[e].end \in {work[e].end, work[e].end + 1}
      PROVE  state'[e].revision <= work'[e].end
  BY <1>2, <1>3 DEF LossInv, LossOK, ApplyKept
<1>4. CASE AskHead(e)
  BY <1>1, <1>2, <1>4
  DEF AskHead, ResetBase, UpToDate, StartBatch, Pulling, Goto, Works
<1>5. CASE Fetch(e)
  <2>1. work'[e].end = work[e].end + 1 /\ UNCHANGED state
    BY <1>1, <1>5 DEF Fetch, Works, Stop, Pulling
  <2> QED
    BY <1>1, <1>3, <1>5, <2>1 DEF Fetch, Pulling, ContextOK
<1>6. CASE ListVault(e) \/ CheckDelete(e) \/ TrashFile(e) \/ CheckPut(e) \/ WriteFile(e)
  <2>1. CASE ListVault(e)
    BY <1>3, <2>1, ListKeeps DEF SystemInv, Same, Pulling
  <2> QED
    BY <1>1, <1>3, <1>6, <2>1
    DEF CheckDelete, TrashFile, CheckPut, WriteFile, Goto, Stop, Pulling, Works
<1>7. CASE ReadFile(e)
  <2> DEFINE q == First(work[e].todo)
             found == [work[e].local EXCEPT ![q] = files[e][q]]
  <2>1. work' = [work EXCEPT ![e] = [work[e] EXCEPT !.local = found, !.todo = @ \ {q}]]
    BY <1>7 DEF ReadFile
  <2> HIDE DEF q, found
  <2> QED
    BY <1>1, <1>3, <1>7, <2>1 DEF ReadFile, Pulling, Works
<1>8. CASE PlanRemote(e)
  <2>1. CASE Stop(e)
    BY <1>1, <2>1 DEF Stop, Pulling
  <2>2. ASSUME NEW name, work' = [work EXCEPT ![e].deletes = PlannedDeletes(e),
                                              ![e].copies = CopiesNamed(e, name),
                                              ![e].puts = PlannedPuts(e)],
               UNCHANGED state
        PROVE  state'[e].revision <= work'[e].end
    <3>1. work'[e].end = work[e].end
      BY <1>1, <2>2 DEF Works
    <3> QED
      BY <1>3, <1>8, <2>2, <3>1 DEF PlanRemote, Pulling
  <2> QED
    BY <1>8, <2>1, <2>2 DEF PlanRemote
<1>9. CASE WriteCopy(e)
  BY <1>1, <1>3, <1>9 DEF WriteCopy, Stop, Pulling, ContextOK, Works
<1>10. CASE LoadState(e) \/ SubmitPending(e) \/ UploadReply(e) \/ SaveBatch(e)
  BY <1>1, <1>10
  DEF LoadState, SubmitPending, UploadReply, AfterDrop, Confirm, SaveBatch, Goto, Stop,
      Pulling
<1>11. CASE PushStep(e)
  BY <1>1, <1>11
  DEF PushStep, PlanPush, PackDelete, PackPut, AddChange, FlushLast, Flush, PersistPacket,
      RecordPending, Report, Goto, Stop, Pulling
<1>12. CASE Failure(e)
  BY <1>1, <1>12 DEF Failure, Interrupt, DamageState, Stop, Pulling
<1> QED
  BY <1>4, <1>5, <1>6, <1>7, <1>8, <1>9, <1>10, <1>11, <1>12 DEF EngineStep, PullStep

(* The name of a copy stands for the contents it is made for.              *)
LEMMA NamedCopies ==
  ASSUME SystemInv, NEW d \in Devices, NEW taken, NEW name \in CopyNamings(NeedCopy(d), taken)
  PROVE  /\ DOMAIN CopiesNamed(d, name) \subseteq Paths
         /\ \A q \in DOMAIN CopiesNamed(d, name) :
              \E p \in Paths : CopiesNamed(d, name)[q] = Remote(d)[p]
         /\ \A p \in NeedCopy(d) :
              /\ name[p] \in CopiesOf[p] \cap DOMAIN CopiesNamed(d, name)
              /\ CopiesNamed(d, name)[name[p]] = Remote(d)[p]
<1> DEFINE chosen(q) == CHOOSE p \in DOMAIN name : name[p] = q
<1>1. /\ name \in [NeedCopy(d) -> Paths] /\ DOMAIN name = NeedCopy(d)
      /\ \A p \in NeedCopy(d) : name[p] \in CopiesOf[p]
      /\ \A p, q \in NeedCopy(d) : name[p] = name[q] => p = q
  BY DEF CopyNamings
<1>2. NeedCopy(d) \subseteq Paths
  BY DEF NeedCopy, Copied, Conflicts
<1>3. \A p \in NeedCopy(d) : chosen(name[p]) = p
  <2> SUFFICES ASSUME NEW p \in NeedCopy(d)
               PROVE  chosen(name[p]) = p
    OBVIOUS
  <2>1. \E r \in DOMAIN name : name[r] = name[p]
    BY <1>1
  <2>2. chosen(name[p]) \in DOMAIN name /\ name[chosen(name[p])] = name[p]
    BY <2>1
  <2> HIDE DEF chosen
  <2> QED
    BY <1>1, <2>2
<1>4. /\ DOMAIN CopiesNamed(d, name) = {name[p] : p \in NeedCopy(d)}
      /\ \A q \in {name[p] : p \in NeedCopy(d)} : CopiesNamed(d, name)[q] = Remote(d)[chosen(q)]
  BY <1>1 DEF CopiesNamed
<1> HIDE DEF chosen
<1> QED
  BY <1>1, <1>2, <1>3, <1>4

(* The plan keeps every version of the batch: where it lets the local file *)
(* be, the remote version is settled, or becomes a copy.                   *)
LEMMA PlannedKept ==
  ASSUME SystemInv, LossInv, NamesAreUnique, NEW d \in Devices, pc[d] = "scan",
         work[d].ctx = "pull", NEW p \in Paths
  PROVE  \/ Kept(d, p, Remote(d)[p])
         \/ p \in PlannedDeletes(d) \cup PlannedPuts(d)
         \/ p \notin CopyNames /\ p \in NeedCopy(d)
<1> DEFINE b == Base(d)[p]
           l == Local(d)[p]
           r == Remote(d)[p]
<1>1. Pulling(d) /\ SystemTypeOK /\ BaseKept(d) /\ ScanKept(d) /\ HistoryKept
  BY DEF SystemInv, LossInv, LossOK, Pulling
<1>2. state[d] # None
  BY <1>1, NoneIsNone DEF SystemTypeOK
<1>3. Kept(d, p, b) /\ \A q \in Paths : Kept(d, q, Local(d)[q])
  BY <1>1, <1>2 DEF BaseKept, ScanKept, Base
<1>4. /\ work[d].end \in 0 .. Len(log) /\ Len(log) \in 0 .. Len(log)
      /\ Remote(d) = ContentsAt(work[d].end)
  BY <1>1, BatchContents, LengthIsRevision
<1>5. r \in Made /\ (r = Now[p] \/ Settled(p, r))
  BY <1>1, <1>4 DEF HistoryKept, Now
<1>6. Settled(p, None)
  BY DEF Settled
<1>7. CASE l = r \/ b = r \/ r = None
  BY <1>3, <1>6, <1>7 DEF Kept
<1>8. CASE l # r /\ (l = b \/ l = None) /\ b # r
  BY <1>8
  DEF PlannedDeletes, PlannedPuts, Incoming, Pulls, Conflicts
<1>9. CASE l # r /\ l # b /\ b # r /\ l # None /\ r # None
  <2>1. p \in Copied(d)
    BY <1>9 DEF Copied, Conflicts
  <2>2. p \notin CopyNames
    <3> SUFFICES ASSUME p \in CopyNames
                 PROVE  FALSE
      OBVIOUS
    <3>1. l = files[d][p]
      BY <1>3, <1>9 DEF Kept, Settled
    <3>2. r = Now[p]
      BY <1>5, <1>9 DEF Settled
    <3> QED
      BY <1>9, <3>1, <3>2 DEF NamesAreUnique
  <2>3. CASE HasCopy(Local(d), p, r)
    <3>1. PICK q \in CopiesOf[p] : Local(d)[q] = r
      BY <2>3 DEF HasCopy
    <3>2. q \in Paths /\ q \in CopyNames
      BY PlanAssumption DEF CopyNames
    <3>3. files[d][q] = r
      BY <1>3, <1>9, <3>1, <3>2 DEF Kept, Settled
    <3>4. InCopy(p, r)
      BY <3>3 DEF InCopy
    <3> QED
      BY <1>5, <2>2, <3>4 DEF Settled, Kept
  <2> QED
    BY <2>1, <2>2, <2>3 DEF NeedCopy
<1> QED
  BY <1>7, <1>8, <1>9

LEMMA ApplyKeptStep ==
  ASSUME SystemInv, LossInv, Instance, NamesAreUnique, [Next]_vars, NEW e \in Devices,
         EngineStep(e) \/ Failure(e)
  PROVE  ApplyKept(e)'
<1> DEFINE Applying == {"apply", "trash", "write"}
           Planned(p) == p \in work[e].deletes \cup work[e].puts
           Copied_(p, copies, c) == /\ p \notin CopyNames
                                    /\ \E q \in CopiesOf[p] \cap DOMAIN copies : copies[q] = c
<1>1. /\ work \in [Devices -> Works] /\ work[e] \in Works /\ pc \in [Devices -> Labels]
      /\ files \in [Devices -> Digests] /\ files[e] \in Digests
      /\ work[e].copies \in Packets /\ Made \subseteq Made' /\ HistoryKept
  BY MadeStep DEF SystemInv, SystemTypeOK, Works, LossInv
<1>2. ApplyKept(e) /\ PlanOK(e) /\ ContextOK(e)
  BY DEF SystemInv, PlanInv, PendingInv, LossInv, LossOK
<1>3. ASSUME pc'[e] \notin Applying
      PROVE  ApplyKept(e)'
  BY <1>3, BatchAheadStep DEF ApplyKept
<1>4. ASSUME NEW remote, NEW local, NEW deletes, NEW copies, NEW puts,
             work'[e].remote = remote, work'[e].local = local, work'[e].deletes = deletes,
             work'[e].copies = copies, work'[e].puts = puts,
             \A p \in Paths : \/ Kept(e, p, remote[p])' \/ p \in deletes \cup puts
                              \/ Copied_(p, copies, remote[p]),
             \A q \in DOMAIN copies : copies[q] \in Made,
             \A p \in deletes \cup puts : local[p] # remote[p],
             \A p \in deletes : remote[p] = None
      PROVE  ApplyKept(e)'
  BY <1>1, <1>4, BatchAheadStep DEF ApplyKept, Remote, Local
<1>5. CASE PlanRemote(e)
  <2>1. CASE Stop(e)
    BY <1>1, <1>3, <2>1 DEF Stop
  <2>2. CASE ~Stop(e)
    <3>1. PICK name \in CopyNamings(NeedCopy(e), FinalPaths(e)) :
            work' = [work EXCEPT ![e].deletes = PlannedDeletes(e),
                                 ![e].copies = CopiesNamed(e, name),
                                 ![e].puts = PlannedPuts(e)]
      BY <1>5, <2>2 DEF PlanRemote
    <3> DEFINE copies == CopiesNamed(e, name)
    <3>2. pc[e] = "scan" /\ work[e].ctx = "pull"
      BY <1>5 DEF PlanRemote
    <3>3. /\ work'[e].remote = work[e].remote /\ work'[e].local = work[e].local
          /\ work'[e].deletes = PlannedDeletes(e) /\ work'[e].copies = copies
          /\ work'[e].puts = PlannedPuts(e)
      BY <1>1, <3>1 DEF Works
    <3>4. \A p \in Paths : \/ Kept(e, p, Remote(e)[p])
                           \/ p \in PlannedDeletes(e) \cup PlannedPuts(e)
                           \/ Copied_(p, copies, Remote(e)[p])
      BY <3>2, PlannedKept, NamedCopies DEF SystemInv
    <3>5. \A q \in DOMAIN copies : copies[q] \in Made
      <4>1. Pulling(e)
        BY <3>2 DEF Pulling
      <4>2. \A p \in Paths : Remote(e)[p] \in Made
        BY <1>1, <4>1, BatchContents DEF HistoryKept
      <4> QED
        BY <4>2, NamedCopies
    <3>6. /\ \A p \in PlannedDeletes(e) \cup PlannedPuts(e) : Local(e)[p] # Remote(e)[p]
          /\ \A p \in PlannedDeletes(e) : Remote(e)[p] = None
      BY DEF PlannedDeletes, PlannedPuts, Incoming, Pulls, Conflicts
    <3> HIDE DEF copies
    <3> SUFFICES ASSUME NEW remote, remote = Remote(e), NEW local, local = Local(e),
                        NEW deletes, deletes = PlannedDeletes(e), NEW given, given = copies,
                        NEW puts, puts = PlannedPuts(e)
                 PROVE  ApplyKept(e)'
      OBVIOUS
    <3>7. \A p \in Paths : \/ Kept(e, p, remote[p])' \/ p \in deletes \cup puts
                           \/ Copied_(p, given, remote[p])
      BY <3>4, KeptStays
    <3> QED
      BY <1>4, <3>3, <3>5, <3>6, <3>7 DEF Remote, Local
  <2> QED
    BY <2>1, <2>2
(* A step that goes on with the plan, and has done what is not planned any *)
(* more.                                                                   *)
<1>6. ASSUME pc[e] \in Applying, NEW remote, remote = work[e].remote,
             NEW deletes \in SUBSET work[e].deletes, NEW puts \in SUBSET work[e].puts,
             work'[e].remote = remote, work'[e].local = work[e].local,
             work'[e].deletes = deletes, work'[e].puts = puts,
             work'[e].copies = work[e].copies,
             \A p \in Paths : Planned(p) => Kept(e, p, remote[p])' \/ p \in deletes \cup puts
      PROVE  ApplyKept(e)'
  <2>1. /\ \A p \in Paths : Kept(e, p, remote[p]) \/ Planned(p)
                            \/ Copied_(p, work[e].copies, remote[p])
        /\ \A q \in DOMAIN work[e].copies : work[e].copies[q] \in Made
        /\ \A p \in Paths : Planned(p) => work[e].local[p] # remote[p]
        /\ \A p \in work[e].deletes : remote[p] = None
    BY <1>1, <1>2, <1>6 DEF ApplyKept, Remote, Local, Works
  <2>2. deletes \cup puts \subseteq Paths /\ \A p \in deletes \cup puts : Planned(p)
    BY <1>1, <1>6 DEF Works
  <2>3. \A p \in Paths : \/ Kept(e, p, remote[p])' \/ p \in deletes \cup puts
                         \/ Copied_(p, work[e].copies, remote[p])
    BY <1>6, <2>1, KeptStays
  <2> SUFFICES ASSUME NEW local, local = work[e].local, NEW copies, copies = work[e].copies
               PROVE  ApplyKept(e)'
    OBVIOUS
  <2> QED
    BY <1>4, <1>6, <2>1, <2>2, <2>3
<1>7. ASSUME pc[e] \in Applying, NEW p \in Paths, files'[e][p] = work[e].remote[p],
             work'[e].remote = work[e].remote, work'[e].local = work[e].local,
             work'[e].deletes \in SUBSET work[e].deletes, work'[e].puts \in SUBSET work[e].puts,
             work'[e].copies = work[e].copies,
             \A q \in Paths : Planned(q) => q = p \/ q \in work'[e].deletes \cup work'[e].puts
      PROVE  ApplyKept(e)'
  <2> SUFFICES ASSUME NEW remote, remote = work[e].remote,
                      NEW deletes, deletes = work'[e].deletes, NEW puts, puts = work'[e].puts
               PROVE  ApplyKept(e)'
    OBVIOUS
  <2>1. Kept(e, p, remote[p])'
    BY <1>7 DEF Kept
  <2> QED
    BY <1>6, <1>7, <2>1
<1>8. CASE CheckDelete(e)
  <2>1. CASE files[e][NextDelete(e)] = None
             /\ work' = [work EXCEPT ![e].deletes = @ \ {NextDelete(e)}]
    <3>1. NextDelete(e) \in work[e].deletes /\ NextDelete(e) \in Paths /\ pc[e] = "apply"
      BY <1>1, <1>8, FirstIsIn DEF CheckDelete, NextDelete, Works
    <3>2. work[e].remote[NextDelete(e)] = None /\ UNCHANGED files
      BY <1>2, <1>8, <3>1 DEF ApplyKept, Remote, CheckDelete
    <3>3. /\ work'[e].remote = work[e].remote /\ work'[e].local = work[e].local
          /\ work'[e].copies = work[e].copies /\ work'[e].puts = work[e].puts
          /\ work'[e].deletes = work[e].deletes \ {NextDelete(e)}
      BY <1>1, <2>1 DEF Works
    <3> QED
      BY <1>7, <2>1, <3>1, <3>2, <3>3
  <2>2. CASE UNCHANGED work
    BY <1>6, <1>8, <2>2 DEF CheckDelete
  <2>3. CASE Stop(e)
    BY <1>1, <1>3, <2>3 DEF Stop
  <2> QED
    BY <1>8, <2>1, <2>2, <2>3 DEF CheckDelete
<1>9. CASE TrashFile(e)
  <2>1. NextDelete(e) \in work[e].deletes /\ NextDelete(e) \in Paths /\ pc[e] = "trash"
    BY <1>1, <1>2, <1>9, FirstIsIn DEF TrashFile, PlanOK, NextDelete, Works
  <2>2. work[e].remote[NextDelete(e)] = None
    BY <1>2, <2>1 DEF ApplyKept, Remote
  <2>3. files' = [files EXCEPT ![e] = [files[e] EXCEPT ![NextDelete(e)] = None]]
    BY <1>9 DEF TrashFile
  <2>4. files'[e][NextDelete(e)] = None
    BY <1>1, <2>1, <2>3 DEF Digests
  <2>5. /\ work'[e].remote = work[e].remote /\ work'[e].local = work[e].local
        /\ work'[e].copies = work[e].copies /\ work'[e].puts = work[e].puts
        /\ work'[e].deletes = work[e].deletes \ {NextDelete(e)}
    BY <1>1, <1>9 DEF TrashFile, Works
  <2> QED
    BY <1>7, <2>1, <2>2, <2>4, <2>5
<1>10. CASE CheckPut(e)
  <2>1. CASE files[e][NextPut(e)] = Remote(e)[NextPut(e)]
             /\ work' = [work EXCEPT ![e].puts = @ \ {NextPut(e)}]
    <3>1. NextPut(e) \in work[e].puts /\ NextPut(e) \in Paths /\ pc[e] = "apply"
      BY <1>1, <1>10, FirstIsIn DEF CheckPut, NextPut, Works
    <3>2. UNCHANGED files /\ Remote(e) = work[e].remote
      BY <1>10 DEF CheckPut, Remote
    <3>3. /\ work'[e].remote = work[e].remote /\ work'[e].local = work[e].local
          /\ work'[e].copies = work[e].copies /\ work'[e].deletes = work[e].deletes
          /\ work'[e].puts = work[e].puts \ {NextPut(e)}
      BY <1>1, <2>1 DEF Works
    <3> QED
      BY <1>7, <2>1, <3>1, <3>2, <3>3
  <2>2. CASE UNCHANGED work
    BY <1>6, <1>10, <2>2 DEF CheckPut
  <2>3. CASE Stop(e)
    BY <1>1, <1>3, <2>3 DEF Stop
  <2> QED
    BY <1>10, <2>1, <2>2, <2>3 DEF CheckPut
<1>11. CASE WriteFile(e)
  <2>1. NextPut(e) \in work[e].puts /\ NextPut(e) \in Paths /\ pc[e] = "write"
    BY <1>1, <1>2, <1>11, FirstIsIn DEF WriteFile, PlanOK, NextPut, Works
  <2>2. files' = [files EXCEPT ![e] = [files[e] EXCEPT ![NextPut(e)] =
                                         work[e].remote[NextPut(e)]]]
    BY <1>11 DEF WriteFile, Remote
  <2>3. files'[e][NextPut(e)] = work[e].remote[NextPut(e)]
    BY <1>1, <2>1, <2>2 DEF Digests
  <2>4. /\ work'[e].remote = work[e].remote /\ work'[e].local = work[e].local
        /\ work'[e].copies = work[e].copies /\ work'[e].deletes = work[e].deletes
        /\ work'[e].puts = work[e].puts \ {NextPut(e)}
    BY <1>1, <1>11 DEF WriteFile, Works
  <2> QED
    BY <1>7, <2>1, <2>3, <2>4
<1>12. CASE WriteCopy(e)
  <2>1. CASE Stop(e)
    BY <1>1, <1>3, <2>1 DEF Stop
  <2>2. CASE ~Stop(e)
    <3> DEFINE q == NextCopy(e)
               rest == [r \in DOMAIN work[e].copies \ {q} |-> work[e].copies[r]]
    <3>1. q \in DOMAIN work[e].copies /\ q \in Paths
      BY <1>1, <1>12, FirstIsIn, PacketParts DEF WriteCopy, NextCopy
    <3>2. /\ files' = [files EXCEPT ![e] = [files[e] EXCEPT ![q] = work[e].copies[q]]]
          /\ work' = [work EXCEPT ![e].copies = rest]
          /\ pc[e] = "apply"
      BY <1>12, <2>2 DEF WriteCopy
    <3>3. files'[e][q] = work[e].copies[q]
      BY <1>1, <3>1, <3>2 DEF Digests
    <3>4. /\ work'[e].remote = work[e].remote /\ work'[e].local = work[e].local
          /\ work'[e].copies = rest /\ work'[e].deletes = work[e].deletes
          /\ work'[e].puts = work[e].puts
      BY <1>1, <3>2 DEF Works
    <3>5. DOMAIN rest = DOMAIN work[e].copies \ {q} /\ \A r \in DOMAIN rest : rest[r] = work[e].copies[r]
      OBVIOUS
    <3>6. /\ \A p \in Paths : Kept(e, p, Remote(e)[p]) \/ Planned(p)
                              \/ Copied_(p, work[e].copies, Remote(e)[p])
          /\ \A r \in DOMAIN work[e].copies : work[e].copies[r] \in Made
          /\ \A p \in work[e].deletes \cup work[e].puts : Local(e)[p] # Remote(e)[p]
          /\ \A p \in work[e].deletes : Remote(e)[p] = None
      BY <1>2, <3>2 DEF ApplyKept
    <3> HIDE DEF q, rest
    <3> SUFFICES ASSUME NEW remote, remote = Remote(e), NEW local, local = Local(e),
                        NEW deletes, deletes = work[e].deletes, NEW left, left = rest,
                        NEW puts, puts = work[e].puts
                 PROVE  ApplyKept(e)'
      OBVIOUS
    <3>7. ASSUME NEW p \in Paths, p \notin CopyNames, q \in CopiesOf[p],
                 work[e].copies[q] = remote[p]
          PROVE  Kept(e, p, remote[p])'
      <4>1. files'[e][q] = remote[p] /\ remote[p] \in Made'
        BY <1>1, <3>1, <3>3, <3>6, <3>7
      <4> QED
        BY <3>7, <4>1 DEF Kept, Settled, InCopy
    <3>8. \A p \in Paths : \/ Kept(e, p, remote[p])' \/ p \in deletes \cup puts
                           \/ Copied_(p, left, remote[p])
      <4> SUFFICES ASSUME NEW p \in Paths
                   PROVE  \/ Kept(e, p, remote[p])' \/ p \in deletes \cup puts
                          \/ Copied_(p, left, remote[p])
        OBVIOUS
      <4>1. CASE Copied_(p, work[e].copies, remote[p])
        BY <3>5, <3>7, <4>1
      <4> QED
        BY <3>6, <4>1, KeptStays
    <3> QED
      BY <1>4, <3>4, <3>5, <3>6, <3>8 DEF Remote, Local
  <2> QED
    BY <2>1, <2>2
<1>13. CASE LoadState(e) \/ SubmitPending(e) \/ UploadReply(e) \/ AskHead(e) \/ Fetch(e)
            \/ SaveBatch(e)
  BY <1>1, <1>3, <1>13
  DEF LoadState, SubmitPending, UploadReply, AfterDrop, Confirm, AskHead, ResetBase,
      UpToDate, StartBatch, Fetch, SaveBatch, Goto, Stop
<1>14. CASE ListVault(e) \/ ReadFile(e) \/ PushStep(e)
  BY <1>1, <1>3, <1>14
  DEF ListVault, ReadFile, PushStep, PlanPush, PackDelete, PackPut, AddChange, FlushLast,
      Flush, PersistPacket, RecordPending, Report, Goto, Stop
<1>15. CASE Failure(e)
  BY <1>1, <1>3, <1>15 DEF Failure, Interrupt, DamageState, Stop
<1> QED
  BY <1>5, <1>8, <1>9, <1>10, <1>11, <1>12, <1>13, <1>14, <1>15 DEF EngineStep, PullStep

LEMMA PushKeptStep ==
  ASSUME SystemInv, LossInv, Instance, [Next]_vars, NEW e \in Devices,
         EngineStep(e) \/ Failure(e)
  PROVE  PushKept(e)'
<1>1. /\ work \in [Devices -> Works] /\ work[e] \in Works /\ pc \in [Devices -> Labels]
      /\ state \in [Devices -> States] /\ state[e] \in States
  BY DEF SystemInv, SystemTypeOK
<1>2. /\ PushKept(e) /\ ScanKept(e) /\ PushOK(e)
      /\ MemoryOK(e) /\ BytesOK(e) /\ ContextOK(e)
  BY DEF LossInv, LossOK, SystemInv, PushInv, PendingInv
<1>3. ASSUME ~Pushing(e)'
      PROVE  PushKept(e)'
  BY <1>3 DEF PushKept
<1>4. ASSUME \A p \in Paths : \/ work'[e].local[p] = state'[e].digests[p]
                              \/ Settled(p, state'[e].digests[p])
      PROVE  PushKept(e)'
  <2> SUFFICES ASSUME NEW p \in Paths, NEW b, b = state'[e].digests[p]
               PROVE  work'[e].local[p] = b \/ Settled(p, b)'
    BY DEF PushKept, Local, Base
  <2> QED
    BY <1>4, SettledStays
<1>5. ASSUME Pushing(e), state'[e].digests = state[e].digests,
             work'[e].local = work[e].local
      PROVE  PushKept(e)'
  BY <1>2, <1>4, <1>5 DEF PushKept, Local, Base
<1>6. ASSUME Stop(e)
      PROVE  PushKept(e)'
  BY <1>1, <1>3, <1>6 DEF Stop, Pushing
<1>7. CASE PlanPush(e)
  <2>1. CASE work' = [work EXCEPT ![e].deletes = PushedDeletes(e), ![e].puts = PushedPuts(e)]
             /\ UNCHANGED state
    <3>1. /\ work'[e].local = Local(e) /\ state'[e].digests = Base(e)
          /\ pc[e] = "scan" /\ work[e].ctx = "push" /\ work[e].todo = {}
      BY <1>1, <1>7, <2>1 DEF PlanPush, Works, Local, Base
    <3> QED
      BY <1>2, <1>4, <3>1 DEF ScanKept
  <2> QED
    BY <1>6, <1>7, <2>1 DEF PlanPush
<1>8. CASE PackDelete(e) \/ PackPut(e) \/ FlushLast(e) \/ PersistPacket(e)
  <2>1. CASE Stop(e)
    BY <1>6, <2>1
  <2>2. CASE ~Stop(e)
    <3>1. Pushing(e)
      BY <1>2, <1>8 DEF PackDelete, PackPut, FlushLast, PersistPacket, ContextOK, Pushing
    <3>2. work'[e].local = work[e].local /\ UNCHANGED state
      BY <1>8, <2>2, PackKeeps DEF SystemInv, PersistPacket
    <3> QED
      BY <1>5, <3>1, <3>2
  <2> QED
    BY <2>1, <2>2
<1>9. CASE RecordPending(e)
  <2>1. PICK op \in OpIds : SaveState(e, RecordedState(e, op))
    BY <1>9 DEF RecordPending
  <2>2. state'[e].digests = state[e].digests
    BY <1>1, <2>1 DEF SaveState, RecordedState, States, StateFields
  <2> QED
    BY <1>2, <1>5, <1>9, <2>2 DEF RecordPending, ContextOK, Pushing
<1>10. CASE Report(e)
  BY <1>6, <1>10 DEF Report
<1>11. ASSUME AfterDrop(e)
       PROVE  PushKept(e)'
  <2>1. CASE Stop(e)
    BY <1>6, <2>1
  <2>2. CASE Goto(e, "head")
    BY <1>1, <1>3, <2>2 DEF Goto, Pushing
  <2> QED
    BY <1>11, <2>1, <2>2 DEF AfterDrop
<1>12. CASE SubmitPending(e)
  <2>1. CASE UNCHANGED <<state, work>>
    BY <1>1, <1>3, <1>5, <1>12, <2>1 DEF SubmitPending, Pushing
  <2> QED
    BY <1>11, <1>12, <2>1 DEF SubmitPending
<1>13. CASE UploadReply(e)
  <2>1. CASE Confirm(e)
    <3>1. CASE work[e].ctx # "push"
      BY <1>1, <1>3, <2>1, <3>1 DEF Confirm, Pushing, Works
    <3>2. CASE work[e].ctx = "push"
      <4>1. Pushing(e) /\ Flushing(e) /\ pendingFile[e] = work[e].body
        BY <1>2, <1>13, <3>2 DEF UploadReply, Pushing, Flushing, PushOK
      <4>2. state'[e].digests = ApplyPacket(state[e].digests, work[e].body)
            /\ work'[e].local = work[e].local
        BY <1>1, <2>1, <4>1 DEF Confirm, SaveState, ConfirmedState, Works
      <4>3. \A p \in Paths : state'[e].digests[p] =
                               IF p \in DOMAIN work[e].body THEN work[e].local[p]
                               ELSE state[e].digests[p]
        BY <1>2, <4>1, <4>2 DEF ApplyPacket, PushOK, Local
      <4>4. \A p \in Paths : \/ work[e].local[p] = state[e].digests[p]
                             \/ Settled(p, state[e].digests[p])
        BY <1>2, <4>1 DEF PushKept, Local, Base
      <4> QED
        BY <1>4, <4>2, <4>3, <4>4
    <3> QED
      BY <3>1, <3>2
  <2> QED
    BY <1>6, <1>11, <1>13, <2>1 DEF UploadReply
<1>14. CASE LoadState(e) \/ AskHead(e) \/ Fetch(e) \/ ListVault(e) \/ ReadFile(e)
  <2>1. CASE ListVault(e)
    BY <1>3, <2>1, ListKeeps DEF SystemInv, Pushing
  <2> QED
    BY <1>1, <1>2, <1>3, <1>6, <1>14, <2>1
    DEF LoadState, AskHead, ResetBase, UpToDate, StartBatch, Fetch, ReadFile,
        Goto, Pushing, ContextOK, Works
<1>15. CASE \/ PlanRemote(e) \/ CheckDelete(e) \/ TrashFile(e) \/ WriteCopy(e)
            \/ CheckPut(e) \/ WriteFile(e) \/ SaveBatch(e)
  <2>1. pc'[e] \notin {"pack", "persist", "record", "submit", "reply", "done"}
    BY <1>1, <1>15
    DEF PlanRemote, CheckDelete, TrashFile, WriteCopy, CheckPut, WriteFile, SaveBatch,
        Goto, Stop
  <2> QED
    BY <1>3, <2>1 DEF Pushing
<1>16. CASE Failure(e)
  <2>1. CASE DamageState(e)
    BY <1>3, <2>1 DEF DamageState, Pushing
  <2> QED
    BY <1>6, <1>16, <2>1 DEF Failure, Interrupt
<1> QED
  BY <1>7, <1>8, <1>9, <1>10, <1>12, <1>13, <1>14, <1>15, <1>16
  DEF EngineStep, PullStep, PushStep

(* A packet that is ready replaces what the scan did not find, or settled. *)
LEMMA BatchReplaces ==
  ASSUME SystemInv, LossInv, NEW d \in Devices, pc[d] = "pack"
  PROVE  /\ work[d].batch \in Packets /\ state[d].revision \in 0 .. Len(log)
         /\ HasBytes(d, work[d].batch) /\ Replaces(state[d].revision, work[d].batch)
<1>1. work[d].batch \in Packets /\ DOMAIN work[d].batch \subseteq Paths
  BY PacketParts DEF SystemInv, SystemTypeOK, Works
<1>2. Pushing(d) /\ PushOK(d)
  BY DEF SystemInv, PendingInv, ContextOK, PushInv, Pushing
<1>3. HasBytes(d, work[d].batch) /\ PushKept(d) /\ FilesMade(d)
  BY DEF LossInv, LossOK, PacketKept
<1>4. ASSUME NEW p \in DOMAIN work[d].batch
      PROVE  /\ work[d].batch[p] \in Made
             /\ \/ ContentsAt(state[d].revision)[p] = work[d].batch[p]
                \/ Settled(p, ContentsAt(state[d].revision)[p])
  <2>1. Kept(d, p, work[d].batch[p]) /\ files[d][p] \in Made /\ None \in Made
    BY <1>1, <1>3 DEF HasBytes, FilesMade, Made
  <2>2. work[d].batch[p] \in Made
    BY <2>1 DEF Kept, Settled
  <2>3. work[d].batch[p] = Local(d)[p]
    BY <1>2 DEF PushOK
  <2>4. Local(d)[p] = Base(d)[p] \/ Settled(p, Base(d)[p])
    BY <1>1, <1>2, <1>3 DEF PushKept
  <2> QED
    BY <2>2, <2>3, <2>4, BaseContents
<1> QED
  BY <1>1, <1>3, <1>4, BaseContents DEF Replaces

LEMMA AddedBytes ==
  ASSUME NEW d \in Devices, NEW X \in Packets, HasBytes(d, X), NEW p \in Paths,
         NEW value \in Contents \cup {None}, Kept(d, p, value)
  PROVE  HasBytes(d, WithChange(X, p, value))
<1> DEFINE joined == WithChange(X, p, value)
<1>1. DOMAIN joined = DOMAIN X \cup {p}
  BY DEF WithChange
<1>2. \A q \in DOMAIN X \cup {p} : joined[q] = IF q = p THEN value ELSE X[q]
  BY DEF WithChange
<1> HIDE DEF joined
<1>3. ASSUME NEW q \in DOMAIN X \cup {p}
      PROVE  Kept(d, q, joined[q])
  <2>1. CASE q = p
    BY <1>2, <2>1
  <2>2. CASE q # p
    BY <1>2, <2>2 DEF HasBytes
  <2> QED
    BY <2>1, <2>2
<1> QED
  BY <1>1, <1>3 DEF HasBytes, joined

BatchKept(d) ==
  /\ HasBytes(d, work[d].batch)
  /\ pc[d] \in {"persist", "record"} =>
       HasBytes(d, work[d].body) /\ Replaces(state[d].revision, work[d].body)

LEMMA BatchKeptStep ==
  ASSUME SystemInv, LossInv, Instance, [Next]_vars, NEW e \in Devices,
         EngineStep(e) \/ Failure(e)
  PROVE  BatchKept(e)'
<1>1. /\ work \in [Devices -> Works] /\ work[e] \in Works /\ pc \in [Devices -> Labels]
      /\ work[e].batch \in Packets /\ work[e].body \in Packets /\ SystemTypeOK
  BY DEF SystemInv, SystemTypeOK, Works
<1>2. BatchKept(e) /\ ContextOK(e)
  BY DEF LossInv, LossOK, PacketKept, BatchKept, SystemInv, PendingInv
<1>3. ASSUME work'[e].batch = work[e].batch, pc'[e] \notin {"persist", "record"}
      PROVE  BatchKept(e)'
  <2> SUFFICES ASSUME NEW X, X = work[e].batch
               PROVE  HasBytes(e, X)'
    BY <1>3 DEF BatchKept
  <2> QED
    BY <1>1, <1>2, PacketsStay DEF BatchKept
<1>4. ASSUME work'[e].batch = EmptyPacket, pc'[e] \notin {"persist", "record"}
      PROVE  BatchKept(e)'
  BY <1>4, EmptyPacketType DEF BatchKept, HasBytes
<1>5. ASSUME NEW X \in Packets, NEW Y \in Packets, NEW k \in 0 .. Len(log),
             work'[e].batch = X, work'[e].body = Y, state'[e].revision = k,
             HasBytes(e, X), HasBytes(e, Y), Replaces(k, Y)
      PROVE  BatchKept(e)'
  BY <1>5, PacketsStay DEF BatchKept
<1>6. /\ NewWork.batch = EmptyPacket
      /\ \A n, b : [NewWork EXCEPT !.round = n, !.merging = b].batch = EmptyPacket
  BY DEF NewWork
<1>7. ASSUME Stop(e)
      PROVE  BatchKept(e)'
  BY <1>1, <1>4, <1>6, <1>7 DEF Stop
<1>8. ASSUME NEW p \in Paths, NEW value \in Contents \cup {None}, Kept(e, p, value),
             AddChange(e, p, value), pc[e] = "pack"
      PROVE  BatchKept(e)'
  <2> DEFINE joined == WithChange(work[e].batch, p, value)
             next == NextPacket(e, p, value)
  <2>1. joined \in Packets /\ next \in Packets
    BY <1>1, <1>8, WithChangeType, EmptyPacketType DEF NextPacket
  <2>2. HasBytes(e, joined) /\ HasBytes(e, next)
    <3>1. HasBytes(e, work[e].batch) /\ HasBytes(e, EmptyPacket)
      BY <1>2, EmptyPacketType DEF BatchKept, HasBytes
    <3> QED
      BY <1>1, <1>8, <3>1, AddedBytes, EmptyPacketType DEF NextPacket
  <2> HIDE DEF joined, next
  <2>3. CASE work' = [work EXCEPT ![e].batch = joined, ![e].deletes = @ \ {p},
                                  ![e].puts = @ \ {p}]
             /\ UNCHANGED <<pc, state>>
    <3>1. work'[e].batch = joined /\ pc'[e] = "pack"
      BY <1>1, <1>8, <2>3 DEF Works
    <3> SUFFICES ASSUME NEW X, X = joined
                 PROVE  HasBytes(e, X)'
      BY <3>1 DEF BatchKept
    <3> QED
      BY <2>1, <2>2, PacketsStay
  <2>4. CASE work' = [work EXCEPT ![e].body = work[e].batch, ![e].batch = next,
                                  ![e].deletes = @ \ {p}, ![e].puts = @ \ {p}]
             /\ UNCHANGED state
    <3>1. /\ work'[e].batch = next /\ work'[e].body = work[e].batch
          /\ state'[e].revision = state[e].revision
      BY <1>1, <1>8, <2>4 DEF Works
    <3> SUFFICES ASSUME NEW X, X = next, NEW Y, Y = work[e].batch,
                        NEW k, k = state[e].revision
                 PROVE  BatchKept(e)'
      OBVIOUS
    <3> QED
      BY <1>5, <1>8, <2>1, <2>2, <3>1, BatchReplaces
  <2> QED
    BY <1>7, <1>8, <2>3, <2>4, AddChangeCases
    DEF SystemInv, Added, Joined, Started, joined, next
<1>9. CASE PackDelete(e)
  <2>1. NextDelete(e) \in work[e].deletes /\ NextDelete(e) \in Paths /\ Kept(e, NextDelete(e), None)
    BY <1>1, <1>9, FirstIsIn DEF PackDelete, NextDelete, Works, Kept, Settled
  <2> QED
    BY <1>8, <1>9, <2>1 DEF PackDelete
<1>10. CASE PackPut(e)
  <2>1. CASE Stop(e)
    BY <1>7, <2>1
  <2>2. CASE ~Stop(e)
    <3>1. NextPut(e) \in work[e].puts /\ NextPut(e) \in Paths /\ work[e].local \in Digests
      BY <1>1, <1>10, FirstIsIn DEF PackPut, NextPut, Works
    <3>2. /\ Kept(e, NextPut(e), Local(e)[NextPut(e)])
          /\ Local(e)[NextPut(e)] \in Contents \cup {None}
      BY <1>10, <2>2, <3>1 DEF PackPut, Kept, Local, Digests
    <3> QED
      BY <1>8, <1>10, <2>2, <3>1, <3>2 DEF PackPut
  <2> QED
    BY <2>1, <2>2
<1>11. CASE FlushLast(e)
  <2>1. CASE Flushed(e)
    <3>1. /\ work'[e].batch = EmptyPacket /\ work'[e].body = work[e].batch
          /\ state'[e].revision = state[e].revision /\ pc[e] = "pack"
      BY <1>1, <1>11, <2>1 DEF FlushLast, Flushed, Works
    <3>2. HasBytes(e, EmptyPacket)
      BY EmptyPacketType DEF HasBytes
    <3> SUFFICES ASSUME NEW X, X = EmptyPacket, NEW Y, Y = work[e].batch,
                        NEW k, k = state[e].revision
                 PROVE  BatchKept(e)'
      OBVIOUS
    <3> QED
      BY <1>5, <3>1, <3>2, BatchReplaces, EmptyPacketType
  <2>2. CASE Finished(e)
    BY <1>1, <1>3, <2>2 DEF Finished, Goto
  <2> QED
    BY <1>7, <1>11, <2>1, <2>2, FlushLastCases DEF SystemInv
<1>12. CASE PersistPacket(e)
  <2>1. /\ HasBytes(e, work[e].batch) /\ HasBytes(e, work[e].body)
        /\ Replaces(state[e].revision, work[e].body)
    BY <1>2, <1>12 DEF PersistPacket, BatchKept
  <2> SUFFICES ASSUME NEW X, X = work[e].batch, NEW Y, Y = work[e].body,
                      NEW k, k = state[e].revision
               PROVE  BatchKept(e)'
    OBVIOUS
  <2> QED
    BY <1>1, <1>5, <1>12, <2>1, BaseContents DEF PersistPacket
<1>13. CASE RecordPending(e)
  BY <1>1, <1>3, <1>13 DEF RecordPending, Goto
<1>14. CASE Report(e)
  BY <1>7, <1>14 DEF Report
<1>15. CASE PlanPush(e)
  <2>1. CASE work' = [work EXCEPT ![e].deletes = PushedDeletes(e), ![e].puts = PushedPuts(e)]
             /\ Goto(e, "pack")
    BY <1>1, <1>3, <2>1 DEF Works, Goto
  <2> QED
    BY <1>7, <1>15, <2>1 DEF PlanPush
<1>16. ASSUME AfterDrop(e), pc[e] \in {"submit", "reply"}
       PROVE  BatchKept(e)'
  <2>1. CASE Stop(e)
    BY <1>7, <2>1
  <2>2. CASE NewRound(e, work[e].round + 1) /\ Goto(e, "head")
    BY <1>1, <1>4, <1>6, <2>2 DEF NewRound, Goto
  <2>3. CASE UNCHANGED work /\ Goto(e, "head")
    BY <1>1, <1>3, <2>3 DEF Goto
  <2> QED
    BY <1>16, <2>1, <2>2, <2>3 DEF AfterDrop
<1>17. CASE SubmitPending(e)
  <2>1. CASE UNCHANGED work /\ Goto(e, "reply")
    BY <1>1, <1>3, <2>1 DEF Goto
  <2> QED
    BY <1>16, <1>17, <2>1 DEF SubmitPending
<1>18. CASE UploadReply(e)
  <2>1. CASE Confirm(e)
    BY <1>1, <1>3, <2>1 DEF Confirm, Goto, Works
  <2> QED
    BY <1>7, <1>16, <1>18, <2>1 DEF UploadReply
<1>19. CASE LoadState(e) \/ AskHead(e) \/ Fetch(e) \/ ListVault(e)
  <2>1. CASE ListVault(e)
    BY <1>3, <2>1, ListKeeps DEF SystemInv
  <2> QED
    BY <1>1, <1>3, <1>7, <1>19, <2>1
    DEF LoadState, AskHead, ResetBase, UpToDate, StartBatch, Fetch, Goto, Works
<1>20. CASE ReadFile(e)
  <2> DEFINE q == First(work[e].todo)
             found == [work[e].local EXCEPT ![q] = files[e][q]]
  <2>1. work' = [work EXCEPT ![e] = [work[e] EXCEPT !.local = found, !.todo = @ \ {q}]]
    BY <1>20 DEF ReadFile
  <2> HIDE DEF q, found
  <2> QED
    BY <1>1, <1>3, <1>20, <2>1 DEF ReadFile, Works
<1>21. CASE PlanRemote(e)
  <2>1. CASE Stop(e)
    BY <1>7, <2>1
  <2>2. ASSUME NEW name, work' = [work EXCEPT ![e].deletes = PlannedDeletes(e),
                                              ![e].copies = CopiesNamed(e, name),
                                              ![e].puts = PlannedPuts(e)],
               Goto(e, "apply")
        PROVE  BatchKept(e)'
    <3>1. work'[e].batch = work[e].batch /\ pc'[e] = "apply"
      BY <1>1, <2>2 DEF Goto, Works
    <3> QED
      BY <1>3, <3>1
  <2> QED
    BY <1>21, <2>1, <2>2 DEF PlanRemote
<1>22. CASE CheckDelete(e) \/ TrashFile(e) \/ CheckPut(e) \/ WriteFile(e)
  BY <1>1, <1>3, <1>7, <1>22
  DEF CheckDelete, TrashFile, CheckPut, WriteFile, Goto, Works
<1>23. CASE WriteCopy(e)
  BY <1>1, <1>3, <1>7, <1>23 DEF WriteCopy, Works
<1>24. CASE SaveBatch(e)
  BY <1>1, <1>4, <1>6, <1>24 DEF SaveBatch, Goto
<1>25. CASE Failure(e)
  BY <1>1, <1>3, <1>7, <1>25 DEF Failure, Interrupt, DamageState
<1> QED
  BY <1>9, <1>10, <1>11, <1>12, <1>13, <1>14, <1>15, <1>17, <1>18, <1>19, <1>20, <1>21,
     <1>22, <1>23, <1>24, <1>25
  DEF EngineStep, PullStep, PushStep

(* A stored upload says what the vault has, and replaces what is settled.  *)
PendingKept(d, s) ==
  s.pending # None => HasBytes(d, s.pending.digest) /\ Replaces(s.revision, s.pending.digest)

LEMMA PacketKeptStep ==
  ASSUME SystemInv, LossInv, Instance, [Next]_vars, NEW e \in Devices,
         EngineStep(e) \/ Failure(e)
  PROVE  PacketKept(e)'
<1> DEFINE Right(s) == /\ s \in States /\ s.revision \in 0 .. Len(log)
                       /\ PendingKept(e, s)
           Old(s) == s.pending = None \/ Right(s)
<1>1. /\ state \in [Devices -> States] /\ state[e] \in States /\ state[e] # None
      /\ disk \in [Devices -> States \cup {None}] /\ disk[e] \in States \cup {None}
      /\ work[e].body \in Packets
  BY NoneIsNone DEF SystemInv, SystemTypeOK, Works
<1>2. PacketKept(e) /\ BaseOK(e)
  BY DEF LossInv, LossOK, SystemInv, BaseInv
<1>3. ASSUME NEW s, Old(s), NEW t, t = None \/ Old(t), state'[e] = s, disk'[e] = t
      PROVE  PacketKept(e)'
  <2>1. ASSUME NEW u \in {s, t} \ {None}, u.pending # None,
               NEW X, X = u.pending.digest, NEW k, k = u.revision
        PROVE  HasBytes(e, X)' /\ Replaces(k, X)'
    <3>1. X \in Packets /\ k \in 0 .. Len(log) /\ HasBytes(e, X) /\ Replaces(k, X)
      BY <1>3, <2>1, StateParts DEF PendingKept
    <3> QED
      BY <3>1, PacketsStay
  <2>2. BatchKept(e)'
    BY BatchKeptStep
  <2> QED
    BY <1>3, <2>1, <2>2 DEF PacketKept, BatchKept
<1>4. Old(state[e]) /\ (disk[e] = None \/ Old(disk[e])) /\ Old(FreshState)
  <2>1. \A s \in {state[e], disk[e]} \ {None} : s \in States /\ s.revision \in 0 .. Len(log)
    BY <1>1, <1>2, StateParts, LengthIsRevision DEF BaseOK, Known, SystemInv, Revisions
  <2> QED
    BY <1>1, <1>2, <2>1 DEF PacketKept, PendingKept, FreshState
<1>5. Old([state[e] EXCEPT !.pending = None])
  BY <1>1 DEF States, StateFields
<1> HIDE DEF Right
<1>6. ASSUME UNCHANGED <<state[e], disk[e]>>
      PROVE  PacketKept(e)'
  BY <1>3, <1>4, <1>6
<1>7. ASSUME Stop(e), UNCHANGED disk \/ disk' = [disk EXCEPT ![e] = None]
      PROVE  PacketKept(e)'
  BY <1>1, <1>3, <1>4, <1>7 DEF Stop
<1>8. ASSUME NEW s, Old(s), SaveState(e, s)
      PROVE  PacketKept(e)'
  BY <1>1, <1>3, <1>8 DEF SaveState
<1>9. ASSUME AfterDrop(e)
      PROVE  PacketKept(e)'
  <2>1. CASE DropPending(e)
    BY <1>5, <1>8, <2>1 DEF DropPending
  <2>2. CASE Stop(e) /\ disk' = [disk EXCEPT ![e] = [state[e] EXCEPT !.pending = None]]
    BY <1>1, <1>3, <1>4, <1>5, <2>2 DEF Stop
  <2> QED
    BY <1>9, <2>1, <2>2 DEF AfterDrop
<1>10. CASE LoadState(e)
  BY <1>1, <1>3, <1>4, <1>10 DEF LoadState
<1>11. CASE SubmitPending(e)
  BY <1>6, <1>9, <1>11 DEF SubmitPending
<1>12. CASE UploadReply(e)
  <2>1. Old(ConfirmedState(e))
    BY DEF ConfirmedState
  <2> QED
    BY <1>7, <1>8, <1>9, <1>12, <2>1 DEF UploadReply, Confirm
<1>13. CASE AskHead(e)
  BY <1>4, <1>6, <1>8, <1>13 DEF AskHead, ResetBase, ResetState, UpToDate, StartBatch
<1>14. CASE \/ Fetch(e) \/ PlanRemote(e) \/ CheckDelete(e) \/ WriteCopy(e) \/ CheckPut(e)
  BY <1>6, <1>7, <1>14 DEF Fetch, PlanRemote, CheckDelete, WriteCopy, CheckPut
<1>15. CASE \/ ListVault(e) \/ ReadFile(e) \/ TrashFile(e) \/ WriteFile(e)
            \/ PersistPacket(e)
  BY <1>6, <1>15
  DEF ListVault, ReadFile, TrashFile, WriteFile, PersistPacket
<1>16. CASE SaveBatch(e)
  <2> DEFINE s == [revision |-> BatchRevision(e), digests |-> Remote(e), pending |-> None]
  <2>1. Old(s)
    OBVIOUS
  <2> HIDE DEF s
  <2> QED
    BY <1>8, <1>16, <2>1 DEF SaveBatch, s
<1>17. CASE PlanPush(e) \/ PackDelete(e) \/ PackPut(e) \/ FlushLast(e) \/ Report(e)
  BY <1>6, <1>7, <1>17, PackKeeps
  DEF SystemInv, PlanPush, PackDelete, PackPut, FlushLast, Report
<1>18. CASE RecordPending(e)
  <2>1. PICK op \in OpIds : SaveState(e, RecordedState(e, op))
    BY <1>18 DEF RecordPending
  <2>2. /\ RecordedState(e, op).revision = state[e].revision
        /\ RecordedState(e, op).pending = PendingUpload(e, op)
    BY <1>1 DEF RecordedState, States, StateFields
  <2>3. PendingUpload(e, op).digest = work[e].body
    BY DEF PendingUpload
  <2>4. HasBytes(e, work[e].body) /\ Replaces(state[e].revision, work[e].body)
    BY <1>2, <1>18 DEF RecordPending, PacketKept
  <2>5. state'[e] = RecordedState(e, op) /\ state'[e] \in States
    BY <1>1, <1>18, <2>1, StateTypeStep DEF SaveState, SystemInv
  <2>6. Right(RecordedState(e, op))
    BY <2>2, <2>3, <2>4, <2>5, BaseContents DEF Right, PendingKept
  <2> QED
    BY <1>8, <2>1, <2>6
<1>19. CASE Failure(e)
  BY <1>1, <1>3, <1>4, <1>7, <1>19 DEF Failure, Interrupt, DamageState
<1> QED
  BY <1>10, <1>11, <1>12, <1>13, <1>14, <1>15, <1>16, <1>17, <1>18, <1>19
  DEF EngineStep, PullStep, PushStep

-----------------------------------------------------------------------------
(* The invariant, and the theorem. *)

LEMMA LossStep ==
  ASSUME SystemInv, LossInv, Instance, NamesAreUnique, [Next]_vars
  PROVE  LossInv'
<1> SUFFICES ASSUME NEW e \in Devices
             PROVE  LossOK(e)'
  BY HistoryStep, UploadsStep DEF LossInv
<1>1. FilesMade(e)'
  BY FilesMadeStep
<1> DEFINE Goal == BaseKept(e)' /\ ScanKept(e)' /\ ApplyKept(e)' /\ PushKept(e)' /\ PacketKept(e)'
<1>2. ASSUME UNCHANGED <<pc[e], state[e], work[e], disk[e]>>
      PROVE  Goal
  BY <1>2, OthersKeepVersions
<1>3. ASSUME EngineStep(e) \/ Failure(e)
      PROVE  Goal
  BY <1>3, BaseKeptStep, ScanKeptStep, ApplyKeptStep, PushKeptStep, PacketKeptStep
<1> HIDE DEF Goal
<1>4. SystemTypeOK
  BY DEF SystemInv
<1>5. ASSUME NEW d \in Devices, EngineStep(d) \/ Failure(d)
      PROVE  Goal
  BY <1>2, <1>3, <1>4, <1>5, OthersKeep DEF Own
<1>6. ASSUME NEW m, HandleUpload(m)
      PROVE  Goal
  BY <1>2, <1>6 DEF HandleUpload
<1>7. ASSUME NEW revision, Restore(revision)
      PROVE  Goal
  BY <1>2, <1>7 DEF Restore, plugin
<1>8. ASSUME NEW d \in Devices, UserStep(d)
      PROVE  Goal
  BY <1>2, <1>4, <1>8, UserTypeStep DEF plugin
<1>9. ASSUME UNCHANGED vars
      PROVE  Goal
  BY <1>2, <1>9 DEF vars
<1>10. Goal
  BY <1>5, <1>6, <1>7, <1>8, <1>9 DEF Next, ServerStep, Sync, Fail
<1> QED
  BY <1>1, <1>10 DEF LossOK, Goal

(* A version that no user has given up is visible, and stays visible.      *)
LEMMA VisibleStep ==
  ASSUME SystemInv, LossInv, Instance, NoSilentLoss, [Next]_vars
  PROVE  NoSilentLoss'
<1>1. SystemTypeOK /\ live \subseteq Paths \X Contents /\ None \notin Contents
  BY NoneIsNone DEF SystemInv, SystemTypeOK
<1>2. ASSUME NEW p \in Paths, NEW c \in Contents, <<p, c>> \in live, <<p, c>> \in live'
      PROVE  Visible(p, c)'
  <2>1. PICK q \in {p} \cup CopiesOf[p] :
          Now[q] = c \/ \E d \in Devices : files[d][q] = c
    BY <1>2 DEF NoSilentLoss, Visible
  <2>2. q \in Paths /\ (q # p => q \in CopyNames)
    BY PlanAssumption DEF CopyNames
  <2>3. Settled(q, c) => Visible(p, c)'
    <3>1. ASSUME Settled(q, c)
          PROVE  q = p /\ Settled(p, c)'
      BY <1>1, <2>2, <3>1, SettledStays DEF Settled
    <3>2. Settled(p, c)' => InCopy(p, c)'
      BY <1>1, <1>2 DEF Settled
    <3> QED
      BY <3>1, <3>2 DEF InCopy, Visible
  <2>4. CASE Now[q] = c
    BY <2>2, <2>3, <2>4, ContentsReplaced DEF Visible
  <2>5. ASSUME NEW d \in Devices, files[d][q] = c
        PROVE  Visible(p, c)'
    <3>1. CASE files'[d][q] = c
      BY <3>1 DEF Visible
    <3>2. CASE files'[d][q] # c
      <4>1. Settled(q, c) \/ (q \notin CopyNames /\ <<q, c>> \notin live')
        BY <2>2, <2>5, <3>2, FileReplaced
      <4> QED
        BY <1>2, <2>2, <2>3, <4>1
    <3> QED
      BY <3>1, <3>2
  <2> QED
    BY <2>1, <2>4, <2>5
(* A new version is where its user wrote it.                               *)
<1>3. ASSUME NEW p \in Paths, NEW c \in Contents, <<p, c>> \notin live, <<p, c>> \in live'
      PROVE  Visible(p, c)'
  <2>1. ASSUME NEW d \in Devices, UserStep(d)
        PROVE  Visible(p, c)'
    <3>1. PICK r \in Edited, value \in NewContents \cup {None} :
            /\ r \in Paths
            /\ files' = [files EXCEPT ![d] = [files[d] EXCEPT ![r] = value]]
            /\ live' \subseteq (live \ Dismissed(d, r)) \cup {<<r, value>>}
      BY <1>1, <2>1, UserEffect
    <3>2. p = r /\ c = value
      BY <1>3, <3>1
    <3>3. files'[d][p] = c
      BY <3>1, <3>2 DEF SystemInv, SystemTypeOK, Digests
    <3> QED
      BY <3>3 DEF Visible
  <2>2. ASSUME NEW m, HandleUpload(m)
        PROVE  FALSE
    BY <1>3, <2>2 DEF HandleUpload, user
  <2>3. ASSUME NEW revision, Restore(revision)
        PROVE  FALSE
    BY <1>3, <2>3 DEF Restore, user
  <2> QED
    BY <1>3, <2>1, <2>2, <2>3 DEF Next, ServerStep, Sync, Fail, user, vars
<1>4. live' \subseteq Paths \X Contents
  BY <1>1, TypeStep DEF SystemInv, SystemTypeOK
<1> QED
  BY <1>2, <1>3, <1>4 DEF NoSilentLoss

LEMMA SystemStart == Init => SystemInv
<1>1. Init => restores = 0
  BY DEF Init
<1> QED
  BY <1>1, TypeStart, PendingStart, BaseStart, PlanStart, PushStart DEF SystemInv

LEMMA SystemStep ==
  ASSUME SystemInv, Instance, [Next]_vars
  PROVE  SystemInv'
  BY NotRestored, TypeStep, PendingStep, BaseInvStep, PlanStep, PushInvStep
  DEF SystemInv, Instance

LEMMA LossStart == Init => LossInv /\ NoSilentLoss
<1> SUFFICES ASSUME Init
             PROVE  LossInv /\ NoSilentLoss
  OBVIOUS
<1>1. /\ SharedStart \in Digests
      /\ \A p \in Paths : SharedStart[p] \in (1 .. StartContents) \cup {None}
  BY SyncSystemAssumption
<1>2. Made = (1 .. StartContents) \cup (StartContents + MaxEdits + 1 .. StartContents + MaxEdits) \cup {None}
  <2>1. StartContents \in Nat /\ MaxEdits \in Nat
    <3>1. Present(SharedStart) \subseteq Paths /\ IsFiniteSet(Paths)
      BY PacketSizeAssumption DEF Present
    <3> QED
      BY <3>1, FS_Subset, FS_CardinalityType, SyncSystemAssumption DEF StartContents
  <2>2. StartContents + edits = StartContents
        /\ StartContents + MaxEdits + edits = StartContents + MaxEdits
    BY <2>1 DEF Init
  <2> QED
    BY <2>2 DEF Made
<1>3. None \in Made /\ \A p \in Paths : SharedStart[p] \in Made
  BY <1>1, <1>2
<1>4. \A p \in Paths : NoFiles[p] = None
  BY DEF NoFiles
<1>5. Len(log) \in 0 .. 1 /\ Now = SharedStart
      /\ \A i \in 0 .. Len(log) : ContentsAt(i) = NoFiles \/ (i = Len(log) /\ ContentsAt(i) = SharedStart)
  <2>1. CASE SharedStart = NoFiles
    <3>1. log = <<>> /\ Len(log) = 0
      BY <2>1 DEF Init, StartLog
    <3> QED
      BY <2>1, <3>1 DEF Now, ContentsAt
  <2>2. CASE SharedStart # NoFiles
    <3>1. Len(log) = 1 /\ log[1].contents = SharedStart
      BY <2>2 DEF Init, StartLog
    <3>2. \A i \in 0 .. 1 : i = 0 \/ i = 1
      OBVIOUS
    <3> QED
      BY <3>1, <3>2 DEF Now, ContentsAt
  <2> QED
    BY <2>1, <2>2
<1>6. HistoryKept
  <2> SUFFICES ASSUME NEW j \in 0 .. Len(log), NEW p \in Paths
               PROVE  /\ ContentsAt(j)[p] \in Made
                      /\ \A i \in 0 .. j :
                           \/ ContentsAt(i)[p] = ContentsAt(j)[p]
                           \/ Settled(p, ContentsAt(i)[p])
    BY DEF HistoryKept
  <2>1. ContentsAt(j)[p] \in Made
    BY <1>3, <1>4, <1>5
  <2>2. ASSUME NEW i \in 0 .. j
        PROVE  ContentsAt(i)[p] = ContentsAt(j)[p] \/ Settled(p, ContentsAt(i)[p])
    <3>1. i = j \/ (i \in 0 .. Len(log) /\ i # Len(log))
      BY <1>5
    <3> QED
      BY <1>4, <1>5, <3>1 DEF Settled
  <2> QED
    BY <2>1, <2>2
<1>7. UploadsKept
  BY DEF Init, UploadsKept
<1>8. ASSUME NEW d \in Devices
      PROVE  LossOK(d)
  <2>1. /\ pc[d] = "idle" /\ state[d] = FreshState /\ work[d] = NewWork
        /\ disk[d] = StartDisk /\ files[d] = SharedStart
    BY DEF Init
  <2>2. FilesMade(d)
    BY <1>3, <2>1 DEF FilesMade
  <2>3. \A s \in {state[d], disk[d]} \ {None} :
          s.pending = None /\ (s.digests = NoFiles \/ s.digests = SharedStart)
    BY <2>1 DEF FreshState, StartDisk
  <2>4. BaseKept(d)
    BY <1>4, <2>1, <2>3 DEF BaseKept, Kept, Settled
  <2>5. ScanKept(d) /\ PushKept(d) /\ ApplyKept(d)
    BY <2>1 DEF ScanKept, PushKept, ApplyKept, Pushing, Pulling
  <2>6. PacketKept(d)
    BY <2>1, <2>3, EmptyPacketType DEF PacketKept, HasBytes, NewWork
  <2> QED
    BY <2>2, <2>4, <2>5, <2>6 DEF LossOK
<1>9. NoSilentLoss
  <2> SUFFICES ASSUME NEW version \in live
               PROVE  Visible(version[1], version[2])
    BY DEF NoSilentLoss
  <2> QED
    BY <1>5 DEF Init, Visible
<1> QED
  BY <1>6, <1>7, <1>8, <1>9 DEF LossInv

(* "No version disappears silently" (docs/ARCHITECTURE.md), whatever the   *)
(* devices, their order and the faults: uploads lost, repeated or late,    *)
(* cycles interrupted anywhere, state files damaged.  Without one of the   *)
(* hypotheses it is false: if users put a conflict copy in place of its    *)
(* note, edit between a check and its write, or edit conflict copies, or   *)
(* if the server is restored from a backup.  NamesAreUnique says that the  *)
(* time in the name of a conflict copy makes it new (engine.ts,            *)
(* conflictStamp).                                                         *)
THEOREM VersionsAreKept ==
  /\ TakingCopies = FALSE /\ EditsInWindow = FALSE /\ MaxRestores = 0
  /\ Edited \cap CopyNames = {}
  /\ Spec /\ []NamesAreUnique
  => []NoSilentLoss
<1> SUFFICES ASSUME Instance
             PROVE  Spec /\ []NamesAreUnique => []NoSilentLoss
  BY DEF Instance
<1> DEFINE Inv == SystemInv /\ LossInv /\ NoSilentLoss
<1>1. Init => Inv
  BY SystemStart, LossStart
<1>2. Inv /\ NamesAreUnique /\ [Next]_vars => Inv'
  <2> SUFFICES ASSUME SystemInv, LossInv, NoSilentLoss, NamesAreUnique, [Next]_vars
               PROVE  SystemInv' /\ LossInv' /\ NoSilentLoss'
    OBVIOUS
  <2> QED
    BY SystemStep, LossStep, VisibleStep
<1>3. Inv => NoSilentLoss
  OBVIOUS
<1> HIDE DEF Inv
<1> QED
  BY <1>1, <1>2, <1>3, PTL DEF Spec
=============================================================================
