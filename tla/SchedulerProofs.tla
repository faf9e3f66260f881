-------------------------- MODULE SchedulerProofs --------------------------
(***************************************************************************)
(* Proofs about Scheduler with HashCache, for any number of edits, quiet   *)
(* edits, failures and restarts.                                           *)
(***************************************************************************)
EXTENDS Scheduler, TLAPS

-----------------------------------------------------------------------------
(* The inductive invariant of the cache. *)

Entries == [stamp : 0 .. MaxEdits, digest : 0 .. MaxEdits]

(* Whatever a scan or the cache has is not newer than the file.            *)
NothingIsNewer ==
  /\ cache \in Entries \cup {NoEntry, Unloaded}
  /\ saved \in Entries \cup {NoEntry, Unloaded}
  /\ stamp <= content /\ lastQuiet \in 0 .. content
  /\ listed <= stamp /\ local <= content /\ atStart <= content
  /\ \A e \in {cache, saved} \ {NoEntry, Unloaded} :
       e.stamp <= stamp /\ e.digest <= content

(* The digest that is about to be remembered is right for the stamp of the *)
(* listing, unless the file was written with another stamp since.          *)
DigestIsRight ==
  phase = "digest" =>
    /\ local >= atStart
    /\ stamp = listed => local = content \/ local < lastQuiet

(* A full scan trusts nothing. *)
FullScanReads == manual /\ phase = "list" => ~HasEntry

CacheInv ==
  /\ SchedulerTypeOK /\ NothingIsNewer
  /\ CacheTruthful /\ DigestIsRight /\ FullScanReads /\ ScanIsCurrent

-----------------------------------------------------------------------------
(* The inductive invariant of the timer. *)

TimerIsAllowed == timer => automatic \/ SwitchingOff \/ unsaved

-----------------------------------------------------------------------------
(* The steps of the plugin that leave the file and its digests alone.      *)

(* The saves of the setting are a queue that is not too long.              *)
Saves == Seq([enabled : BOOLEAN, previous : BOOLEAN])
SavesOK == saves \in Saves /\ Len(saves) <= MaxSaves

LEMMA CacheInvStart == SchedulerInit => CacheInv /\ TimerIsAllowed
<1> SUFFICES ASSUME SchedulerInit
             PROVE  CacheInv /\ TimerIsAllowed
  OBVIOUS
<1>1. SchedulerTypeOK
  <2>1. /\ automatic \in BOOLEAN /\ stored \in BOOLEAN /\ unsaved \in BOOLEAN
        /\ SavesOK
    <3>1. automatic \in BOOLEAN /\ stored \in BOOLEAN /\ unsaved \in BOOLEAN
      BY DEF SchedulerInit
    <3>2. saves = <<>>
      BY DEF SchedulerInit
    <3>3. SavesOK
      BY <3>2, SchedulerAssumption DEF SavesOK, Saves
    <3> QED
      BY <3>1, <3>3
  <2>2. hidden \in BOOLEAN /\ timer \in BOOLEAN
    BY DEF SchedulerInit
  <2>3. manual \in BOOLEAN /\ failed \in BOOLEAN /\ requested \in BOOLEAN
    BY DEF SchedulerInit
  <2>4. phase \in Phases /\ (requested => phase # "idle")
    BY DEF SchedulerInit, Phases
  <2>5. {content, stamp, listed, local, atStart, synced} \subseteq 0 .. MaxEdits
    BY HashCacheAssumption DEF SchedulerInit, CacheInit
  <2> QED
    BY <2>1, <2>2, <2>3, <2>4, <2>5 DEF SchedulerTypeOK, SavesOK, Saves
<1>2. NothingIsNewer /\ CacheTruthful
  BY DEF SchedulerInit, CacheInit, NothingIsNewer, CacheTruthful
<1>3. DigestIsRight /\ FullScanReads /\ ScanIsCurrent /\ TimerIsAllowed
  BY DEF SchedulerInit, DigestIsRight, FullScanReads, ScanIsCurrent, TimerIsAllowed
<1> QED
  BY <1>1, <1>2, <1>3 DEF CacheInv

LEMMA SavesAreTyped ==
  ASSUME SavesOK
  PROVE  \A i \in DOMAIN saves : saves[i].enabled \in BOOLEAN /\ saves[i].previous \in BOOLEAN
<1> TAKE i \in DOMAIN saves
<1> DEFINE S == [enabled : BOOLEAN, previous : BOOLEAN]
<1>1. saves[i] \in S
  <2>1. saves \in Seq(S)
    BY DEF SavesOK, Saves
  <2> HIDE DEF S
  <2> QED
    BY <2>1
<1> QED
  BY <1>1, Zenon

(* What of the invariant is about the plugin's fields: their types.        *)
FieldsOK ==
  /\ automatic \in BOOLEAN /\ stored \in BOOLEAN /\ unsaved \in BOOLEAN
  /\ SavesOK
  /\ hidden \in BOOLEAN /\ timer \in BOOLEAN
  /\ manual \in BOOLEAN /\ failed \in BOOLEAN /\ requested \in BOOLEAN
  /\ phase \in Phases
  /\ requested => phase # "idle"

(* If a step changes nothing that is scanned or cached, and the cycle is   *)
(* where it was or where no digest is in use, the invariant is kept.       *)
LEMMA CacheKept ==
  ASSUME CacheInv, UNCHANGED cacheVars, FieldsOK',
         synced' \in {synced, local},
         \/ UNCHANGED <<phase, manual>>
         \/ phase' \in {"idle", "load", "save"}
  PROVE  CacheInv'
<1>1. SchedulerTypeOK'
  BY DEF CacheInv, SchedulerTypeOK, FieldsOK, SavesOK, Saves, cacheVars, file, cached, scan
<1>2. NothingIsNewer' /\ CacheTruthful'
  BY DEF CacheInv, NothingIsNewer, CacheTruthful, cacheVars, file, cached, scan
<1>3. DigestIsRight' /\ FullScanReads' /\ ScanIsCurrent'
  BY DEF CacheInv, DigestIsRight, FullScanReads, ScanIsCurrent, HasEntry,
         cacheVars, file, cached, scan
<1> QED
  BY <1>1, <1>2, <1>3 DEF CacheInv

LEMMA PluginStep ==
  ASSUME CacheInv,
         \/ Fire \/ syncNow \/ Poll \/ Hide \/ Show \/ Choose \/ SaveSettings
         \/ Push \/ Fail \/ UNCHANGED schedulerVars
  PROVE  CacheInv'
<1>1. FieldsOK
  BY DEF CacheInv, SchedulerTypeOK, FieldsOK, SavesOK, Saves
<1>2. CASE Fire \/ syncNow
  <2>1. FieldsOK'
    BY <1>1, <1>2 DEF FieldsOK, SavesOK, Fire, syncNow, runSync, setting, cycle, Phases
  <2>2. UNCHANGED <<phase, manual>> \/ phase' = "load"
    BY <1>2 DEF Fire, syncNow, runSync, cycle
  <2>3. UNCHANGED <<cacheVars, synced>>
    BY <1>2 DEF Fire, syncNow
  <2> QED
    BY <2>1, <2>2, <2>3, CacheKept
<1>3. CASE Poll \/ Hide \/ Show \/ Choose \/ SaveSettings
  <2>1. FieldsOK'
    <3>1. CASE Poll
      BY <1>1, <3>1 DEF FieldsOK, SavesOK, Poll, scheduleAutoSync, setting, cycle
    <3>2. CASE Hide
      BY <1>1, <3>2 DEF FieldsOK, SavesOK, Hide, setting, cycle
    <3>3. CASE Show
      BY <1>1, <3>3 DEF FieldsOK, SavesOK, Show, setting, cycle
    <3>4. CASE Choose
      <4>1. automatic' \in BOOLEAN /\ SavesOK'
        BY <1>1, <3>4, SchedulerAssumption DEF FieldsOK, SavesOK, Saves, Choose
      <4>2. UNCHANGED <<stored, unsaved, hidden, timer, phase, manual, failed, requested>>
        BY <3>4 DEF Choose, cycle
      <4> QED
        BY <1>1, <4>1, <4>2 DEF FieldsOK
    <3>5. CASE SaveSettings
      <4>1. Head(saves).enabled \in BOOLEAN /\ Head(saves).previous \in BOOLEAN
        <5>1. 1 \in DOMAIN saves /\ Head(saves) = saves[1]
          BY <1>1, <3>5 DEF FieldsOK, SavesOK, Saves, SaveSettings
        <5> QED
          BY <1>1, <5>1, SavesAreTyped, Zenon DEF FieldsOK
      <4>2. SavesOK'
        BY <1>1, <3>5, SchedulerAssumption DEF FieldsOK, SavesOK, Saves, SaveSettings
      <4>3. /\ automatic' \in BOOLEAN /\ stored' \in BOOLEAN /\ unsaved' \in BOOLEAN
            /\ timer' \in BOOLEAN
        BY <1>1, <3>5, <4>1
        DEF FieldsOK, SaveSettings, Saved, NotSaved, Chosen, scheduleAutoSync
      <4>4. UNCHANGED <<hidden, phase, manual, failed, requested>>
        BY <3>5 DEF SaveSettings, cycle
      <4> QED
        BY <1>1, <4>2, <4>3, <4>4 DEF FieldsOK
    <3> QED
      BY <1>3, <3>1, <3>2, <3>3, <3>4, <3>5
  <2>2. UNCHANGED <<cacheVars, synced, phase, manual>>
    BY <1>3 DEF Poll, Hide, Show, Choose, SaveSettings, cycle
  <2> QED
    BY <2>1, <2>2, CacheKept
<1>4. CASE Push \/ Fail
  <2>1. FieldsOK'
    BY <1>1, <1>4 DEF FieldsOK, SavesOK, Push, Fail, setting, Phases
  <2>2. UNCHANGED cacheVars /\ phase' = "save" /\ synced' \in {synced, local}
    BY <1>4 DEF Push, Fail
  <2> QED
    BY <2>1, <2>2, CacheKept
<1>5. CASE UNCHANGED schedulerVars
  <2>1. FieldsOK' /\ UNCHANGED <<cacheVars, synced, phase, manual>>
    BY <1>1, <1>5 DEF FieldsOK, SavesOK, schedulerVars, plugin, setting, cycle
  <2> QED
    BY <2>1, CacheKept
<1> QED
  BY <1>2, <1>3, <1>4, <1>5

-----------------------------------------------------------------------------
(* The steps that write the file, scan it or cache its digest.             *)

(* An edit makes what was found older, or, if it leaves the stamp alone,   *)
(* is noted as one that does.                                              *)
LEMMA EditStep ==
  ASSUME CacheInv, Edit
  PROVE  CacheInv'
<1>1. UNCHANGED <<cached, saved, scan, setting, hidden, cycle, requested, synced>>
  BY DEF Edit
<1>2. content \in 0 .. MaxEdits /\ stamp \in 0 .. MaxEdits
  BY DEF CacheInv, SchedulerTypeOK
<1>3. /\ content' = content + 1 /\ content' \in 0 .. MaxEdits
      /\ \/ stamp' = stamp + 1 /\ UNCHANGED lastQuiet
         \/ lastQuiet' = content' /\ UNCHANGED stamp
  BY <1>2, HashCacheAssumption DEF Edit, Write, WriteQuietly
<1>4. NothingIsNewer'
  <2>1. {listed, local, atStart} \subseteq 0 .. MaxEdits
    BY DEF CacheInv, SchedulerTypeOK
  <2> QED
    BY <1>1, <1>2, <1>3, <2>1, HashCacheAssumption
    DEF CacheInv, NothingIsNewer, cached, scan, Entries
<1>5. SchedulerTypeOK'
  <2>1. timer' \in BOOLEAN
    BY DEF Edit, scheduleAutoSync, CacheInv, SchedulerTypeOK
  <2>2. stamp' \in 0 .. MaxEdits
    BY <1>2, <1>3, HashCacheAssumption DEF CacheInv, NothingIsNewer
  <2> QED
    BY <1>1, <1>3, <2>1, <2>2
    DEF CacheInv, SchedulerTypeOK, cached, scan, setting, cycle
<1>6. CacheTruthful'
  BY <1>1, <1>2, <1>3, HashCacheAssumption
  DEF CacheInv, CacheTruthful, NothingIsNewer, cached, Entries
<1>7. DigestIsRight'
  BY <1>1, <1>2, <1>3, HashCacheAssumption
  DEF CacheInv, DigestIsRight, NothingIsNewer, SchedulerTypeOK, scan, cycle
<1>8. FullScanReads' /\ ScanIsCurrent'
  BY <1>1, <1>2, <1>3, HashCacheAssumption
  DEF CacheInv, FullScanReads, ScanIsCurrent, HasEntry, NothingIsNewer, SchedulerTypeOK,
      cached, scan, cycle
<1> QED
  BY <1>4, <1>5, <1>6, <1>7, <1>8 DEF CacheInv

(* The step is one of a running cycle: the plugin's fields keep their      *)
(* types.                                                                  *)
LEMMA GotoTypes ==
  ASSUME FieldsOK, phase # "idle", NEW next \in Phases, Goto(next)
  PROVE  /\ next # "idle" => FieldsOK'
         /\ UNCHANGED <<manual, synced>> /\ phase' = next
  BY DEF FieldsOK, SavesOK, Goto, setting

LEMMA LoadStep ==
  ASSUME CacheInv, Load
  PROVE  CacheInv'
<1>1. FieldsOK' /\ UNCHANGED <<manual, synced>> /\ phase' = "list"
  BY GotoTypes DEF Load, CacheInv, SchedulerTypeOK, FieldsOK, SavesOK, Saves, Phases
<1>2. /\ atStart' = content /\ UNCHANGED <<content, stamp, lastQuiet, saved, listed, local>>
      /\ \/ manual /\ cache' = NoEntry
         \/ ~manual /\ cache' \in {cache, saved, NoEntry}
  BY DEF Load, loadCache, Clears, file, cached
<1>3. SchedulerTypeOK'
  BY <1>1, <1>2 DEF CacheInv, SchedulerTypeOK, FieldsOK, SavesOK, Saves
<1>4. NothingIsNewer' /\ CacheTruthful'
  BY <1>2 DEF CacheInv, SchedulerTypeOK, NothingIsNewer, CacheTruthful
<1>5. DigestIsRight' /\ FullScanReads' /\ ScanIsCurrent'
  BY <1>1, <1>2 DEF DigestIsRight, FullScanReads, ScanIsCurrent, HasEntry
<1> QED
  BY <1>3, <1>4, <1>5 DEF CacheInv

(* A digest that is taken from the cache is the file's, or from before a   *)
(* quiet edit, and then the scan is not a full one.                        *)
LEMMA ListStep ==
  ASSUME CacheInv, ListFile
  PROVE  CacheInv'
<1>1. /\ FieldsOK' /\ UNCHANGED <<manual, synced>>
      /\ phase' = IF Trusted THEN "apply" ELSE "read"
  BY GotoTypes DEF ListFile, CacheInv, SchedulerTypeOK, FieldsOK, SavesOK, Saves, Phases
<1>2. /\ listed' = stamp /\ local' = IF Trusted THEN cache.digest ELSE local
      /\ UNCHANGED <<content, stamp, lastQuiet, cache, saved, atStart>>
  BY DEF ListFile, List, file, cached
<1>3. Trusted => /\ cache \in Entries /\ cache.digest <= content /\ ~manual
                 /\ cache.digest = content \/ cache.digest < lastQuiet
  BY DEF Trusted, HasEntry, CacheInv, NothingIsNewer, CacheTruthful, FullScanReads, ListFile
<1>4. SchedulerTypeOK'
  BY <1>1, <1>2, <1>3 DEF CacheInv, SchedulerTypeOK, FieldsOK, SavesOK, Saves, Entries
<1>5. NothingIsNewer' /\ CacheTruthful'
  BY <1>2, <1>3 DEF CacheInv, SchedulerTypeOK, NothingIsNewer, CacheTruthful
<1>6. DigestIsRight' /\ FullScanReads'
  BY <1>1 DEF DigestIsRight, FullScanReads
<1>7. ScanIsCurrent'
  BY <1>1, <1>2, <1>3 DEF CacheInv, NothingIsNewer, SchedulerTypeOK, ScanIsCurrent
<1> QED
  BY <1>4, <1>5, <1>6, <1>7 DEF CacheInv

LEMMA ReadStep ==
  ASSUME CacheInv, ReadFile
  PROVE  CacheInv'
<1>1. FieldsOK' /\ UNCHANGED <<manual, synced>> /\ phase' = "digest"
  BY GotoTypes DEF ReadFile, CacheInv, SchedulerTypeOK, FieldsOK, SavesOK, Saves, Phases
<1>2. local' = content /\ UNCHANGED <<content, stamp, lastQuiet, cache, saved, listed, atStart>>
  BY DEF ReadFile, Read, file, cached
<1>3. SchedulerTypeOK'
  BY <1>1, <1>2 DEF CacheInv, SchedulerTypeOK, FieldsOK, SavesOK, Saves
<1>4. NothingIsNewer' /\ CacheTruthful'
  BY <1>2 DEF CacheInv, SchedulerTypeOK, NothingIsNewer, CacheTruthful
<1>5. DigestIsRight' /\ FullScanReads' /\ ScanIsCurrent'
  BY <1>1, <1>2
  DEF DigestIsRight, FullScanReads, ScanIsCurrent, CacheInv, NothingIsNewer, SchedulerTypeOK
<1> QED
  BY <1>3, <1>4, <1>5 DEF CacheInv

(* The entry has the stamp of the listing, which came before the reading:  *)
(* a stamp that is still the file's vouches for the digest.                *)
LEMMA DigestStep ==
  ASSUME CacheInv, Digest
  PROVE  CacheInv'
<1>1. FieldsOK' /\ UNCHANGED <<manual, synced>> /\ phase' = "apply"
  BY GotoTypes DEF Digest, CacheInv, SchedulerTypeOK, FieldsOK, SavesOK, Saves, Phases
<1>2. /\ cache' \in {Entry(listed, local), cache}
      /\ UNCHANGED <<content, stamp, lastQuiet, saved, listed, local, atStart>>
  BY DEF Digest, Remember, StampRead, file, cached, scan
<1>3. /\ local >= atStart
      /\ stamp = listed => local = content \/ local < lastQuiet
  BY DEF Digest, CacheInv, DigestIsRight
<1>4. /\ Entry(listed, local) \in Entries
      /\ Entry(listed, local).stamp = listed /\ Entry(listed, local).digest = local
  BY DEF Entry, Entries, CacheInv, SchedulerTypeOK
<1>5. SchedulerTypeOK'
  BY <1>1, <1>2 DEF CacheInv, SchedulerTypeOK, FieldsOK, SavesOK, Saves
<1>6. NothingIsNewer'
  BY <1>2, <1>4 DEF CacheInv, NothingIsNewer
<1>7. CacheTruthful'
  BY <1>2, <1>3, <1>4 DEF CacheInv, CacheTruthful
<1>8. DigestIsRight' /\ FullScanReads' /\ ScanIsCurrent'
  BY <1>1, <1>2, <1>3 DEF DigestIsRight, FullScanReads, ScanIsCurrent
<1> QED
  BY <1>5, <1>6, <1>7, <1>8 DEF CacheInv

LEMMA ApplyStep ==
  ASSUME CacheInv, ApplyRemote
  PROVE  CacheInv'
<1>1. FieldsOK' /\ UNCHANGED <<manual, synced>> /\ phase' = "list"
  <2>1. timer' \in BOOLEAN
    BY DEF ApplyRemote, scheduleAutoSync, CacheInv, SchedulerTypeOK
  <2> QED
    BY <2>1 DEF ApplyRemote, CacheInv, SchedulerTypeOK, FieldsOK, SavesOK, Saves, setting, Phases
<1>2. /\ content' = content + 1 /\ stamp' = stamp + 1 /\ content < MaxEdits
      /\ cache' = NoEntry /\ UNCHANGED <<lastQuiet, saved, listed, local, atStart>>
  BY DEF ApplyRemote, ApplyAndForget, Write
<1>3. SchedulerTypeOK'
  BY <1>1, <1>2, HashCacheAssumption DEF CacheInv, NothingIsNewer, SchedulerTypeOK, FieldsOK, SavesOK, Saves
<1>4. NothingIsNewer'
  BY <1>2, HashCacheAssumption DEF CacheInv, SchedulerTypeOK, NothingIsNewer, Entries
<1>5. CacheTruthful'
  BY <1>2, HashCacheAssumption
  DEF CacheInv, SchedulerTypeOK, NothingIsNewer, CacheTruthful, Entries
<1>6. DigestIsRight' /\ FullScanReads' /\ ScanIsCurrent'
  BY <1>1, <1>2 DEF DigestIsRight, FullScanReads, ScanIsCurrent, HasEntry
<1> QED
  BY <1>3, <1>4, <1>5, <1>6 DEF CacheInv

(* The end of a cycle and of the app: what is scanned is forgotten, and    *)
(* the cache is only ever copied, lost or dropped.                         *)
LEMMA EndStep ==
  ASSUME CacheInv, Finish \/ Restart
  PROVE  CacheInv'
<1>1. /\ listed' = 0 /\ local' = 0 /\ atStart' = 0 /\ phase' = "idle"
      /\ manual' = FALSE /\ requested' = FALSE
      /\ UNCHANGED <<content, stamp, lastQuiet, synced>>
  BY DEF Finish, Restart, saveCache, Unload, NoScan, ClearRequest, file
<1>2. cache' \in {cache, Unloaded} /\ saved' \in {saved, cache, NoEntry}
  BY DEF Finish, Restart, saveCache, Unload
<1>3. /\ automatic' \in BOOLEAN /\ stored' \in BOOLEAN /\ unsaved' \in BOOLEAN
      /\ SavesOK'
      /\ hidden' \in BOOLEAN /\ timer' \in BOOLEAN /\ failed' \in BOOLEAN
  <2>1. CASE Finish
    BY <2>1
    DEF Finish, scheduleAutoSync, setting, CacheInv, SchedulerTypeOK, SavesOK, Saves
  <2>2. CASE Restart
    <3>1. {saves[i].enabled : i \in DOMAIN saves} \subseteq BOOLEAN /\ stored \in BOOLEAN
      <4>1. SavesOK /\ stored \in BOOLEAN
        BY DEF CacheInv, SchedulerTypeOK, SavesOK, Saves
      <4> QED
        BY <4>1, SavesAreTyped, Zenon
    <3>2. automatic' \in BOOLEAN /\ stored' = automatic' /\ unsaved' = FALSE
      BY <2>2, <3>1 DEF Restart
    <3>3. SavesOK'
      BY <2>2, SchedulerAssumption DEF Restart, SavesOK, Saves
    <3>4. hidden' \in BOOLEAN /\ timer' \in BOOLEAN /\ failed' \in BOOLEAN
      BY <2>2, <3>2 DEF Restart, CacheInv, SchedulerTypeOK
    <3> QED
      BY <3>2, <3>3, <3>4
  <2> QED
    BY <2>1, <2>2
<1>4. SchedulerTypeOK'
  <2>1. manual' \in BOOLEAN /\ requested' \in BOOLEAN
    BY <1>1
  <2>2. phase' \in Phases /\ (requested' => phase' # "idle")
    BY <1>1 DEF Phases
  <2>3. {content', stamp', listed', local', atStart', synced'} \subseteq 0 .. MaxEdits
    BY <1>1, HashCacheAssumption DEF CacheInv, SchedulerTypeOK
  <2> QED
    BY <1>3, <2>1, <2>2, <2>3 DEF SchedulerTypeOK, SavesOK, Saves
<1>5. NothingIsNewer'
  BY <1>1, <1>2, HashCacheAssumption DEF CacheInv, SchedulerTypeOK, NothingIsNewer
<1>6. CacheTruthful'
  BY <1>1, <1>2 DEF CacheInv, CacheTruthful
<1>7. DigestIsRight' /\ FullScanReads' /\ ScanIsCurrent'
  BY <1>1 DEF DigestIsRight, FullScanReads, ScanIsCurrent
<1> QED
  BY <1>4, <1>5, <1>6, <1>7 DEF CacheInv

LEMMA CacheInvStep == CacheInv /\ [SchedulerNext]_schedulerVars => CacheInv'
  BY PluginStep, EditStep, LoadStep, ListStep, ReadStep, DigestStep, ApplyStep, EndStep
  DEF SchedulerNext, CycleStep

-----------------------------------------------------------------------------
(* Theorems. *)

LEMMA CacheInvHolds == SchedulerSpec => []CacheInv
<1>1. SchedulerInit => CacheInv
  BY CacheInvStart
<1>2. CacheInv /\ [SchedulerNext]_schedulerVars => CacheInv'
  BY CacheInvStep
<1> QED
  BY <1>1, <1>2, PTL DEF SchedulerSpec

(* Flags, the phase of the cycle and the versions of the file are well     *)
(* typed, and a cycle is requested for later only while one is running.    *)
THEOREM SchedulerTypeCorrect == SchedulerSpec => []SchedulerTypeOK
<1>1. CacheInv => SchedulerTypeOK
  BY DEF CacheInv
<1> QED
  BY <1>1, CacheInvHolds, PTL

(* What is trusted of the hash cache is right, or older than a quiet edit, *)
(* in any order of edits, cycles, failures and restarts.                   *)
THEOREM DigestsAreRight == SchedulerSpec => []CacheTruthful
<1>1. CacheInv => CacheTruthful
  BY DEF CacheInv
<1> QED
  BY <1>1, CacheInvHolds, PTL

(* What a cycle goes on with is the file as it was when the cycle began,   *)
(* or newer: an automatic cycle may have missed a quiet edit, a manual one *)
(* never has.                                                              *)
THEOREM ScansAreCurrent == SchedulerSpec => []ScanIsCurrent
<1>1. CacheInv => ScanIsCurrent
  BY DEF CacheInv
<1> QED
  BY <1>1, CacheInvHolds, PTL

(* A save that switches off and is not the first stays in the queue.       *)
LEMMA OffStays ==
  ASSUME saves \in Seq([enabled : BOOLEAN, previous : BOOLEAN]), saves # <<>>,
         saves' = Tail(saves), SwitchingOff, Head(saves).enabled
  PROVE  SwitchingOff'
<1>1. PICK i \in 1 .. Len(saves) : ~saves[i].enabled
  BY DEF SwitchingOff
<1>2. i # 1 /\ i - 1 \in 1 .. Len(Tail(saves)) /\ Tail(saves)[i - 1] = saves[i]
  BY <1>1
<1>3. DOMAIN Tail(saves) = 1 .. Len(Tail(saves))
  OBVIOUS
<1> QED
  BY <1>1, <1>2, <1>3 DEF SwitchingOff

(* A timer that is set is cleared or used up before it is out of date.     *)
LEMMA TimerStep ==
  ASSUME SchedulerTypeOK, TimerIsAllowed, [SchedulerNext]_schedulerVars
  PROVE  TimerIsAllowed'
<1>1. CASE SaveSettings
  <2>1. CASE NotSaved
    BY <2>1 DEF NotSaved, TimerIsAllowed
  <2>2. CASE Saved /\ Head(saves).enabled
    <3>1. automatic' = automatic /\ (timer' => timer \/ automatic)
      BY <2>2 DEF Saved, Chosen, scheduleAutoSync
    <3>2. CASE automatic
      BY <3>1, <3>2 DEF TimerIsAllowed
    <3>3. CASE ~automatic /\ unsaved
      BY <2>2, <3>3 DEF Saved, TimerIsAllowed
    <3>4. CASE SwitchingOff
      BY <1>1, <2>2, <3>4, OffStays DEF SaveSettings, TimerIsAllowed, SchedulerTypeOK
    <3> QED
      BY <3>1, <3>2, <3>3, <3>4 DEF TimerIsAllowed
  <2>3. CASE Saved /\ ~Head(saves).enabled
    BY <2>3 DEF Saved, Chosen, TimerIsAllowed
  <2> QED
    BY <1>1, <2>1, <2>2, <2>3 DEF SaveSettings
<1>2. CASE Choose
  <2>1. PICK enabled \in BOOLEAN :
          /\ automatic' = enabled
          /\ saves' = Append(saves, [enabled |-> enabled, previous |-> automatic])
    BY <1>2 DEF Choose
  <2>2. SwitchingOff \/ ~enabled => SwitchingOff'
    <3>1. saves \in Seq([enabled : BOOLEAN, previous : BOOLEAN])
      BY DEF SchedulerTypeOK
    <3>2. /\ DOMAIN saves \subseteq DOMAIN saves'
          /\ \A i \in DOMAIN saves : saves'[i] = saves[i]
      BY <2>1, <3>1
    <3>3. Len(saves) + 1 \in DOMAIN saves' /\ saves'[Len(saves) + 1].enabled = enabled
      BY <2>1, <3>1
    <3> QED
      BY <3>2, <3>3 DEF SwitchingOff
  <2>3. timer' = timer /\ unsaved' = unsaved
    BY <1>2 DEF Choose
  <2> QED
    BY <2>1, <2>2, <2>3 DEF TimerIsAllowed
<1>3. CASE Restart
  BY <1>3 DEF Restart, TimerIsAllowed
<1>4. CASE Fire
  BY <1>4 DEF Fire, TimerIsAllowed
<1>5. CASE Show
  BY <1>5 DEF Show, TimerIsAllowed, SwitchingOff, setting
<1>6. CASE UNCHANGED setting /\ scheduleAutoSync
  BY <1>6 DEF scheduleAutoSync, TimerIsAllowed, SwitchingOff, setting
<1>7. CASE UNCHANGED <<setting, timer>>
  BY <1>7 DEF TimerIsAllowed, SwitchingOff, setting
<1>8. CASE Poll \/ Edit \/ ApplyRemote
  BY <1>6, <1>8 DEF Poll, Edit, ApplyRemote
<1>9. CASE Finish
  BY <1>6, <1>7, <1>9 DEF Finish
<1>10. CASE syncNow \/ Hide \/ Push \/ Fail \/ UNCHANGED schedulerVars
  BY <1>7, <1>10 DEF syncNow, Hide, Push, Fail, schedulerVars, plugin
<1>11. CASE Load \/ ListFile \/ ReadFile \/ Digest
  BY <1>7, <1>11 DEF Load, ListFile, ReadFile, Digest, Goto
<1> QED
  BY <1>1, <1>2, <1>3, <1>4, <1>5, <1>8, <1>9, <1>10, <1>11 DEF SchedulerNext, CycleStep

(* Only a timer starts a cycle that the user has not asked for.            *)
LEMMA OnlyTimerStarts ==
  ASSUME [SchedulerNext]_schedulerVars, phase = "idle", phase' = "load", ~manual'
  PROVE  timer
<1>1. ~syncNow
  BY DEF syncNow, runSync
<1>2. ~Restart /\ ~CycleStep
  BY DEF Restart, CycleStep, Load, ListFile, ReadFile, Digest, ApplyRemote, Push, Fail, Finish
<1>3. UNCHANGED phase => FALSE
  OBVIOUS
<1> QED
  BY <1>1, <1>2, <1>3
  DEF SchedulerNext, Fire, Poll, Edit, Hide, Show, Choose, SaveSettings, schedulerVars,
      plugin, cycle

(* No order of timers, events and changes of the setting starts an         *)
(* automatic cycle while automatic sync is off and saved as such.          *)
THEOREM AutomaticCyclesAreAllowed == SchedulerSpec => AutomaticIsAllowed
<1>1. SchedulerInit => CacheInv /\ TimerIsAllowed
  BY CacheInvStart
<1>2. CacheInv /\ TimerIsAllowed /\ [SchedulerNext]_schedulerVars =>
        CacheInv' /\ TimerIsAllowed'
  BY CacheInvStep, TimerStep DEF CacheInv
<1>3. TimerIsAllowed /\ [SchedulerNext]_schedulerVars =>
        [phase = "idle" /\ phase' = "load" /\ ~manual' =>
           automatic \/ SwitchingOff \/ unsaved]_schedulerVars
  BY OnlyTimerStarts DEF TimerIsAllowed
<1> QED
  BY <1>1, <1>2, <1>3, PTL DEF SchedulerSpec, AutomaticIsAllowed
=============================================================================
