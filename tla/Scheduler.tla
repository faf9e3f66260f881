------------------------------ MODULE Scheduler ------------------------------
(***************************************************************************)
(* What makes the plugin start a sync cycle, main.ts: the timer of         *)
(* automatic sync, the events that set it, the manual command, and the     *)
(* setting.  A cycle is the scan of HashCache and what becomes of it; what *)
(* it exchanges with the server is in SyncEngine.                          *)
(*                                                                         *)
(* Obsidian is taken to save the setting in the order it is asked to.      *)
(***************************************************************************)
EXTENDS HashCache, Sequences

CONSTANTS
  MaxFailures,   \* bound: cycles that fail
  MaxRestarts,   \* bound: restarts of the app
  MaxSaves       \* bound: saves of the setting in flight

ASSUME SchedulerAssumption == MaxSaves \in Nat

VARIABLES
  automatic,   \* settings.automaticSync
  saves,       \* the calls of setAutomaticSync that wait for saveSettings
  stored,      \* automaticSync in the plugin's data.json
  unsaved,     \* ghost: since a save failed, no other has made it good
  hidden,      \* document.hidden
  timer,       \* autoSyncTimer is set
  phase,       \* where the cycle is, "idle" if syncRunning is false
  manual,      \* the cycle was started by the user
  failed,      \* the cycle ends with an error
  requested,   \* syncRequested
  synced,      \* ghost: the digest that the last successful cycle had
  failures, restarts

setting == <<automatic, saves, stored, unsaved>>
cycle == <<phase, manual, failed>>
bounds == <<failures, restarts>>
plugin == <<setting, hidden, timer, cycle, requested, synced, bounds>>
schedulerVars == <<cacheVars, plugin>>

Phases == {"idle", "load", "list", "read", "digest", "apply", "save"}

SchedulerInit ==
  /\ CacheInit
  /\ automatic \in BOOLEAN /\ stored = automatic
  /\ saves = <<>> /\ unsaved = FALSE
  /\ hidden = FALSE /\ timer = FALSE
  /\ phase = "idle" /\ manual = FALSE /\ failed = FALSE /\ requested = FALSE
  /\ synced = 0
  /\ failures = 0 /\ restarts = 0

-----------------------------------------------------------------------------
(* The timer. *)

(* A timer that is set already starts anew. *)
scheduleAutoSync == timer' = (timer \/ (automatic /\ ~hidden))

(* A request that comes during a cycle is remembered, not run. *)
runSync(byUser) ==
  \/ /\ phase = "idle"
     /\ phase' = "load" /\ manual' = byUser /\ failed' = FALSE
     /\ UNCHANGED requested
  \/ /\ phase # "idle"
     /\ requested' = TRUE
     /\ UNCHANGED cycle

Fire ==
  /\ timer /\ timer' = FALSE
  /\ runSync(FALSE)
  /\ UNCHANGED <<cacheVars, setting, hidden, synced, bounds>>

syncNow ==
  /\ runSync(TRUE)
  /\ UNCHANGED <<cacheVars, setting, hidden, timer, synced, bounds>>

(* The poll every 30 seconds, and the return of the network. *)
Poll ==
  /\ scheduleAutoSync
  /\ UNCHANGED <<cacheVars, setting, hidden, cycle, requested, synced, bounds>>

(* The vault tells of every edit. *)
Edit ==
  /\ Write \/ WriteQuietly
  /\ scheduleAutoSync
  /\ UNCHANGED <<cached, saved, scan, setting, hidden, cycle, requested, synced, bounds>>

Hide ==
  /\ ~hidden /\ hidden' = TRUE
  /\ UNCHANGED <<cacheVars, setting, timer, cycle, requested, synced, bounds>>

Show ==
  /\ hidden /\ hidden' = FALSE
  /\ timer' = (timer \/ automatic)
  /\ UNCHANGED <<cacheVars, setting, cycle, requested, synced, bounds>>

-----------------------------------------------------------------------------
(* setAutomaticSync. *)

(* The toggle shows the setting, and is set back with it when a save fails *)
(* (the settings tab), so that a choice is of the other value.  It counts  *)
(* from that moment, also while an earlier choice is being saved.          *)
Choose ==
  /\ Len(saves) < MaxSaves
  /\ automatic' = ~automatic
  /\ saves' = Append(saves, [enabled |-> ~automatic, previous |-> automatic])
  /\ UNCHANGED <<cacheVars, stored, unsaved, hidden, timer, cycle, requested, synced, bounds>>

(* Seeded fault: the timer stays. *)
TimerStaysMutant(enabled) == scheduleAutoSync

(* Saved: a cycle is scheduled, or the timer is cleared. *)
Chosen(enabled) == IF enabled THEN scheduleAutoSync ELSE timer' = FALSE

Saved ==
  /\ stored' = Head(saves).enabled
  /\ unsaved' = (unsaved /\ automatic # Head(saves).enabled)
  /\ Chosen(Head(saves).enabled)
  /\ UNCHANGED automatic

(* The setting is again what it was when this call began, whatever was     *)
(* chosen since.                                                           *)
NotSaved ==
  /\ automatic' = Head(saves).previous
  /\ unsaved' = TRUE
  /\ UNCHANGED <<stored, timer>>

SaveSettings ==
  /\ saves # <<>> /\ saves' = Tail(saves)
  /\ Saved \/ NotSaved
  /\ UNCHANGED <<cacheVars, hidden, cycle, requested, synced, bounds>>

-----------------------------------------------------------------------------
(* A cycle. *)

Goto(next) ==
  /\ phase' = next
  /\ UNCHANGED <<setting, hidden, timer, manual, failed, requested, synced, bounds>>

Load == phase = "load" /\ loadCache(manual) /\ Goto("list")
ListFile == phase = "list" /\ List /\ Goto(IF Trusted THEN "apply" ELSE "read")
ReadFile == phase = "read" /\ Read /\ Goto("digest")
Digest == phase = "digest" /\ Remember /\ Goto("apply")

(* The file is written; the cycle scans again, and the vault tells of it. *)
ApplyRemote ==
  /\ phase = "apply" /\ phase' = "list"
  /\ ApplyAndForget
  /\ scheduleAutoSync
  /\ UNCHANGED <<setting, hidden, manual, failed, requested, synced, bounds>>

(* What differs from the base is read again before it is sent; if it is    *)
(* not what the scan has found, the cycle ends as busy.                    *)
Push ==
  /\ phase = "apply" /\ phase' = "save"
  /\ \/ local \in {synced, content} /\ synced' = local /\ UNCHANGED failed
     \/ local \notin {synced, content} /\ failed' = TRUE /\ UNCHANGED synced
  /\ UNCHANGED <<cacheVars, setting, hidden, timer, manual, requested, bounds>>

Fail ==
  /\ phase \notin {"idle", "save"} /\ phase' = "save"
  /\ failures < MaxFailures /\ failures' = failures + 1
  /\ failed' = TRUE
  /\ UNCHANGED <<cacheVars, setting, hidden, timer, manual, requested, synced, restarts>>

(* Seeded fault: only an error is followed by another cycle. *)
AnotherCycleMutant == failed

(* What has happened in the meantime or an error asks for another cycle. *)
AnotherCycle == requested \/ failed

(* Seeded fault: the request is kept. *)
ClearRequestMutant == UNCHANGED requested
ClearRequest == requested' = FALSE

Finish ==
  /\ phase = "save" /\ phase' = "idle"
  /\ saveCache
  /\ ClearRequest /\ manual' = FALSE /\ failed' = FALSE
  /\ IF AnotherCycle THEN scheduleAutoSync ELSE UNCHANGED timer
  /\ UNCHANGED <<setting, hidden, synced, bounds>>

(* The app is started again, with the setting that was saved, or was being *)
(* saved: onload, and the first schedule when the layout is ready.         *)
Restart ==
  /\ restarts < MaxRestarts /\ restarts' = restarts + 1
  /\ Unload
  /\ automatic' \in {stored} \cup {saves[i].enabled : i \in DOMAIN saves}
  /\ stored' = automatic' /\ saves' = <<>> /\ unsaved' = FALSE
  /\ timer' = (automatic' /\ ~hidden)
  /\ phase' = "idle" /\ manual' = FALSE /\ failed' = FALSE /\ requested' = FALSE
  /\ UNCHANGED <<hidden, synced, failures>>

CycleStep ==
  Load \/ ListFile \/ ReadFile \/ Digest \/ ApplyRemote \/ Push \/ Fail \/ Finish

SchedulerNext ==
  \/ Fire \/ syncNow \/ Poll \/ Edit \/ Hide \/ Show
  \/ Choose \/ SaveSettings
  \/ CycleStep
  \/ Restart

(* A timer fires, a cycle goes on, a setting is saved or is not.  Nothing  *)
(* is assumed of the poll.                                                 *)
SchedulerSpec ==
  /\ SchedulerInit
  /\ [][SchedulerNext]_schedulerVars
  /\ WF_schedulerVars(Fire)
  /\ WF_schedulerVars(CycleStep)
  /\ WF_schedulerVars(SaveSettings)

-----------------------------------------------------------------------------
(* Properties. *)

SchedulerTypeOK ==
  /\ automatic \in BOOLEAN /\ stored \in BOOLEAN /\ unsaved \in BOOLEAN
  /\ saves \in Seq([enabled : BOOLEAN, previous : BOOLEAN]) /\ Len(saves) <= MaxSaves
  /\ hidden \in BOOLEAN /\ timer \in BOOLEAN
  /\ manual \in BOOLEAN /\ failed \in BOOLEAN /\ requested \in BOOLEAN
  /\ phase \in Phases
  /\ {content, stamp, listed, local, atStart, synced} \subseteq 0 .. MaxEdits
  /\ requested => phase # "idle"

(* What a cycle goes on with is what the file was when the cycle began, or *)
(* newer; only an automatic one may miss a quiet edit ("Sync now" reads    *)
(* everything, docs/PACKET_V0.md).                                         *)
ScanIsCurrent ==
  phase = "apply" => local >= atStart \/ (~manual /\ local < lastQuiet)

SwitchingOff == \E i \in DOMAIN saves : ~saves[i].enabled

(* No automatic cycle starts while automatic sync is off - once that is    *)
(* saved - although timers were set, cycles were running and other choices *)
(* were being saved when it was switched off.                              *)
AutomaticIsAllowed ==
  [][phase = "idle" /\ phase' = "load" /\ ~manual' =>
       automatic \/ SwitchingOff \/ unsaved]_schedulerVars

(* With automatic sync on and the app visible, every edit reaches a cycle, *)
(* also one made during a cycle, before a failure or while the app was     *)
(* hidden, and without the poll.                                           *)
EveryEditIsSynced ==
  <>[](automatic /\ ~hidden /\ ~unsaved) => <>[](synced = content \/ synced < lastQuiet)
=============================================================================
