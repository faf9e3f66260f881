------------------------------ MODULE Provision ------------------------------
(***************************************************************************)
(* The server's commands - bootstrap, provision, backup, serve - on one    *)
(* database file, main.rs with bootstrap.rs and the opening and copying of *)
(* store.rs.  Several commands may run at the same time.  Each writes the  *)
(* file it is asked for as a temporary one, syncs it, gives it its name if *)
(* nothing has that name, and syncs the directory.  Any step may fail, a   *)
(* command may be killed, and the machine may lose its power.              *)
(*                                                                         *)
(* SQLite is taken at its word: a committed transaction is durable, with   *)
(* the file's name.  Every other name is in a directory of its own, so     *)
(* that no command syncs a name for another one.                           *)
(***************************************************************************)
EXTENDS Store

CONSTANTS
  Jobs,        \* the commands given, each once
  Paths,       \* where credentials and copies are put
  Owner, Vault,   \* the user and the vault that bootstrap creates
  FirstFiles,  \* what the database path may hold at first
  MaxFaults,   \* bound: failures, kills and losses of power
  NoFile, NoDevice

(* What the arguments of a command line say.  The device is the random ID  *)
(* that the command will draw.                                             *)
Commands ==
       [kind : {"bootstrap"}, target : Paths, device : Devices]
  \cup [kind : {"provision"}, from : Paths, target : Paths, device : Devices]
  \cup [kind : {"backup"}, target : Paths]
  \cup [kind : {"serve"}]

Issuers == {j \in Jobs : j.kind \in {"bootstrap", "provision"}}

(* "foreign": tables without a version, or a version that is not known;    *)
(* "legacy" and "populated": version 1 without and with vaults or commits; *)
(* "current": version 2.                                                   *)
FileKinds == {"absent", "empty", "legacy", "populated", "foreign", "current"}

(* A file that a command has put at a path. *)
Files == [by : Jobs, state : {"buffered", "synced", "torn"}]

ASSUME ProvisionAssumption ==
  /\ Jobs \subseteq Commands
  /\ \A j, k \in Issuers : j.device = k.device => j = k
  /\ Owner \in Users /\ Vault \in Vaults
  /\ FirstFiles \subseteq FileKinds
  /\ NoFile \notin Files
  /\ MaxFaults \in Nat

VARIABLES
  file,     \* what the database path holds
  at,       \* at[j]: where command j is
  seen,     \* seen[j]: the file as read before the transaction, until its end
  token,    \* token[j]: the device whose credentials command j acts with
  entry,    \* entry[p]: the file at p, NoFile if there is none
  durable,  \* the paths that keep what they hold when power is lost
  copy,     \* copy[j]: the database that backup j has copied
  before,   \* ghost: before[j]: what had been reported when backup j began
  faults

command == <<at, seen, token>>
names == <<entry, durable>>
ghosts == <<copy, before>>
provisionVars == <<vars, file, command, names, ghosts, faults>>

Ended == {"done", "failed", "refused", "unrevoked", "dead"}
Running ==
  {"create", "open", "migrate", "act", "write", "sync", "sync db", "revoke", "serving"}

Copies ==
  [owner : [Devices -> Users \cup {NoUser}], current : Revisions \cup {NoVault},
   commits : SUBSET Rows]
NoCopy == [owner |-> [d \in Devices |-> NoUser], current |-> 0, commits |-> {}]

ProvisionInit ==
  /\ Init
  /\ file \in FirstFiles
  /\ at = [j \in Jobs |-> "idle"]
  /\ seen = [j \in Jobs |-> "absent"]
  /\ token = [j \in Jobs |-> NoDevice]
  /\ entry = [p \in Paths |-> NoFile]
  /\ durable = Paths
  /\ copy = [j \in Jobs |-> NoCopy]
  /\ before = [j \in Jobs |-> [jobs |-> {}, commits |-> {}]]
  /\ faults = 0

Goto(j, phase) == at' = [at EXCEPT ![j] = phase]

(* A provision that fails after it has issued a device revokes it again. *)
AfterError(j) ==
  IF j.kind = "provision" /\ at[j] \in {"write", "sync"} THEN "revoke" ELSE "failed"

-----------------------------------------------------------------------------
(* Start. *)

Free(p) == entry[p] = NoFile

StartBootstrap(j) ==
  /\ j.kind = "bootstrap" /\ at[j] = "idle"
  /\ Goto(j, IF Free(j.target) THEN "create" ELSE "failed")
  /\ UNCHANGED <<vars, file, seen, token, names, ghosts, faults>>

(* Seeded fault: a database that is there is made empty. *)
MayCreateMutant == TRUE
MayCreate == file = "absent"

(* The database file is a new one. *)
CreateDatabase(j) ==
  /\ at[j] = "create"
  /\ \/ MayCreate /\ file' = "empty" /\ Goto(j, "open")
     \/ ~MayCreate /\ UNCHANGED file /\ Goto(j, "failed")
  /\ UNCHANGED <<vars, seen, token, names, ghosts, faults>>

(* read_credentials: a whole file, and not one of another kind. *)
HasCredentials(p) ==
  ~Free(p) /\ entry[p].state # "torn" /\ entry[p].by \in Issuers

(* The credentials to act with are read before anything else is done. *)
StartProvision(j) ==
  /\ j.kind = "provision" /\ at[j] = "idle"
  /\ \/ /\ Free(j.target)
        /\ HasCredentials(j.from)
        /\ token' = [token EXCEPT ![j] = entry[j.from].by.device]
        /\ Goto(j, "open")
     \/ /\ ~Free(j.target) \/ ~HasCredentials(j.from)
        /\ Goto(j, "failed")
        /\ UNCHANGED token
  /\ UNCHANGED <<vars, file, seen, names, ghosts, faults>>

Reported == {j \in Jobs : at[j] = "done"}

StartBackup(j) ==
  /\ j.kind = "backup" /\ at[j] = "idle"
  /\ Goto(j, "open")
  /\ before' = [before EXCEPT ![j] = [jobs |-> Reported, commits |-> commits]]
  /\ UNCHANGED <<vars, file, seen, token, names, copy, faults>>

StartServe(j) ==
  /\ j.kind = "serve" /\ at[j] = "idle"
  /\ Goto(j, "open")
  /\ UNCHANGED <<vars, file, seen, token, names, ghosts, faults>>

-----------------------------------------------------------------------------
(* The database is opened, and brought to version 2. *)

Opened(j) == IF j.kind = "serve" THEN "serving" ELSE "act"

(* open_existing creates no file; the version is read for the first time. *)
Open(j) ==
  /\ at[j] = "open"
  /\ \/ file = "absent" /\ UNCHANGED seen /\ Goto(j, "failed")
     \/ file = "current" /\ UNCHANGED seen /\ Goto(j, Opened(j))
     \/ /\ file \notin {"absent", "current"}
        /\ seen' = [seen EXCEPT ![j] = file] /\ Goto(j, "migrate")
  /\ UNCHANGED <<vars, file, token, names, ghosts, faults>>

(* Seeded fault: the version is not read again in the transaction. *)
VersionMutant(j) == seen[j]
Version(j) == file

(* The rest of initialize_schema, one transaction.  A migration of a file  *)
(* that is not of its version finds the tables there, and fails.  Version  *)
(* 1 with records has no owner to give them to, and is not migrated.       *)
Migrates(j) == Version(j) \in {"empty", "legacy"} /\ file = Version(j)

Migrate(j) ==
  /\ at[j] = "migrate"
  /\ \/ /\ Migrates(j)
        /\ file' = "current" /\ Goto(j, Opened(j))
     \/ /\ Version(j) = "current"
        /\ UNCHANGED file /\ Goto(j, Opened(j))
     \/ /\ Version(j) # "current" /\ ~Migrates(j)
        /\ UNCHANGED file /\ Goto(j, "refused")
  /\ seen' = [seen EXCEPT ![j] = "absent"]
  /\ UNCHANGED <<vars, token, names, ghosts, faults>>

-----------------------------------------------------------------------------
(* What a command does to the database. *)

Bootstrap(j) ==
  /\ j.kind = "bootstrap" /\ at[j] = "act"
  /\ bootstrap_owner(Owner, j.device, Vault)
  /\ Goto(j, "write")
  /\ UNCHANGED <<file, seen, token, names, ghosts, faults>>

Issue(j) ==
  /\ j.kind = "provision" /\ at[j] = "act"
  /\ \/ /\ issue_device_for_owner(token[j], Owner, Vault, j.device)
        /\ Goto(j, "write")
     \/ /\ ~Authorized(token[j], Vault, "owner")
        /\ Goto(j, "failed")
        /\ UNCHANGED vars
  /\ UNCHANGED <<file, seen, token, names, ghosts, faults>>

(* Seeded fault: the main file is copied, without the write-ahead log. *)
SnapshotMutant == NoCopy

(* VACUUM INTO: one read transaction. *)
Snapshot == [owner |-> owner, current |-> current[Vault], commits |-> commits]

Copy(j) ==
  /\ j.kind = "backup" /\ at[j] = "act"
  /\ \/ Free(j.target) /\ copy' = [copy EXCEPT ![j] = Snapshot] /\ Goto(j, "write")
     \/ ~Free(j.target) /\ UNCHANGED copy /\ Goto(j, "failed")
  /\ UNCHANGED <<vars, file, seen, token, names, before, faults>>

(* A running server takes uploads. *)
Serve(j) ==
  /\ at[j] = "serving"
  /\ CommitStep
  /\ UNCHANGED <<file, command, names, ghosts, faults>>

-----------------------------------------------------------------------------
(* The file that a command was asked for. *)

(* Seeded fault: the temporary file is not synced. *)
WrittenMutant(j) == [by |-> j, state |-> "buffered"]
Written(j) == [by |-> j, state |-> "synced"]

(* Write, sync and name: persist_noclobber and hard_link refuse a name     *)
(* that has come to be taken since the command looked.                     *)
Persist(j) ==
  /\ at[j] = "write"
  /\ \/ /\ Free(j.target)
        /\ entry' = [entry EXCEPT ![j.target] = Written(j)]
        /\ durable' = durable \ {j.target}
        /\ Goto(j, "sync")
     \/ /\ ~Free(j.target)
        /\ Goto(j, AfterError(j))
        /\ UNCHANGED names
  /\ UNCHANGED <<vars, file, seen, token, ghosts, faults>>

(* Seeded fault: the directory is not synced. *)
SyncDirectoryMutant(p) == durable
SyncDirectory(p) == durable \cup {p}

(* The directory is synced.  For main to report success, bootstrap has to  *)
(* sync the database's, too.                                               *)
Finish(j) ==
  /\ at[j] = "sync"
  /\ durable' = SyncDirectory(j.target)
  /\ Goto(j, IF j.kind = "bootstrap" THEN "sync db" ELSE "done")
  /\ UNCHANGED <<vars, file, seen, token, entry, ghosts, faults>>

(* The name of the database is durable already, by its first transaction.  *)
FinishBootstrap(j) ==
  /\ at[j] = "sync db"
  /\ Goto(j, "done")
  /\ UNCHANGED <<vars, file, seen, token, names, ghosts, faults>>

(* Seeded fault: the device stays. *)
TakeBackMutant(j) == UNCHANGED vars
TakeBack(j) == revoke_device(token[j], j.device)

(* An error of the revocation is ignored. *)
Revoke(j) ==
  /\ at[j] = "revoke"
  /\ \/ TakeBack(j)
     \/ ~IsActive(token[j]) /\ UNCHANGED vars
  /\ Goto(j, "failed")
  /\ UNCHANGED <<file, seen, token, names, ghosts, faults>>

-----------------------------------------------------------------------------
(* Failures. *)

Fault == faults < MaxFaults /\ faults' = faults + 1

(* A step returns an error: a full disk, a locked database. *)
Fail(j) ==
  /\ Fault
  /\ at[j] \in Running \ {"serving"}
  /\ Goto(j, IF at[j] = "revoke" THEN "unrevoked" ELSE AfterError(j))
  /\ UNCHANGED <<vars, file, seen, token, names, ghosts>>

Kill(j) ==
  /\ Fault
  /\ at[j] \in Running
  /\ Goto(j, "dead")
  /\ UNCHANGED <<vars, file, seen, token, names, ghosts>>

(* Every name that is not synced is kept or lost, and what a file holds is *)
(* torn if it was not synced.                                              *)
LosePower ==
  /\ Fault
  /\ at' = [j \in Jobs |-> IF at[j] \in Running THEN "dead" ELSE at[j]]
  /\ \E lost \in SUBSET (Paths \ durable) :
       entry' = [p \in Paths |->
                   IF Free(p) \/ p \in lost THEN NoFile
                   ELSE IF entry[p].state = "synced" THEN entry[p]
                   ELSE [entry[p] EXCEPT !.state = "torn"]]
  /\ durable' = Paths
  /\ file' \in IF file = "empty" THEN {"empty", "absent"} ELSE {file}
  /\ UNCHANGED <<vars, seen, token, ghosts>>

ProvisionNext ==
  \/ \E j \in Jobs :
       \/ StartBootstrap(j) \/ CreateDatabase(j) \/ StartProvision(j)
       \/ StartBackup(j) \/ StartServe(j)
       \/ Open(j) \/ Migrate(j)
       \/ Bootstrap(j) \/ Issue(j) \/ Copy(j) \/ Serve(j)
       \/ Persist(j) \/ Finish(j) \/ FinishBootstrap(j) \/ Revoke(j)
       \/ Fail(j) \/ Kill(j)
  \/ LosePower

ProvisionSpec == ProvisionInit /\ [][ProvisionNext]_provisionVars

-----------------------------------------------------------------------------
(* Properties. *)

ProvisionTypeOK ==
  /\ TypeOK
  /\ file \in FileKinds
  /\ at \in [Jobs -> {"idle"} \cup Running \cup Ended]
  /\ seen \in [Jobs -> FileKinds]
  /\ token \in [Jobs -> Devices \cup {NoDevice}]
  /\ entry \in [Paths -> Files \cup {NoFile}]
  /\ \A p \in Paths : ~Free(p) => entry[p].by.target = p
  /\ durable \subseteq Paths
  /\ copy \in [Jobs -> Copies]
  /\ before \in [Jobs -> [jobs : SUBSET Jobs, commits : SUBSET Rows]]
  /\ file # "current" => users = {}

(* No file is ever seen half written at the path it was asked for, not     *)
(* even one of a command that never ended, after a loss of power.          *)
WholeFiles == \A p \in Paths : ~Free(p) => entry[p].state # "torn"

(* Credentials that were reported written stay at their path, and open the *)
(* vault, whatever other commands and failures come during and after it    *)
(* (docs/BOOTSTRAP.md: the command overwrites no existing file).           *)
ReportedCredentialsWork ==
  \A j \in Issuers : at[j] = "done" =>
    /\ ~Free(j.target) /\ entry[j.target].by = j
    /\ file = "current" /\ Authorized(j.device, Vault, "owner")

(* A backup that was reported has every device and every commit that was   *)
(* reported before it began, and a history without gaps, while the server  *)
(* went on committing.                                                     *)
ReportedBackupIsComplete ==
  \A j \in Jobs : j.kind = "backup" /\ at[j] = "done" =>
    /\ ~Free(j.target) /\ entry[j.target].by = j
    /\ before[j].commits \subseteq copy[j].commits
    /\ \A k \in before[j].jobs \cap Issuers : copy[j].owner[k.device] = Owner
    /\ \A r \in 1 .. copy[j].current :
         \E row \in copy[j].commits : row.applied_revision = r

(* A provision that failed leaves no device with access, even if its file  *)
(* was already there - except when the device it acted with has lost its   *)
(* own access in the meantime, or the revocation itself failed.            *)
FailedLeavesNoDevice ==
  \A j \in Issuers :
    j.kind = "provision" /\ at[j] = "failed" /\ IsActive(j.device) =>
      token[j] \in revoked

(* Commands that open a database at the same time agree on it: it is       *)
(* refused only if it is not the server's, or is of version 1 and has      *)
(* records, and then no command goes on with it.                           *)
OnlyUnusableIsRefused ==
  \A j \in Jobs : at[j] = "refused" =>
    /\ file \in {"foreign", "populated"}
    /\ \A k \in Jobs : at[k] \notin {"act", "write", "sync", "sync db", "serving", "done"}
=============================================================================
