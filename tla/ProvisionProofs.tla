-------------------------- MODULE ProvisionProofs --------------------------
(***************************************************************************)
(* Proofs about Provision, for any commands at any paths, and for any      *)
(* number of failures, kills and losses of power.                          *)
(***************************************************************************)
EXTENDS Provision, StoreProofs

-----------------------------------------------------------------------------
(* The inductive invariant. *)

(* What a command has of its arguments, where it is. *)
StageOK ==
  \A j \in Jobs :
    /\ at[j] \in {"act", "write", "sync", "sync db", "revoke", "done"} => j.kind # "serve"
    /\ at[j] = "revoke" => j.kind = "provision"
    /\ at[j] = "sync db" => j.kind = "bootstrap"
    /\ j.kind = "provision" /\ at[j] \in Running => token[j] \in Devices

(* What a command goes on with is the server's database, for good. *)
FileOK ==
  \A j \in Jobs :
    /\ at[j] \in {"act", "serving", "write", "sync", "sync db", "revoke", "done"} => file = "current"
    /\ at[j] = "migrate" => file # "absent"
    /\ at[j] = "refused" => file \in {"foreign", "populated"}

(* A path that a command has taken is its own, and is durable when the     *)
(* command reports success.                                                *)
NamesOK ==
  /\ \A p \in Paths : ~Free(p) => entry[p].state = "synced"
  /\ \A j \in Jobs :
       /\ at[j] \in {"sync", "sync db", "done"} => ~Free(j.target) /\ entry[j.target].by = j
       /\ at[j] \in {"sync db", "done"} => j.target \in durable

(* A device is without a row until its command has acted, then it is the   *)
(* owner's, and only its own command takes it back.                        *)
DevicesOK ==
  \A j \in Issuers :
    /\ at[j] \in {"idle", "create", "open", "migrate", "act"} => owner[j.device] = NoUser
    /\ at[j] \in {"write", "sync", "sync db", "revoke", "done"} =>
         owner[j.device] = Owner /\ role[Vault][Owner] = "owner"
    /\ j.device \in revoked => at[j] = "failed"
    /\ j.kind = "provision" /\ at[j] \in {"write", "sync", "sync db", "revoke"} =>
         owner[token[j]] \in Users
    /\ j.kind = "provision" /\ at[j] = "failed" =>
         owner[j.device] = NoUser \/ j.device \in revoked \/ token[j] \in revoked

(* What was there when a backup began is there, and in its copy.           *)
CopyIsComplete(j) ==
  /\ before[j].commits \subseteq copy[j].commits
  /\ \A k \in before[j].jobs \cap Issuers : copy[j].owner[k.device] = Owner
  /\ \A r \in 1 .. copy[j].current : \E row \in copy[j].commits : row.applied_revision = r

BackupOK ==
  \A j \in Jobs :
    /\ before[j].commits \subseteq commits /\ before[j].jobs \subseteq Reported
    /\ j.kind = "backup" /\ at[j] \in {"write", "sync", "sync db", "done"} => CopyIsComplete(j)

ProvisionInv ==
  /\ ProvisionTypeOK /\ History
  /\ StageOK /\ FileOK /\ NamesOK /\ DevicesOK /\ BackupOK

-----------------------------------------------------------------------------
(* Commands and the steps they take. *)

LEMMA CommandFields ==
  ASSUME NEW j \in Jobs
  PROVE  /\ j.kind \in {"bootstrap", "provision", "backup", "serve"}
         /\ j.kind # "serve" => j.target \in Paths
         /\ j \in Issuers <=> j.kind \in {"bootstrap", "provision"}
         /\ j \in Issuers => j.device \in Devices
         /\ j.kind = "provision" => j.from \in Paths
  BY ProvisionAssumption DEF Commands, Issuers

LEMMA OneCommandPerDevice ==
  ASSUME NEW j \in Issuers, NEW k \in Issuers, j.device = k.device
  PROVE  j = k
  BY ProvisionAssumption

(* What the commands do to the database are transactions of the store.     *)
LEMMA ProvisionIsStore ==
  ASSUME ProvisionTypeOK, StageOK, [ProvisionNext]_provisionVars
  PROVE  [Next]_vars
<1>1. ASSUME NEW j \in Jobs, Bootstrap(j)
      PROVE  AccessStep
  BY <1>1, CommandFields, ProvisionAssumption DEF Bootstrap, AccessStep
<1>2. ASSUME NEW j \in Jobs, Issue(j)
      PROVE  [Next]_vars
  <2>1. token[j] \in Devices /\ j.device \in Devices
    BY <1>2, CommandFields DEF Issue, StageOK, Running
  <2> QED
    BY <1>2, <2>1, ProvisionAssumption DEF Issue, Next, AccessStep
<1>3. ASSUME NEW j \in Jobs, Revoke(j)
      PROVE  [Next]_vars
  <2>1. token[j] \in Devices /\ j.device \in Devices
    BY <1>3, CommandFields DEF Revoke, StageOK, Running
  <2> QED
    BY <1>3, <2>1 DEF Revoke, TakeBack, Next, AccessStep
<1>4. ASSUME NEW j \in Jobs, Serve(j)
      PROVE  Next
  BY <1>4 DEF Serve, Next
<1>5. ASSUME NEW j \in Jobs,
             \/ StartBootstrap(j) \/ CreateDatabase(j) \/ StartProvision(j)
             \/ StartBackup(j) \/ StartServe(j) \/ Open(j) \/ Migrate(j) \/ Copy(j)
             \/ Persist(j) \/ Finish(j) \/ FinishBootstrap(j) \/ Fail(j) \/ Kill(j)
      PROVE  UNCHANGED vars
  BY <1>5
  DEF StartBootstrap, CreateDatabase, StartProvision, StartBackup, StartServe, Open,
      Migrate, Copy, Persist, Finish, FinishBootstrap, Fail, Kill
<1>6. CASE LosePower \/ UNCHANGED provisionVars
  BY <1>6 DEF LosePower, provisionVars
<1> QED
  BY <1>1, <1>2, <1>3, <1>4, <1>5, <1>6 DEF ProvisionNext, Next

LEMMA StageStep ==
  ASSUME ProvisionTypeOK, StageOK, [ProvisionNext]_provisionVars
  PROVE  StageOK'
<1> USE DEF ProvisionTypeOK, StageOK, Running, Goto
<1>1. ASSUME NEW j \in Jobs, StartBootstrap(j)
      PROVE  StageOK'
  BY <1>1, CommandFields DEF StartBootstrap
<1>2. ASSUME NEW j \in Jobs, CreateDatabase(j)
      PROVE  StageOK'
  BY <1>2, CommandFields DEF CreateDatabase
<1>3. ASSUME NEW j \in Jobs, StartProvision(j)
      PROVE  StageOK'
  <2>1. CASE HasCredentials(j.from)
    <3>1. entry[j.from].by.device \in Devices
      BY <2>1, CommandFields DEF HasCredentials, Issuers
    <3> QED
      BY <1>3, <3>1 DEF StartProvision
  <2>2. CASE ~HasCredentials(j.from)
    BY <1>3, <2>2 DEF StartProvision
  <2> QED
    BY <2>1, <2>2
<1>4. ASSUME NEW j \in Jobs, StartBackup(j)
      PROVE  StageOK'
  BY <1>4, CommandFields DEF StartBackup
<1>5. ASSUME NEW j \in Jobs, StartServe(j)
      PROVE  StageOK'
  BY <1>5, CommandFields DEF StartServe
<1>6. ASSUME NEW j \in Jobs, Open(j)
      PROVE  StageOK'
  BY <1>6, CommandFields DEF Open, Opened
<1>7. ASSUME NEW j \in Jobs, Migrate(j)
      PROVE  StageOK'
  BY <1>7, CommandFields DEF Migrate, Opened
<1>8. ASSUME NEW j \in Jobs, Bootstrap(j)
      PROVE  StageOK'
  BY <1>8, CommandFields DEF Bootstrap
<1>9. ASSUME NEW j \in Jobs, Issue(j)
      PROVE  StageOK'
  BY <1>9, CommandFields DEF Issue
<1>10. ASSUME NEW j \in Jobs, Copy(j)
      PROVE  StageOK'
  BY <1>10, CommandFields DEF Copy
<1>11. ASSUME NEW j \in Jobs, Serve(j)
      PROVE  StageOK'
  BY <1>11, CommandFields DEF Serve, command
<1>12. ASSUME NEW j \in Jobs, Persist(j)
      PROVE  StageOK'
  BY <1>12, CommandFields DEF Persist, AfterError
<1>13. ASSUME NEW j \in Jobs, Finish(j)
      PROVE  StageOK'
  BY <1>13, CommandFields DEF Finish
<1>14. ASSUME NEW j \in Jobs, FinishBootstrap(j)
      PROVE  StageOK'
  BY <1>14, CommandFields DEF FinishBootstrap
<1>15. ASSUME NEW j \in Jobs, Revoke(j)
      PROVE  StageOK'
  BY <1>15, CommandFields DEF Revoke
<1>16. ASSUME NEW j \in Jobs, Fail(j)
      PROVE  StageOK'
  BY <1>16, CommandFields DEF Fail, AfterError
<1>17. ASSUME NEW j \in Jobs, Kill(j)
      PROVE  StageOK'
  BY <1>17, CommandFields DEF Kill
<1>18. CASE LosePower
  BY <1>18 DEF LosePower
<1>19. CASE UNCHANGED provisionVars
  BY <1>19 DEF provisionVars, command
<1> QED
  BY <1>1, <1>2, <1>3, <1>4, <1>5, <1>6, <1>7, <1>8, <1>9, <1>10, <1>11, <1>12, <1>13, <1>14, <1>15, <1>16, <1>17, <1>18, <1>19 DEF ProvisionNext

(* No step makes the server's database another file, or a foreign file the *)
(* server's.                                                               *)
LEMMA FileStep ==
  ASSUME ProvisionTypeOK, FileOK, [ProvisionNext]_provisionVars
  PROVE  FileOK'
<1> USE DEF ProvisionTypeOK, FileOK, FileKinds, Running, Goto
<1>1. ASSUME NEW j \in Jobs, StartBootstrap(j)
      PROVE  FileOK'
  BY <1>1 DEF StartBootstrap
<1>2. ASSUME NEW j \in Jobs, CreateDatabase(j)
      PROVE  FileOK'
  BY <1>2 DEF CreateDatabase, MayCreate
<1>3. ASSUME NEW j \in Jobs, StartProvision(j)
      PROVE  FileOK'
  BY <1>3 DEF StartProvision
<1>4. ASSUME NEW j \in Jobs, StartBackup(j)
      PROVE  FileOK'
  BY <1>4 DEF StartBackup
<1>5. ASSUME NEW j \in Jobs, StartServe(j)
      PROVE  FileOK'
  BY <1>5 DEF StartServe
<1>6. ASSUME NEW j \in Jobs, Open(j)
      PROVE  FileOK'
  BY <1>6 DEF Open, Opened
<1>7. ASSUME NEW j \in Jobs, Migrate(j)
      PROVE  FileOK'
  BY <1>7 DEF Migrate, Migrates, Opened, Version
<1>8. ASSUME NEW j \in Jobs, Bootstrap(j)
      PROVE  FileOK'
  BY <1>8 DEF Bootstrap
<1>9. ASSUME NEW j \in Jobs, Issue(j)
      PROVE  FileOK'
  BY <1>9 DEF Issue
<1>10. ASSUME NEW j \in Jobs, Copy(j)
      PROVE  FileOK'
  BY <1>10 DEF Copy
<1>11. ASSUME NEW j \in Jobs, Serve(j)
      PROVE  FileOK'
  BY <1>11 DEF Serve, command
<1>12. ASSUME NEW j \in Jobs, Persist(j)
      PROVE  FileOK'
  BY <1>12 DEF Persist, AfterError
<1>13. ASSUME NEW j \in Jobs, Finish(j)
      PROVE  FileOK'
  BY <1>13 DEF Finish
<1>14. ASSUME NEW j \in Jobs, FinishBootstrap(j)
      PROVE  FileOK'
  BY <1>14 DEF FinishBootstrap
<1>15. ASSUME NEW j \in Jobs, Revoke(j)
      PROVE  FileOK'
  BY <1>15 DEF Revoke
<1>16. ASSUME NEW j \in Jobs, Fail(j)
      PROVE  FileOK'
  BY <1>16 DEF Fail, AfterError
<1>17. ASSUME NEW j \in Jobs, Kill(j)
      PROVE  FileOK'
  BY <1>17 DEF Kill
<1>18. CASE LosePower
  BY <1>18 DEF LosePower
<1>19. CASE UNCHANGED provisionVars
  BY <1>19 DEF provisionVars, command
<1> QED
  BY <1>1, <1>2, <1>3, <1>4, <1>5, <1>6, <1>7, <1>8, <1>9,
     <1>10, <1>11, <1>12, <1>13, <1>14, <1>15, <1>16, <1>17, <1>18, <1>19 DEF ProvisionNext

(* A name that was taken is kept: Persist finds its own one free, and only *)
(* a command that is still running loses its name with the power.          *)
LEMMA NamesStep ==
  ASSUME ProvisionTypeOK, StageOK, NamesOK, [ProvisionNext]_provisionVars
  PROVE  NamesOK'
<1> USE DEF ProvisionTypeOK, NamesOK, Free, Running, Goto
<1>1. ASSUME NEW j \in Jobs, StartBootstrap(j)
      PROVE  NamesOK'
  BY <1>1 DEF StartBootstrap, names
<1>2. ASSUME NEW j \in Jobs, CreateDatabase(j)
      PROVE  NamesOK'
  BY <1>2 DEF CreateDatabase, names
<1>3. ASSUME NEW j \in Jobs, StartProvision(j)
      PROVE  NamesOK'
  BY <1>3 DEF StartProvision, names
<1>4. ASSUME NEW j \in Jobs, StartBackup(j)
      PROVE  NamesOK'
  BY <1>4 DEF StartBackup, names
<1>5. ASSUME NEW j \in Jobs, StartServe(j)
      PROVE  NamesOK'
  BY <1>5 DEF StartServe, names
<1>6. ASSUME NEW j \in Jobs, Open(j)
      PROVE  NamesOK'
  <2>1. /\ \A k \in Jobs \ {j} : at'[k] = at[k]
        /\ at'[j] \in {"failed", "serving", "act", "migrate"}
    BY <1>6 DEF Open, Opened
  <2>2. UNCHANGED names
    BY <1>6 DEF Open
  <2> QED
    BY <2>1, <2>2 DEF names
<1>7. ASSUME NEW j \in Jobs, Migrate(j)
      PROVE  NamesOK'
  <2>1. /\ \A k \in Jobs \ {j} : at'[k] = at[k]
        /\ at'[j] \in {"serving", "act", "refused"}
    BY <1>7 DEF Migrate, Opened
  <2>2. UNCHANGED names
    BY <1>7 DEF Migrate
  <2> QED
    BY <2>1, <2>2 DEF names
<1>8. ASSUME NEW j \in Jobs, Bootstrap(j)
      PROVE  NamesOK'
  BY <1>8 DEF Bootstrap, names
<1>9. ASSUME NEW j \in Jobs, Issue(j)
      PROVE  NamesOK'
  BY <1>9 DEF Issue, names
<1>10. ASSUME NEW j \in Jobs, Copy(j)
      PROVE  NamesOK'
  BY <1>10 DEF Copy, names
<1>11. ASSUME NEW j \in Jobs, Serve(j)
      PROVE  NamesOK'
  BY <1>11 DEF Serve, command, names
<1>12. ASSUME NEW j \in Jobs, Persist(j)
      PROVE  NamesOK'
  <2>1. j.target \in Paths
    BY <1>12, CommandFields DEF Persist, StageOK
  <2>2. CASE Free(j.target)
    <3>1. /\ entry' = [entry EXCEPT ![j.target] = Written(j)]
          /\ durable' = durable \ {j.target}
          /\ at' = [at EXCEPT ![j] = "sync"]
      BY <1>12, <2>2 DEF Persist
    <3>2. Written(j) # NoFile /\ Written(j).by = j /\ Written(j).state = "synced"
      <4>1. Written(j) \in Files
        BY DEF Written, Files
      <4> QED
        BY <4>1, ProvisionAssumption DEF Written
    <3>3. \A k \in Jobs : at[k] \in {"sync", "sync db", "done"} => k.target # j.target
      BY <2>2
    <3>4. /\ \A k \in Jobs \ {j} : at'[k] = at[k]
          /\ at'[j] = "sync"
      BY <3>1
    <3>5. /\ \A p \in Paths \ {j.target} : entry'[p] = entry[p]
          /\ entry'[j.target] = Written(j)
      BY <2>1, <3>1
    <3>6. \A p \in Paths : entry'[p] # NoFile => entry'[p].state = "synced"
      BY <3>2, <3>5
    <3>7. \A p \in Paths \ {j.target} : p \in durable' <=> p \in durable
      BY <3>1
    <3>8. \A k \in Jobs \ {j} : at[k] \in {"sync", "sync db", "done"} =>
            /\ entry'[k.target] = entry[k.target]
            /\ k.target \in durable => k.target \in durable'
      <4>1. \A k \in Jobs \ {j} : at[k] \in {"sync", "sync db", "done"} =>
              k.target \in Paths
        BY CommandFields DEF StageOK
      <4> QED
        BY <3>3, <3>5, <3>7, <4>1
    <3> QED
      BY <3>2, <3>4, <3>5, <3>6, <3>8
  <2>3. CASE ~Free(j.target)
    BY <1>12, <2>3 DEF Persist, AfterError, names
  <2> QED
    BY <2>2, <2>3
<1>13. ASSUME NEW j \in Jobs, Finish(j)
      PROVE  NamesOK'
  <2>1. j.target \in Paths
    BY <1>13, CommandFields DEF Finish, StageOK
  <2> QED
    BY <1>13, <2>1 DEF Finish, SyncDirectory
<1>14. ASSUME NEW j \in Jobs, FinishBootstrap(j)
      PROVE  NamesOK'
  BY <1>14 DEF FinishBootstrap, names
<1>15. ASSUME NEW j \in Jobs, Revoke(j)
      PROVE  NamesOK'
  BY <1>15 DEF Revoke, names
<1>16. ASSUME NEW j \in Jobs, Fail(j)
      PROVE  NamesOK'
  BY <1>16 DEF Fail, AfterError, names
<1>17. ASSUME NEW j \in Jobs, Kill(j)
      PROVE  NamesOK'
  BY <1>17 DEF Kill, names
<1>18. CASE LosePower
  <2>1. PICK lost \in SUBSET (Paths \ durable) :
          entry' = [p \in Paths |->
                      IF Free(p) \/ p \in lost THEN NoFile
                      ELSE IF entry[p].state = "synced" THEN entry[p]
                      ELSE [entry[p] EXCEPT !.state = "torn"]]
    BY <1>18 DEF LosePower
  <2>2. \A p \in Paths : entry'[p] = IF Free(p) \/ p \in lost THEN NoFile ELSE entry[p]
    BY <2>1
  <2>3. \A k \in Jobs : at'[k] \in {"sync", "sync db", "done"} => at[k] = "done"
    BY <1>18 DEF LosePower
  <2>4. \A k \in Jobs : at[k] = "done" =>
          /\ k.target \in Paths /\ k.target \notin lost
          /\ entry'[k.target] = entry[k.target]
    BY <2>2, CommandFields DEF StageOK
  <2>5. \A k \in Jobs : at'[k] \in {"sync db", "done"} => at[k] = "done"
    BY <1>18 DEF LosePower
  <2>6. durable' = Paths
    BY <1>18 DEF LosePower
  <2> QED
    BY <2>2, <2>3, <2>4, <2>5, <2>6
<1>19. CASE UNCHANGED provisionVars
  BY <1>19 DEF provisionVars, command, names
<1> QED
  BY <1>1, <1>2, <1>3, <1>4, <1>5, <1>6, <1>7, <1>8, <1>9,
     <1>10, <1>11, <1>12, <1>13, <1>14, <1>15, <1>16, <1>17, <1>18, <1>19 DEF ProvisionNext

(* What a step that is not the command's own leaves of its device.         *)
LEMMA DevicesKept ==
  ASSUME ProvisionTypeOK, DevicesOK,
         UNCHANGED <<owner, revoked, role>>,
         NEW j \in Jobs, NEW phase,
         at' = [at EXCEPT ![j] = phase],
         \A k \in Jobs \ {j} : token'[k] = token[k],
         at[j] \in {"idle", "create", "open", "migrate"} =>
           phase \in {"create", "open", "migrate", "act", "serving", "failed", "refused", "dead"},
         at[j] = "act" => phase \in {"failed", "dead"} \/ j \notin Issuers,
         at[j] \in {"write", "sync", "sync db"} =>
           /\ phase \in {"sync", "sync db", "done", "revoke", "failed", "dead"}
           /\ phase = "failed" => j.kind # "provision",
         at[j] = "revoke" => phase \in {"unrevoked", "dead"},
         at[j] = "serving" => phase = "dead",
         at[j] \in {"serving", "act", "write", "sync", "sync db", "revoke"} => token'[j] = token[j],
         at[j] \notin Ended
  PROVE  DevicesOK'
<1> SUFFICES ASSUME NEW k \in Issuers
             PROVE  /\ at'[k] \in {"idle", "create", "open", "migrate", "act"} =>
                         owner[k.device] = NoUser
                    /\ at'[k] \in {"write", "sync", "sync db", "revoke", "done"} =>
                         owner[k.device] = Owner /\ role[Vault][Owner] = "owner"
                    /\ k.device \in revoked => at'[k] = "failed"
                    /\ k.kind = "provision" /\ at'[k] \in {"write", "sync", "sync db", "revoke"} =>
                         owner[token'[k]] \in Users
                    /\ k.kind = "provision" /\ at'[k] = "failed" =>
                         \/ owner[k.device] = NoUser \/ k.device \in revoked
                         \/ token'[k] \in revoked
  BY DEF DevicesOK
<1>1. k \in Jobs
  BY DEF Issuers
<1>2. CASE k # j
  BY <1>1, <1>2 DEF ProvisionTypeOK, DevicesOK
<1>3. CASE k = j
  BY <1>1, <1>3 DEF ProvisionTypeOK, DevicesOK, Running, Ended
<1> QED
  BY <1>2, <1>3

(* A device that a command has just been given. *)
LEMMA DeviceIssued ==
  ASSUME ProvisionTypeOK, DevicesOK, UNCHANGED <<token, revoked>>,
         NEW j \in Issuers, at[j] = "act", at' = [at EXCEPT ![j] = "write"],
         NewDevice(j.device, Owner), role'[Vault][Owner] = "owner",
         j.kind = "provision" => owner[token[j]] = Owner
  PROVE  DevicesOK'
<1>1. j \in Jobs /\ j.device \in Devices
  BY CommandFields DEF Issuers
<1>2. \A d \in Devices : owner'[d] = IF d = j.device THEN Owner ELSE owner[d]
  BY DEF NewDevice, ProvisionTypeOK, TypeOK
<1>3. \A k \in Issuers : /\ k \in Jobs /\ k.device \in Devices
                         /\ k # j => k.device # j.device
  BY CommandFields, OneCommandPerDevice DEF Issuers
<1>4. ASSUME NEW k \in Issuers, k.kind = "provision", at'[k] \in {"write", "sync", "sync db", "revoke"}
      PROVE  owner'[token[k]] \in Users
  <2>1. owner[token[k]] \in Users
    BY <1>1, <1>3, <1>4, ProvisionAssumption DEF ProvisionTypeOK, DevicesOK
  <2> QED
    BY <2>1, ProvisionAssumption DEF NewDevice, ProvisionTypeOK, TypeOK
<1>5. \A k \in Issuers : at'[k] = IF k = j THEN "write" ELSE at[k]
  BY <1>1, <1>3 DEF ProvisionTypeOK
<1> SUFFICES ASSUME NEW k \in Issuers
             PROVE  /\ at'[k] \in {"idle", "create", "open", "migrate", "act"} =>
                         owner'[k.device] = NoUser
                    /\ at'[k] \in {"write", "sync", "sync db", "revoke", "done"} =>
                         owner'[k.device] = Owner /\ role'[Vault][Owner] = "owner"
                    /\ k.device \in revoked' => at'[k] = "failed"
                    /\ k.kind = "provision" /\ at'[k] = "failed" =>
                         \/ owner'[k.device] = NoUser \/ k.device \in revoked'
                         \/ token'[k] \in revoked'
  BY <1>4 DEF DevicesOK
<1>6. CASE k = j
  <2>1. at'[k] = "write" /\ owner'[k.device] = Owner
    BY <1>1, <1>2, <1>5, <1>6
  <2>2. k.device \notin revoked'
    BY <1>6 DEF DevicesOK
  <2> QED
    BY <2>1, <2>2
<1>7. CASE k # j
  <2>1. owner'[k.device] = owner[k.device] /\ at'[k] = at[k]
    BY <1>2, <1>3, <1>5, <1>7
  <2> QED
    BY <2>1 DEF DevicesOK
<1> QED
  BY <1>6, <1>7

LEMMA DevicesStep ==
  ASSUME ProvisionTypeOK, StageOK, DevicesOK, [ProvisionNext]_provisionVars
  PROVE  DevicesOK'
<1>1. ASSUME NEW j \in Jobs, StartBootstrap(j)
      PROVE  DevicesOK'
  BY <1>1, CommandFields, DevicesKept DEF StartBootstrap, Goto, vars, command, ProvisionTypeOK, Ended
<1>2. ASSUME NEW j \in Jobs, CreateDatabase(j)
      PROVE  DevicesOK'
  BY <1>2, CommandFields, DevicesKept DEF CreateDatabase, Goto, vars, command, ProvisionTypeOK, Ended
<1>3. ASSUME NEW j \in Jobs, StartProvision(j)
      PROVE  DevicesOK'
  BY <1>3, CommandFields, DevicesKept DEF StartProvision, Goto, vars, command, ProvisionTypeOK, Ended
<1>4. ASSUME NEW j \in Jobs, StartBackup(j)
      PROVE  DevicesOK'
  BY <1>4, CommandFields, DevicesKept DEF StartBackup, Goto, vars, command, ProvisionTypeOK, Ended
<1>5. ASSUME NEW j \in Jobs, StartServe(j)
      PROVE  DevicesOK'
  BY <1>5, CommandFields, DevicesKept DEF StartServe, Goto, vars, command, ProvisionTypeOK, Ended
<1>6. ASSUME NEW j \in Jobs, Open(j)
      PROVE  DevicesOK'
  BY <1>6, CommandFields, DevicesKept DEF Open, Goto, vars, command, ProvisionTypeOK, Ended, Opened
<1>7. ASSUME NEW j \in Jobs, Migrate(j)
      PROVE  DevicesOK'
  BY <1>7, CommandFields, DevicesKept DEF Migrate, Goto, vars, command, ProvisionTypeOK, Ended, Opened
<1>8. ASSUME NEW j \in Jobs, Bootstrap(j)
      PROVE  DevicesOK'
  <2>1. /\ j \in Issuers /\ UNCHANGED <<token, revoked>>
        /\ at[j] = "act" /\ at' = [at EXCEPT ![j] = "write"]
        /\ j.kind = "bootstrap" /\ NewDevice(j.device, Owner)
        /\ role' = [role EXCEPT ![Vault][Owner] = "owner"]
    BY <1>8, CommandFields DEF Bootstrap, Goto, bootstrap_owner, NewVault
  <2>2. role'[Vault][Owner] = "owner"
    BY <2>1, ProvisionAssumption DEF ProvisionTypeOK, TypeOK
  <2> QED
    BY <2>1, <2>2, DeviceIssued
<1>9. ASSUME NEW j \in Jobs, Issue(j)
      PROVE  DevicesOK'
  <2>1. CASE issue_device_for_owner(token[j], Owner, Vault, j.device)
    <3>1. /\ j \in Issuers /\ UNCHANGED <<token, revoked, role>>
          /\ at[j] = "act"
          /\ NewDevice(j.device, Owner)
          /\ owner[token[j]] = Owner /\ role[Vault][Owner] = "owner"
      BY <1>9, <2>1, CommandFields
      DEF Issue, Goto, issue_device_for_owner, Authorized, Sufficient
    <3>2. at' = [at EXCEPT ![j] = "write"]
      BY <1>9, <2>1, <3>1 DEF Issue, Goto, issue_device_for_owner
    <3> QED
      BY <3>1, <3>2, DeviceIssued, ProvisionAssumption
  <2>2. CASE ~issue_device_for_owner(token[j], Owner, Vault, j.device)
    BY <1>9, <2>2, CommandFields, DevicesKept DEF Issue, Goto, vars, ProvisionTypeOK, Ended
  <2> QED
    BY <2>1, <2>2
<1>10. ASSUME NEW j \in Jobs, Copy(j)
      PROVE  DevicesOK'
  BY <1>10, CommandFields, DevicesKept DEF Copy, Goto, vars, command, ProvisionTypeOK, Ended
<1>11. ASSUME NEW j \in Jobs, Serve(j)
      PROVE  DevicesOK'
  BY <1>11 DEF Serve, CommitStep, Commit, access, command, DevicesOK
<1>12. ASSUME NEW j \in Jobs, Persist(j)
      PROVE  DevicesOK'
  BY <1>12, CommandFields, DevicesKept DEF Persist, Goto, vars, command, ProvisionTypeOK, Ended, AfterError
<1>13. ASSUME NEW j \in Jobs, Finish(j)
      PROVE  DevicesOK'
  BY <1>13, CommandFields, DevicesKept DEF Finish, Goto, vars, command, ProvisionTypeOK, Ended
<1>14. ASSUME NEW j \in Jobs, FinishBootstrap(j)
      PROVE  DevicesOK'
  BY <1>14, CommandFields, DevicesKept DEF FinishBootstrap, Goto, vars, command, ProvisionTypeOK, Ended
<1>15. ASSUME NEW j \in Jobs, Revoke(j)
      PROVE  DevicesOK'
  <2>1. /\ j \in Issuers /\ j \in Jobs /\ j.kind = "provision"
        /\ at[j] = "revoke" /\ at' = [at EXCEPT ![j] = "failed"]
        /\ UNCHANGED <<owner, role, token>>
        /\ owner[token[j]] \in Users
    BY <1>15, CommandFields DEF Revoke, Goto, TakeBack, revoke_device, vars, StageOK, DevicesOK
  <2>2. /\ revoked' \in {revoked, revoked \cup {j.device}}
        /\ j.device \in revoked' \/ token[j] \in revoked'
    BY <1>15, <2>1 DEF Revoke, TakeBack, revoke_device, vars, IsActive
  <2>3. \A k \in Issuers : k # j => (k.device \in revoked' <=> k.device \in revoked)
    BY <2>1, <2>2, OneCommandPerDevice
  <2>4. \A k \in Issuers : at'[k] = IF k = j THEN "failed" ELSE at[k]
    BY <2>1 DEF ProvisionTypeOK, Issuers
  <2> SUFFICES ASSUME NEW k \in Issuers
               PROVE  /\ at'[k] \in {"idle", "create", "open", "migrate", "act"} =>
                           owner'[k.device] = NoUser
                      /\ at'[k] \in {"write", "sync", "sync db", "revoke", "done"} =>
                           owner'[k.device] = Owner /\ role'[Vault][Owner] = "owner"
                      /\ k.device \in revoked' => at'[k] = "failed"
                      /\ k.kind = "provision" /\ at'[k] \in {"write", "sync", "sync db", "revoke"} =>
                           owner'[token'[k]] \in Users
                      /\ k.kind = "provision" /\ at'[k] = "failed" =>
                           \/ owner'[k.device] = NoUser \/ k.device \in revoked'
                           \/ token'[k] \in revoked'
    BY DEF DevicesOK
  <2>5. CASE k = j
    <3>1. at'[k] = "failed"
      BY <2>4, <2>5
    <3>2. k.device \in revoked' \/ token'[k] \in revoked'
      BY <2>1, <2>2, <2>5
    <3> QED
      BY <3>1, <3>2
  <2>6. CASE k # j
    BY <2>1, <2>2, <2>3, <2>4, <2>6 DEF DevicesOK
  <2> QED
    BY <2>5, <2>6
<1>16. ASSUME NEW j \in Jobs, Fail(j)
      PROVE  DevicesOK'
  <2>1. at[j] = "sync db" => j.kind = "bootstrap"
    BY DEF StageOK
  <2>2. /\ at' = [at EXCEPT ![j] = IF at[j] = "revoke" THEN "unrevoked" ELSE AfterError(j)]
        /\ at[j] \in Running \ {"serving"} /\ UNCHANGED <<owner, revoked, role, token>>
    BY <1>16 DEF Fail, Goto, vars
  <2> QED
    BY <2>1, <2>2, DevicesKept DEF Ended, AfterError, Running
<1>17. ASSUME NEW j \in Jobs, Kill(j)
      PROVE  DevicesOK'
  BY <1>17, CommandFields, DevicesKept DEF Kill, Goto, vars, command, ProvisionTypeOK, Ended, Running
<1>18. CASE LosePower
  <2>1. \A k \in Jobs : at'[k] = IF at[k] \in Running THEN "dead" ELSE at[k]
    BY <1>18 DEF LosePower
  <2>2. UNCHANGED <<owner, revoked, role, token>>
    BY <1>18 DEF LosePower, vars
  <2>3. \A k \in Issuers : k \in Jobs
    BY DEF Issuers
  <2> QED
    BY <2>1, <2>2, <2>3 DEF DevicesOK, Running
<1>19. CASE UNCHANGED provisionVars
  BY <1>19 DEF provisionVars, command, vars, DevicesOK
<1> QED
  BY <1>1, <1>2, <1>3, <1>4, <1>5, <1>6, <1>7, <1>8, <1>9,
     <1>10, <1>11, <1>12, <1>13, <1>14, <1>15, <1>16, <1>17, <1>18, <1>19 DEF ProvisionNext

(* Commits stay, and so does what was reported. *)
LEMMA ReportsStay ==
  ASSUME ProvisionTypeOK, [ProvisionNext]_provisionVars
  PROVE  commits \subseteq commits' /\ Reported \subseteq Reported'
<1> USE DEF ProvisionTypeOK, Reported, Running, Goto
<1>1. ASSUME NEW j \in Jobs, StartBootstrap(j)
      PROVE  commits \subseteq commits' /\ Reported \subseteq Reported'
  BY <1>1 DEF StartBootstrap, vars
<1>2. ASSUME NEW j \in Jobs, CreateDatabase(j)
      PROVE  commits \subseteq commits' /\ Reported \subseteq Reported'
  BY <1>2 DEF CreateDatabase, vars
<1>3. ASSUME NEW j \in Jobs, StartProvision(j)
      PROVE  commits \subseteq commits' /\ Reported \subseteq Reported'
  BY <1>3 DEF StartProvision, vars
<1>4. ASSUME NEW j \in Jobs, StartBackup(j)
      PROVE  commits \subseteq commits' /\ Reported \subseteq Reported'
  BY <1>4 DEF StartBackup, vars
<1>5. ASSUME NEW j \in Jobs, StartServe(j)
      PROVE  commits \subseteq commits' /\ Reported \subseteq Reported'
  BY <1>5 DEF StartServe, vars
<1>6. ASSUME NEW j \in Jobs, Open(j)
      PROVE  commits \subseteq commits' /\ Reported \subseteq Reported'
  BY <1>6 DEF Open, vars
<1>7. ASSUME NEW j \in Jobs, Migrate(j)
      PROVE  commits \subseteq commits' /\ Reported \subseteq Reported'
  BY <1>7 DEF Migrate, vars
<1>8. ASSUME NEW j \in Jobs, Bootstrap(j)
      PROVE  commits \subseteq commits' /\ Reported \subseteq Reported'
  BY <1>8 DEF Bootstrap, bootstrap_owner
<1>9. ASSUME NEW j \in Jobs, Issue(j)
      PROVE  commits \subseteq commits' /\ Reported \subseteq Reported'
  BY <1>9 DEF Issue, issue_device_for_owner, vars
<1>10. ASSUME NEW j \in Jobs, Copy(j)
      PROVE  commits \subseteq commits' /\ Reported \subseteq Reported'
  BY <1>10 DEF Copy, vars
<1>11. ASSUME NEW j \in Jobs, Serve(j)
      PROVE  commits \subseteq commits' /\ Reported \subseteq Reported'
  BY <1>11 DEF Serve, CommitStep, Commit, StoreCommit, command
<1>12. ASSUME NEW j \in Jobs, Persist(j)
      PROVE  commits \subseteq commits' /\ Reported \subseteq Reported'
  BY <1>12 DEF Persist, vars
<1>13. ASSUME NEW j \in Jobs, Finish(j)
      PROVE  commits \subseteq commits' /\ Reported \subseteq Reported'
  BY <1>13 DEF Finish, vars
<1>14. ASSUME NEW j \in Jobs, FinishBootstrap(j)
      PROVE  commits \subseteq commits' /\ Reported \subseteq Reported'
  BY <1>14 DEF FinishBootstrap, vars
<1>15. ASSUME NEW j \in Jobs, Revoke(j)
      PROVE  commits \subseteq commits' /\ Reported \subseteq Reported'
  BY <1>15 DEF Revoke, TakeBack, revoke_device, vars
<1>16. ASSUME NEW j \in Jobs, Fail(j)
      PROVE  commits \subseteq commits' /\ Reported \subseteq Reported'
  BY <1>16 DEF Fail, vars
<1>17. ASSUME NEW j \in Jobs, Kill(j)
      PROVE  commits \subseteq commits' /\ Reported \subseteq Reported'
  BY <1>17 DEF Kill, vars
<1>18. CASE LosePower
  BY <1>18 DEF LosePower, vars
<1>19. CASE UNCHANGED provisionVars
  BY <1>19 DEF provisionVars, command, vars
<1> QED
  BY <1>1, <1>2, <1>3, <1>4, <1>5, <1>6, <1>7, <1>8, <1>9,
     <1>10, <1>11, <1>12, <1>13, <1>14, <1>15, <1>16, <1>17, <1>18, <1>19 DEF ProvisionNext

(* What is copied in one read transaction is everything that was reported  *)
(* before, without gaps.                                                   *)
LEMMA CopyStep ==
  ASSUME ProvisionTypeOK, History, DevicesOK, BackupOK, NEW j \in Jobs,
         copy'[j] = Snapshot, UNCHANGED before
  PROVE  CopyIsComplete(j)'
<1>1. /\ copy'[j].owner = owner /\ copy'[j].current = current[Vault]
      /\ copy'[j].commits = commits
  BY DEF Snapshot
<1>2. ASSUME NEW k \in before[j].jobs \cap Issuers
      PROVE  owner[k.device] = Owner
  <2>1. at[k] = "done"
    BY <1>2 DEF BackupOK, Reported
  <2> QED
    BY <2>1, <1>2 DEF DevicesOK
<1>3. ASSUME NEW r \in 1 .. current[Vault]
      PROVE  \E row \in commits : row.applied_revision = r
  <2>1. current[Vault] \in Revisions \cup {NoVault}
    BY ProvisionAssumption DEF ProvisionTypeOK, TypeOK
  <2>2. r \in Revisions /\ r >= 1 /\ r <= current[Vault]
    BY <2>1, MaxRevisionAssumption DEF Revisions, NoVault
  <2> QED
    BY <2>2, ProvisionAssumption DEF History, HistoryIsContiguous
<1>4. before[j].commits \subseteq commits
  BY DEF BackupOK
<1> QED
  BY <1>1, <1>2, <1>3, <1>4 DEF CopyIsComplete

(* A backup that goes on has what it had.                                  *)
LEMMA BackupKept ==
  ASSUME ProvisionTypeOK, BackupOK, [ProvisionNext]_provisionVars,
         UNCHANGED ghosts,
         \A k \in Jobs : k.kind = "backup" /\ at'[k] \in {"write", "sync", "sync db", "done"} =>
           at[k] \in {"write", "sync", "sync db", "done"}
  PROVE  BackupOK'
<1>1. commits \subseteq commits' /\ Reported \subseteq Reported'
  BY ReportsStay
<1>2. \A k \in Jobs : CopyIsComplete(k) => CopyIsComplete(k)'
  BY DEF CopyIsComplete, ghosts
<1> QED
  BY <1>1, <1>2 DEF BackupOK, ghosts

LEMMA BackupStep ==
  ASSUME ProvisionTypeOK, History, DevicesOK, BackupOK, [ProvisionNext]_provisionVars
  PROVE  BackupOK'
<1>0. commits \subseteq commits' /\ Reported \subseteq Reported'
  BY ReportsStay
<1>1. ASSUME NEW j \in Jobs, StartBootstrap(j)
      PROVE  BackupOK'
  BY <1>1, BackupKept DEF StartBootstrap, Goto, ProvisionTypeOK
<1>2. ASSUME NEW j \in Jobs, CreateDatabase(j)
      PROVE  BackupOK'
  BY <1>2, BackupKept DEF CreateDatabase, Goto, ProvisionTypeOK
<1>3. ASSUME NEW j \in Jobs, StartProvision(j)
      PROVE  BackupOK'
  BY <1>3, BackupKept DEF StartProvision, Goto, ProvisionTypeOK
<1>4. ASSUME NEW j \in Jobs, StartBackup(j)
      PROVE  BackupOK'
  <2>1. /\ before' = [before EXCEPT ![j] = [jobs |-> Reported, commits |-> commits]]
        /\ at' = [at EXCEPT ![j] = "open"] /\ UNCHANGED copy
    BY <1>4 DEF StartBackup, Goto
  <2>2. ASSUME NEW k \in Jobs, k # j
        PROVE  before'[k] = before[k] /\ at'[k] = at[k]
    BY <2>1, <2>2 DEF ProvisionTypeOK
  <2>3. \A k \in Jobs : k # j /\ CopyIsComplete(k) => CopyIsComplete(k)'
    BY <2>1, <2>2 DEF CopyIsComplete
  <2>4. before'[j].jobs = Reported /\ before'[j].commits = commits /\ at'[j] = "open"
    BY <2>1 DEF ProvisionTypeOK
  <2> QED
    BY <1>0, <2>2, <2>3, <2>4 DEF BackupOK
<1>5. ASSUME NEW j \in Jobs, StartServe(j)
      PROVE  BackupOK'
  BY <1>5, BackupKept DEF StartServe, Goto, ProvisionTypeOK
<1>6. ASSUME NEW j \in Jobs, Open(j)
      PROVE  BackupOK'
  BY <1>6, BackupKept DEF Open, Goto, ProvisionTypeOK, Opened
<1>7. ASSUME NEW j \in Jobs, Migrate(j)
      PROVE  BackupOK'
  BY <1>7, BackupKept DEF Migrate, Goto, ProvisionTypeOK, Opened
<1>8. ASSUME NEW j \in Jobs, Bootstrap(j)
      PROVE  BackupOK'
  BY <1>8, BackupKept DEF Bootstrap, Goto, ProvisionTypeOK
<1>9. ASSUME NEW j \in Jobs, Issue(j)
      PROVE  BackupOK'
  BY <1>9, BackupKept DEF Issue, Goto, ProvisionTypeOK
<1>10. ASSUME NEW j \in Jobs, Copy(j)
      PROVE  BackupOK'
  <2>1. CASE Free(j.target)
    <3>1. /\ copy' = [copy EXCEPT ![j] = Snapshot]
          /\ at' = [at EXCEPT ![j] = "write"] /\ UNCHANGED before
      BY <1>10, <2>1 DEF Copy, Goto
    <3>2. \A k \in Jobs : k # j => copy'[k] = copy[k] /\ at'[k] = at[k]
      BY <3>1 DEF ProvisionTypeOK
    <3>3. \A k \in Jobs : k # j /\ CopyIsComplete(k) => CopyIsComplete(k)'
      BY <3>1, <3>2 DEF CopyIsComplete
    <3>4. CopyIsComplete(j)'
      BY <3>1, CopyStep DEF ProvisionTypeOK
    <3> QED
      BY <1>0, <3>1, <3>2, <3>3, <3>4 DEF BackupOK
  <2>2. CASE ~Free(j.target)
    BY <1>10, <2>2, BackupKept DEF Copy, Goto, ghosts, ProvisionTypeOK
  <2> QED
    BY <2>1, <2>2
<1>11. ASSUME NEW j \in Jobs, Serve(j)
      PROVE  BackupOK'
  BY <1>11, BackupKept DEF Serve, Goto, ProvisionTypeOK, command
<1>12. ASSUME NEW j \in Jobs, Persist(j)
      PROVE  BackupOK'
  BY <1>12, BackupKept DEF Persist, Goto, ProvisionTypeOK, AfterError
<1>13. ASSUME NEW j \in Jobs, Finish(j)
      PROVE  BackupOK'
  BY <1>13, BackupKept DEF Finish, Goto, ProvisionTypeOK
<1>14. ASSUME NEW j \in Jobs, FinishBootstrap(j)
      PROVE  BackupOK'
  BY <1>14, BackupKept DEF FinishBootstrap, Goto, ProvisionTypeOK
<1>15. ASSUME NEW j \in Jobs, Revoke(j)
      PROVE  BackupOK'
  BY <1>15, BackupKept DEF Revoke, Goto, ProvisionTypeOK
<1>16. ASSUME NEW j \in Jobs, Fail(j)
      PROVE  BackupOK'
  BY <1>16, BackupKept DEF Fail, Goto, ProvisionTypeOK, AfterError
<1>17. ASSUME NEW j \in Jobs, Kill(j)
      PROVE  BackupOK'
  BY <1>17, BackupKept DEF Kill, Goto, ProvisionTypeOK
<1>18. CASE LosePower
  BY <1>18, BackupKept DEF LosePower, Running
<1>19. CASE UNCHANGED provisionVars
  BY <1>19, BackupKept DEF provisionVars, command
<1> QED
  BY <1>1, <1>2, <1>3, <1>4, <1>5, <1>6, <1>7, <1>8, <1>9,
     <1>10, <1>11, <1>12, <1>13, <1>14, <1>15, <1>16, <1>17, <1>18, <1>19 DEF ProvisionNext

-----------------------------------------------------------------------------
(* Types. *)

(* The types in three parts: of the commands, the paths and the copies.    *)
ControlTypes ==
  /\ file \in FileKinds
  /\ at \in [Jobs -> {"idle"} \cup Running \cup Ended]
  /\ seen \in [Jobs -> FileKinds]
  /\ token \in [Jobs -> Devices \cup {NoDevice}]
  /\ file # "current" => users = {}

PathTypes ==
  /\ entry \in [Paths -> Files \cup {NoFile}]
  /\ \A p \in Paths : ~Free(p) => entry[p].by.target = p
  /\ durable \subseteq Paths

CopyTypes ==
  /\ copy \in [Jobs -> Copies]
  /\ before \in [Jobs -> [jobs : SUBSET Jobs, commits : SUBSET Rows]]

LEMMA TypeParts ==
  ProvisionTypeOK <=> TypeOK /\ ControlTypes /\ PathTypes /\ CopyTypes
  BY DEF ProvisionTypeOK, ControlTypes, PathTypes, CopyTypes

LEMMA ControlTypeStep ==
  ASSUME ProvisionTypeOK, StageOK, FileOK, [ProvisionNext]_provisionVars
  PROVE  ControlTypes'
<1> USE DEF ProvisionTypeOK, ControlTypes, FileKinds, Running, Ended, Goto
<1>1. ASSUME NEW j \in Jobs, StartBootstrap(j)
      PROVE  ControlTypes'
  BY <1>1 DEF StartBootstrap, vars
<1>2. ASSUME NEW j \in Jobs, CreateDatabase(j)
      PROVE  ControlTypes'
  BY <1>2 DEF CreateDatabase, vars, MayCreate
<1>3. ASSUME NEW j \in Jobs, StartProvision(j)
      PROVE  ControlTypes'
  <2>1. CASE HasCredentials(j.from)
    <3>1. entry[j.from].by.device \in Devices
      BY <2>1, CommandFields DEF HasCredentials, Issuers
    <3> QED
      BY <1>3, <3>1 DEF StartProvision, vars
  <2>2. CASE ~HasCredentials(j.from)
    BY <1>3, <2>2 DEF StartProvision, vars
  <2> QED
    BY <2>1, <2>2
<1>4. ASSUME NEW j \in Jobs, StartBackup(j)
      PROVE  ControlTypes'
  BY <1>4 DEF StartBackup, vars
<1>5. ASSUME NEW j \in Jobs, StartServe(j)
      PROVE  ControlTypes'
  BY <1>5 DEF StartServe, vars
<1>6. ASSUME NEW j \in Jobs, Open(j)
      PROVE  ControlTypes'
  <2>1. /\ UNCHANGED <<file, token, users>>
        /\ seen' = seen \/ seen' = [seen EXCEPT ![j] = file]
    BY <1>6 DEF Open, vars
  <2>2. at' \in [Jobs -> {"idle"} \cup Running \cup Ended]
    BY <1>6 DEF Open, Opened
  <2>3. seen' \in [Jobs -> FileKinds]
    <3>1. CASE seen' = [seen EXCEPT ![j] = file]
      BY <3>1
    <3> QED
      BY <2>1, <3>1
  <2> QED
    BY <2>1, <2>2, <2>3
<1>7. ASSUME NEW j \in Jobs, Migrate(j)
      PROVE  ControlTypes'
  BY <1>7 DEF Migrate, Migrates, vars, Opened, Version
<1>8. ASSUME NEW j \in Jobs, Bootstrap(j)
      PROVE  ControlTypes'
  BY <1>8 DEF Bootstrap, bootstrap_owner, FileOK
<1>9. ASSUME NEW j \in Jobs, Issue(j)
      PROVE  ControlTypes'
  BY <1>9 DEF Issue, issue_device_for_owner, vars
<1>10. ASSUME NEW j \in Jobs, Copy(j)
      PROVE  ControlTypes'
  BY <1>10 DEF Copy, vars
<1>11. ASSUME NEW j \in Jobs, Serve(j)
      PROVE  ControlTypes'
  BY <1>11 DEF Serve, command, CommitStep, Commit, access
<1>12. ASSUME NEW j \in Jobs, Persist(j)
      PROVE  ControlTypes'
  BY <1>12 DEF Persist, vars, AfterError
<1>13. ASSUME NEW j \in Jobs, Finish(j)
      PROVE  ControlTypes'
  BY <1>13 DEF Finish, vars
<1>14. ASSUME NEW j \in Jobs, FinishBootstrap(j)
      PROVE  ControlTypes'
  BY <1>14 DEF FinishBootstrap, vars
<1>15. ASSUME NEW j \in Jobs, Revoke(j)
      PROVE  ControlTypes'
  BY <1>15 DEF Revoke, TakeBack, revoke_device, vars
<1>16. ASSUME NEW j \in Jobs, Fail(j)
      PROVE  ControlTypes'
  BY <1>16 DEF Fail, vars, AfterError
<1>17. ASSUME NEW j \in Jobs, Kill(j)
      PROVE  ControlTypes'
  BY <1>17 DEF Kill, vars
<1>18. CASE LosePower
  BY <1>18 DEF LosePower, vars
<1>19. CASE UNCHANGED provisionVars
  BY <1>19 DEF provisionVars, command, vars
<1> QED
  BY <1>1, <1>2, <1>3, <1>4, <1>5, <1>6, <1>7, <1>8, <1>9,
     <1>10, <1>11, <1>12, <1>13, <1>14, <1>15, <1>16, <1>17, <1>18, <1>19 DEF ProvisionNext

LEMMA PathTypeStep ==
  ASSUME ProvisionTypeOK, StageOK, [ProvisionNext]_provisionVars
  PROVE  PathTypes'
<1>1. ASSUME UNCHANGED names
      PROVE  PathTypes'
  BY <1>1 DEF ProvisionTypeOK, PathTypes, names, Free
<1>2. ASSUME NEW j \in Jobs, Persist(j)
      PROVE  PathTypes'
  <2>1. j.target \in Paths /\ Written(j) \in Files /\ Written(j).by = j
    BY <1>2, CommandFields DEF Persist, StageOK, Written, Files
  <2>2. CASE UNCHANGED names
    BY <1>1, <2>2
  <2>3. CASE /\ entry' = [entry EXCEPT ![j.target] = Written(j)]
             /\ durable' = durable \ {j.target}
    BY <2>1, <2>3 DEF ProvisionTypeOK, PathTypes, Free
  <2> QED
    BY <1>2, <2>2, <2>3 DEF Persist
<1>3. ASSUME NEW j \in Jobs, Finish(j)
      PROVE  PathTypes'
  <2>1. j.target \in Paths
    BY <1>3, CommandFields DEF Finish, StageOK
  <2> QED
    BY <1>3, <2>1 DEF Finish, SyncDirectory, ProvisionTypeOK, PathTypes, Free
<1>4. CASE LosePower
  <2>1. PICK lost \in SUBSET (Paths \ durable) :
          entry' = [p \in Paths |->
                      IF Free(p) \/ p \in lost THEN NoFile
                      ELSE IF entry[p].state = "synced" THEN entry[p]
                      ELSE [entry[p] EXCEPT !.state = "torn"]]
    BY <1>4 DEF LosePower
  <2>2. ASSUME NEW p \in Paths
        PROVE  /\ entry'[p] \in Files \cup {NoFile}
               /\ entry'[p] # NoFile => entry'[p].by.target = p
    <3>1. CASE Free(p) \/ p \in lost
      BY <2>1, <3>1
    <3>2. CASE ~Free(p) /\ p \notin lost
      <4>1. entry[p] \in Files /\ entry[p].by.target = p
        BY <3>2 DEF ProvisionTypeOK, Free
      <4>2. /\ [entry[p] EXCEPT !.state = "torn"] \in Files
            /\ [entry[p] EXCEPT !.state = "torn"].by = entry[p].by
        BY <4>1 DEF Files
      <4> QED
        BY <2>1, <3>2, <4>1, <4>2
    <3> QED
      BY <3>1, <3>2
  <2>3. durable' = Paths
    BY <1>4 DEF LosePower
  <2> QED
    BY <2>1, <2>2, <2>3 DEF PathTypes, Free
<1>5. ASSUME NEW j \in Jobs,
             \/ StartBootstrap(j) \/ CreateDatabase(j) \/ StartProvision(j)
             \/ StartBackup(j) \/ StartServe(j) \/ Open(j) \/ Migrate(j)
             \/ Bootstrap(j) \/ Issue(j) \/ Copy(j) \/ Serve(j) \/ Revoke(j)
             \/ FinishBootstrap(j) \/ Fail(j) \/ Kill(j)
      PROVE  UNCHANGED names
  BY <1>5
  DEF StartBootstrap, CreateDatabase, StartProvision, StartBackup, StartServe, Open,
      Migrate, Bootstrap, Issue, Copy, Serve, FinishBootstrap, Revoke, Fail, Kill
<1> QED
  BY <1>1, <1>2, <1>3, <1>4, <1>5 DEF ProvisionNext, provisionVars

LEMMA CopyTypeStep ==
  ASSUME ProvisionTypeOK, [ProvisionNext]_provisionVars
  PROVE  CopyTypes'
<1>1. ASSUME UNCHANGED ghosts
      PROVE  CopyTypes'
  BY <1>1 DEF ProvisionTypeOK, CopyTypes, ghosts
<1>2. ASSUME NEW j \in Jobs, StartBackup(j)
      PROVE  CopyTypes'
  <2>1. [jobs |-> Reported, commits |-> commits] \in [jobs : SUBSET Jobs, commits : SUBSET Rows]
    BY DEF Reported, ProvisionTypeOK, TypeOK
  <2> QED
    BY <1>2, <2>1 DEF StartBackup, ProvisionTypeOK, CopyTypes
<1>3. ASSUME NEW j \in Jobs, Copy(j)
      PROVE  CopyTypes'
  <2>1. Snapshot \in Copies
    BY ProvisionAssumption DEF Snapshot, Copies, ProvisionTypeOK, TypeOK
  <2>2. copy' \in {copy, [copy EXCEPT ![j] = Snapshot]} /\ UNCHANGED before
    BY <1>3 DEF Copy
  <2> QED
    BY <2>1, <2>2 DEF ProvisionTypeOK, CopyTypes
<1>4. ASSUME NEW j \in Jobs,
             \/ StartBootstrap(j) \/ CreateDatabase(j) \/ StartProvision(j)
             \/ StartServe(j) \/ Open(j) \/ Migrate(j) \/ Bootstrap(j) \/ Issue(j)
             \/ Serve(j) \/ Persist(j) \/ Finish(j)
             \/ FinishBootstrap(j) \/ Revoke(j) \/ Fail(j) \/ Kill(j)
      PROVE  UNCHANGED ghosts
  BY <1>4
  DEF StartBootstrap, CreateDatabase, StartProvision, StartServe, Open, Migrate,
      Bootstrap, Issue, Serve, Persist, Finish, FinishBootstrap, Revoke, Fail, Kill, ghosts
<1> QED
  BY <1>1, <1>2, <1>3, <1>4 DEF ProvisionNext, LosePower, provisionVars

-----------------------------------------------------------------------------
(* The theorems. *)

LEMMA ProvisionStart == ProvisionInit => ProvisionInv
<1> SUFFICES ASSUME ProvisionInit
             PROVE  ProvisionInv
  OBVIOUS
<1>1. TypeOK /\ History
  BY TypeInit, HistoryInit DEF ProvisionInit
<1>2. ControlTypes
  BY ProvisionAssumption DEF ProvisionInit, Init, ControlTypes, FileKinds
<1>3. PathTypes /\ NamesOK
  BY DEF ProvisionInit, PathTypes, NamesOK, Free
<1>4. NoCopy \in Copies
  BY MaxRevisionAssumption DEF NoCopy, Copies, Revisions
<1>5. CopyTypes
  BY <1>4 DEF ProvisionInit, CopyTypes
<1>6. StageOK /\ FileOK
  BY DEF ProvisionInit, StageOK, FileOK, Running
<1>7. DevicesOK
  BY CommandFields DEF ProvisionInit, Init, DevicesOK, Issuers
<1>8. BackupOK
  BY DEF ProvisionInit, BackupOK
<1> QED
  BY <1>1, <1>2, <1>3, <1>5, <1>6, <1>7, <1>8, TypeParts DEF ProvisionInv

LEMMA ProvisionStep == ProvisionInv /\ [ProvisionNext]_provisionVars => ProvisionInv'
<1> SUFFICES ASSUME ProvisionInv, [ProvisionNext]_provisionVars
             PROVE  ProvisionInv'
  OBVIOUS
<1>1. TypeOK' /\ History'
  BY ProvisionIsStore, TypeStep, HistoryStep DEF ProvisionInv, ProvisionTypeOK
<1>2. ControlTypes' /\ PathTypes' /\ CopyTypes'
  BY ControlTypeStep, PathTypeStep, CopyTypeStep DEF ProvisionInv
<1>3. ProvisionTypeOK'
  BY <1>1, <1>2 DEF ProvisionTypeOK, ControlTypes, PathTypes, CopyTypes
<1>4. StageOK' /\ FileOK' /\ NamesOK' /\ DevicesOK' /\ BackupOK'
  BY StageStep, FileStep, NamesStep, DevicesStep, BackupStep DEF ProvisionInv
<1> QED
  BY <1>1, <1>3, <1>4 DEF ProvisionInv

LEMMA ProvisionInvHolds == ProvisionSpec => []ProvisionInv
  BY ProvisionStart, ProvisionStep, PTL DEF ProvisionSpec

(* Whatever commands run, in any order and with any failures, kills and    *)
(* losses of power, the commands, the paths and the database only hold     *)
(* what they may hold.                                                     *)
THEOREM ProvisionTypeCorrect == ProvisionSpec => []ProvisionTypeOK
<1>1. ProvisionInv => ProvisionTypeOK
  BY DEF ProvisionInv
<1> QED
  BY <1>1, ProvisionInvHolds, PTL

(* No failure, kill or loss of power leaves a path that shows a            *)
(* half-written file.                                                      *)
THEOREM FilesAreWhole == ProvisionSpec => []WholeFiles
<1>1. ProvisionInv => WholeFiles
  BY DEF ProvisionInv, NamesOK, WholeFiles
<1> QED
  BY <1>1, ProvisionInvHolds, PTL

(* Credentials that a command has reported are at their path and open the  *)
(* vault, for good: no other command overwrites them, revokes their device *)
(* or replaces the database.                                               *)
THEOREM CredentialsStay == ProvisionSpec => []ReportedCredentialsWork
<1>1. ASSUME ProvisionInv, NEW j \in Issuers, at[j] = "done"
      PROVE  /\ ~Free(j.target) /\ entry[j.target].by = j
             /\ file = "current" /\ Authorized(j.device, Vault, "owner")
  <2>1. j \in Jobs /\ j.device \in Devices
    BY CommandFields DEF Issuers
  <2>2. /\ owner[j.device] = Owner /\ role[Vault][Owner] = "owner"
        /\ j.device \notin revoked
    BY <1>1 DEF ProvisionInv, DevicesOK
  <2>3. Authorized(j.device, Vault, "owner")
    BY <2>2, ProvisionAssumption DEF Authorized, IsActive, Sufficient
  <2> QED
    BY <1>1, <2>1, <2>3 DEF ProvisionInv, NamesOK, FileOK
<1>2. ProvisionInv => ReportedCredentialsWork
  BY <1>1 DEF ReportedCredentialsWork
<1> QED
  BY <1>2, ProvisionInvHolds, PTL

(* A backup that was reported holds every device and every commit from     *)
(* before it, and a history without gaps.                                  *)
THEOREM BackupsAreComplete == ProvisionSpec => []ReportedBackupIsComplete
<1>1. ProvisionInv => ReportedBackupIsComplete
  BY DEF ProvisionInv, NamesOK, BackupOK, CopyIsComplete, ReportedBackupIsComplete
<1> QED
  BY <1>1, ProvisionInvHolds, PTL

(* A provision that has failed leaves no device with access, unless the    *)
(* device it acted with has lost its own.                                  *)
THEOREM FailuresAreCleanedUp == ProvisionSpec => []FailedLeavesNoDevice
<1>1. ProvisionInv => FailedLeavesNoDevice
  BY StoreAssumption DEF ProvisionInv, DevicesOK, FailedLeavesNoDevice, IsActive
<1> QED
  BY <1>1, ProvisionInvHolds, PTL

(* Commands that open a database at the same time agree on it: none is     *)
(* refused because another one has migrated it first, and one that is not  *)
(* the server's, or has records of version 1, is refused to all of them.   *)
THEOREM MigrationsDoNotClash == ProvisionSpec => []OnlyUnusableIsRefused
<1>1. ProvisionInv => OnlyUnusableIsRefused
  BY DEF ProvisionInv, FileOK, OnlyUnusableIsRefused
<1> QED
  BY <1>1, ProvisionInvHolds, PTL
=============================================================================
