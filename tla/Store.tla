------------------------------- MODULE Store -------------------------------
(***************************************************************************)
(* The server's database, server/src/store.rs with the schema of           *)
(* server/migrations: users, devices, vaults, members and commits.  An     *)
(* action is one transaction.  SQLite runs the writing ones (BEGIN         *)
(* IMMEDIATE) one at a time, and one that returns an error changes         *)
(* nothing, so that only the outcomes that change something are steps.     *)
(*                                                                         *)
(* The schema's PRIMARY KEY, UNIQUE and CHECK constraints on commits are   *)
(* not guards here: SchemaHolds says that no step would be refused by one. *)
(***************************************************************************)
EXTENDS Revision, FiniteSets, Sequences

CONSTANTS
  Users, Devices, Vaults, Operations, Payloads,
  NoUser,           \* the user of a device that has no row
  MaxCorruptions    \* bound: stored packets the disk may damage

ASSUME StoreAssumption ==
  /\ IsFiniteSet(Users)
  /\ NoUser \notin Users
  /\ MaxCorruptions \in Nat

VARIABLES
  users,        \* the users with a row
  owner,        \* owner[d]: the user of device d, and of its token
  revoked,      \* the devices that are revoked
  current,      \* current[v]: the revision of vault v, NoVault without a row
  role,         \* role[v][u]: the role of u in v, "none" without a row
  commits,      \* the rows of commits
  corruptions

access == <<users, owner, revoked, role>>
vars == <<users, owner, revoked, current, role, commits, corruptions>>

NoVault == -1
Roles == {"none", "reader", "writer", "owner"}

(* A packet is its own digest, as SHA-256 is taken to be injective. *)
digest(payload) == payload

Rows ==
  [vault : Vaults, operation_id : Operations, expected_revision : Revisions,
   applied_revision : Revisions, payload_digest : Payloads, payload : Payloads]

VaultExists(v) == current[v] # NoVault
Intact(row) == row.payload_digest = digest(row.payload)

Init ==
  /\ users = {}
  /\ owner = [d \in Devices |-> NoUser]
  /\ revoked = {}
  /\ current = [v \in Vaults |-> NoVault]
  /\ role = [v \in Vaults |-> [u \in Users |-> "none"]]
  /\ commits = {}
  /\ corruptions = 0

-----------------------------------------------------------------------------
(* Access. *)

Sufficient(required) ==
  CASE required = "reader" -> {"reader", "writer", "owner"}
    [] required = "writer" -> {"writer", "owner"}
    [] required = "owner" -> {"owner"}

IsActive(token) == owner[token] \in Users /\ token \notin revoked

(* authorize: the token's device is not revoked and its user has the role. *)
Authorized(token, v, required) ==
  /\ IsActive(token)
  /\ role[v][owner[token]] \in Sufficient(required)

NewDevice(d, u) ==
  /\ owner[d] = NoUser
  /\ owner' = [owner EXCEPT ![d] = u]

NewVault(v, u) ==
  /\ ~VaultExists(v)
  /\ current' = [current EXCEPT ![v] = 0]
  /\ role' = [role EXCEPT ![v][u] = "owner"]

(* The first owner, device and vault, in a store that has no records. *)
bootstrap_owner(u, d, v) ==
  /\ users = {} /\ commits = {}
  /\ \A other \in Devices : owner[other] = NoUser
  /\ \A other \in Vaults : ~VaultExists(other)
  /\ users' = {u}
  /\ NewDevice(d, u)
  /\ NewVault(v, u)
  /\ UNCHANGED <<revoked, commits, corruptions>>

create_user(u) ==
  /\ u \notin users
  /\ users' = users \cup {u}
  /\ UNCHANGED <<owner, revoked, current, role, commits, corruptions>>

issue_device(u, d) ==
  /\ u \in users
  /\ NewDevice(d, u)
  /\ UNCHANGED <<users, revoked, current, role, commits, corruptions>>

issue_device_for_owner(token, u, v, d) ==
  /\ IsActive(token) /\ owner[token] = u
  /\ Authorized(token, v, "owner")
  /\ NewDevice(d, u)
  /\ UNCHANGED <<users, revoked, current, role, commits, corruptions>>

create_vault_for_owner(u, v) ==
  /\ u \in users
  /\ NewVault(v, u)
  /\ UNCHANGED <<users, owner, revoked, commits, corruptions>>

Owners(v) == {u \in Users : role[v][u] = "owner"}

(* Seeded fault: off by one. *)
AnotherOwnerMutant(v) == Cardinality(Owners(v)) > 0
AnotherOwner(v) == Cardinality(Owners(v)) > 1

(* Both member operations keep the last owner. *)
grant_member(token, v, u, newRole) ==
  /\ Authorized(token, v, "owner")
  /\ u \in users
  /\ role[v][u] = "owner" /\ newRole # "owner" => AnotherOwner(v)
  /\ role' = [role EXCEPT ![v][u] = newRole]
  /\ UNCHANGED <<users, owner, revoked, current, commits, corruptions>>

revoke_member(token, v, u) ==
  /\ Authorized(token, v, "owner")
  /\ role[v][u] # "none"
  /\ role[v][u] = "owner" => AnotherOwner(v)
  /\ role' = [role EXCEPT ![v][u] = "none"]
  /\ UNCHANGED <<users, owner, revoked, current, commits, corruptions>>

(* A device revokes a device of the same user. *)
revoke_device(token, d) ==
  /\ IsActive(token)
  /\ owner[d] = owner[token] /\ d \notin revoked
  /\ revoked' = revoked \cup {d}
  /\ UNCHANGED <<users, owner, current, role, commits, corruptions>>

-----------------------------------------------------------------------------
(* Commits. *)

(* Seeded fault: IDs are not looked up. *)
RowsOfMutant(v, operation) == {}
RowsOf(v, operation) ==
  {row \in commits : row.vault = v /\ row.operation_id = operation}

AppliedCommit(row) ==
  [operation_id |-> row.operation_id, expected_revision |-> row.expected_revision,
   payload_digest |-> row.payload_digest, applied_revision |-> row.applied_revision]

CommitRequest(operation, expected, payload) ==
  [operation_id |-> operation, expected_revision |-> expected,
   payload_digest |-> digest(payload)]

(* Seeded fault: the bytes that are stored are not compared with their     *)
(* digest.                                                                 *)
DecisionForMutant(v, operation, expected, payload) ==
  LET rows == RowsOf(v, operation)
  IN decide_commit(current[v],
       IF rows = {} THEN NoCommit ELSE AppliedCommit(CHOOSE row \in rows : TRUE),
       CommitRequest(operation, expected, payload))

(* The transaction of commit_inner after its authorization: what it        *)
(* decides.  A stored packet that does not have its digest any more is an  *)
(* error, whatever the request.                                            *)
DecisionFor(v, operation, expected, payload) ==
  LET rows == RowsOf(v, operation)
      request == CommitRequest(operation, expected, payload)
  IN IF rows = {}
       THEN decide_commit(current[v], NoCommit, request)
       ELSE LET row == CHOOSE row \in rows : TRUE
            IN IF Intact(row)
                 THEN decide_commit(current[v], AppliedCommit(row), request)
                 ELSE Decision("InconsistentState", 0)

(* Seeded fault: the revision without its row. *)
StoreCommitMutant(v, operation, expected, payload, revision) ==
  /\ current' = [current EXCEPT ![v] = revision]
  /\ UNCHANGED commits

(* What it stores: the row and the revision, together. *)
StoreCommit(v, operation, expected, payload, revision) ==
  /\ commits' = commits \cup
       {[vault |-> v, operation_id |-> operation, expected_revision |-> expected,
         applied_revision |-> revision, payload_digest |-> digest(payload),
         payload |-> payload]}
  /\ current' = [current EXCEPT ![v] = revision]

Commit(token, v, operation, expected, payload) ==
  LET decision == DecisionFor(v, operation, expected, payload)
  IN /\ Authorized(token, v, "writer")
     /\ VaultExists(v)
     /\ decision.kind = "Apply"
     /\ StoreCommit(v, operation, expected, payload, decision.revision)
     /\ UNCHANGED <<access, corruptions>>

(* The disk changes the bytes of a stored packet. *)
Corrupt(row, payload) ==
  /\ corruptions < MaxCorruptions
  /\ corruptions' = corruptions + 1
  /\ row \in commits
  /\ payload # row.payload
  /\ commits' = (commits \ {row}) \cup {[row EXCEPT !.payload = payload]}
  /\ UNCHANGED <<access, current>>

AccessStep ==
  \/ \E u \in Users, d \in Devices, v \in Vaults : bootstrap_owner(u, d, v)
  \/ \E u \in Users : create_user(u)
  \/ \E u \in Users, d \in Devices : issue_device(u, d)
  \/ \E token, d \in Devices, u \in Users, v \in Vaults :
       issue_device_for_owner(token, u, v, d)
  \/ \E u \in Users, v \in Vaults : create_vault_for_owner(u, v)
  \/ \E token \in Devices, v \in Vaults, u \in Users, r \in Roles \ {"none"} :
       grant_member(token, v, u, r)
  \/ \E token \in Devices, v \in Vaults, u \in Users : revoke_member(token, v, u)
  \/ \E token, d \in Devices : revoke_device(token, d)

CommitStep ==
  \E token \in Devices, v \in Vaults, operation \in Operations,
     expected \in Revisions, payload \in Payloads :
    Commit(token, v, operation, expected, payload)

CorruptStep == \E row \in commits, payload \in Payloads : Corrupt(row, payload)

Next == AccessStep \/ CommitStep \/ CorruptStep

Spec == Init /\ [][Next]_vars

-----------------------------------------------------------------------------
(* Properties. *)

(* Every variable has the type of its columns, and rows refer to rows. *)
TypeOK ==
  /\ users \subseteq Users
  /\ owner \in [Devices -> Users \cup {NoUser}]
  /\ \A d \in Devices : owner[d] # NoUser => owner[d] \in users
  /\ revoked \subseteq Devices
  /\ current \in [Vaults -> Revisions \cup {NoVault}]
  /\ role \in [Vaults -> [Users -> Roles]]
  /\ \A v \in Vaults, u \in Users :
       role[v][u] # "none" => VaultExists(v) /\ u \in users
  /\ commits \subseteq Rows
  /\ corruptions \in Nat

(* The constraints of table commits hold without SQLite enforcing them:    *)
(* its primary key, the unique revision, and applied = expected + 1.       *)
SchemaHolds ==
  /\ \A row \in commits : row.applied_revision = row.expected_revision + 1
  /\ \A row, other \in commits :
       /\ row.vault = other.vault
       /\ \/ row.operation_id = other.operation_id
          \/ row.applied_revision = other.applied_revision
       => row = other

(* The history of a vault has no gap and no revision beyond the current    *)
(* one: a device that pulls from any revision finds every packet up to the *)
(* head it was told ("a confirmed revision must not refer to missing       *)
(* data", docs/REVISION_CONTRACT.md).                                      *)
HistoryIsContiguous ==
  /\ \A row \in commits :
       row.applied_revision >= 1 /\ row.applied_revision <= current[row.vault]
  /\ \A v \in Vaults : \A r \in Revisions :
       r >= 1 /\ r <= current[v] =>
         \E row \in commits : row.vault = v /\ row.applied_revision = r

(* No vault is left without an owner, in whatever order owners demote and  *)
(* remove one another (ensure_another_owner).                              *)
VaultHasOwner ==
  \A v \in Vaults : VaultExists(v) => \E u \in users : role[v][u] = "owner"
=============================================================================
