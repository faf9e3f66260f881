---------------------------- MODULE StoreProofs ----------------------------
(***************************************************************************)
(* Proofs about Store, for every number of users, devices, vaults,         *)
(* operations and packets, and for every highest revision.                 *)
(***************************************************************************)
EXTENDS Store, FiniteSetTheorems, TLAPS

-----------------------------------------------------------------------------
(* The commit rule. *)

(* A stored operation is never applied again, whatever is sent under its   *)
(* ID (decide_commit).                                                     *)
LEMMA StoredNeverApplies ==
  ASSUME NEW cur, NEW previous, NEW request
  PROVE  DecideStored(cur, previous, request).kind # "Apply"
  BY DEF DecideStored, Decision

(* A new operation is applied only at the revision it expects, as the next *)
(* one, and only below the highest revision (decide_commit).               *)
LEMMA NewApplies ==
  ASSUME NEW cur \in Revisions, NEW request,
         decide_commit(cur, NoCommit, request).kind = "Apply"
  PROVE  /\ request.expected_revision = cur
         /\ cur # MAX_REVISION
         /\ decide_commit(cur, NoCommit, request).revision = cur + 1
  BY MaxRevisionAssumption DEF decide_commit, DecideNew, Decision, Revisions

(* What the write transaction applies is a new operation, stored as the    *)
(* revision after the current one (commit_inner).                          *)
LEMMA AppliedIsNext ==
  ASSUME TypeOK, NEW v \in Vaults, VaultExists(v), NEW operation \in Operations,
         NEW expected \in Revisions, NEW payload \in Payloads,
         DecisionFor(v, operation, expected, payload).kind = "Apply"
  PROVE  /\ RowsOf(v, operation) = {}
         /\ expected = current[v]
         /\ current[v] \in Revisions
         /\ current[v] + 1 \in Revisions
         /\ DecisionFor(v, operation, expected, payload).revision = current[v] + 1
<1> DEFINE rows == RowsOf(v, operation)
           request == CommitRequest(operation, expected, payload)
<1>1. current[v] \in Revisions
  BY DEF TypeOK, VaultExists
<1>2. CASE rows # {}
  <2> DEFINE row == CHOOSE row \in rows : TRUE
  <2>1. row \in rows
    BY <1>2
  <2>2. row \in Rows
    BY <2>1 DEF RowsOf, TypeOK
  <2>3. AppliedCommit(row) # NoCommit
    <3>1. AppliedCommit(row).applied_revision # -1
      BY <2>2, MaxRevisionAssumption DEF AppliedCommit, Rows, Revisions
    <3> QED
      BY <3>1 DEF NoCommit
  <2>4. decide_commit(current[v], AppliedCommit(row), request).kind # "Apply"
    BY <2>3, StoredNeverApplies DEF decide_commit, Decision
  <2>5. DecisionFor(v, operation, expected, payload) =
          IF Intact(row) THEN decide_commit(current[v], AppliedCommit(row), request)
                         ELSE Decision("InconsistentState", 0)
    BY <1>2 DEF DecisionFor
  <2> QED
    BY <2>4, <2>5 DEF Decision
<1>3. CASE rows = {}
  <2>1. DecisionFor(v, operation, expected, payload) =
          decide_commit(current[v], NoCommit, request)
    BY <1>3 DEF DecisionFor
  <2>2. request.expected_revision = expected
    BY DEF CommitRequest
  <2> QED
    BY <1>1, <1>3, <2>1, <2>2, NewApplies, MaxRevisionAssumption DEF Revisions
<1> QED
  BY <1>2, <1>3

-----------------------------------------------------------------------------
(* Types and references between rows. *)

LEMMA TypeInit == Init => TypeOK
  BY StoreAssumption, MaxRevisionAssumption
  DEF Init, TypeOK, NoVault, VaultExists, Roles, Revisions, Rows

(* An upload adds one row of the right type and changes one revision.      *)
LEMMA TypeCommit ==
  ASSUME TypeOK, NEW token \in Devices, NEW v \in Vaults,
         NEW operation \in Operations, NEW expected \in Revisions,
         NEW payload \in Payloads, Commit(token, v, operation, expected, payload)
  PROVE  TypeOK'
<1> DEFINE revision == DecisionFor(v, operation, expected, payload).revision
           row == [vault |-> v, operation_id |-> operation,
                   expected_revision |-> expected, applied_revision |-> revision,
                   payload_digest |-> digest(payload), payload |-> payload]
<1>1. revision \in Revisions
  BY AppliedIsNext DEF Commit
<1>2. commits' = commits \cup {row} /\ current' = [current EXCEPT ![v] = revision]
  BY DEF Commit, StoreCommit
<1>3. row \in Rows
  BY <1>1 DEF Rows, digest
<1>4. commits' \subseteq Rows /\ current' \in [Vaults -> Revisions \cup {NoVault}]
  BY <1>1, <1>2, <1>3 DEF TypeOK
<1>5. \A w \in Vaults : VaultExists(w) => VaultExists(w)'
  BY <1>1, <1>2, MaxRevisionAssumption DEF TypeOK, VaultExists, NoVault, Revisions
<1>6. UNCHANGED <<users, owner, revoked, role, corruptions>>
  BY DEF Commit, access
<1> QED
  BY <1>4, <1>5, <1>6 DEF TypeOK

LEMMA TypeStep == TypeOK /\ [Next]_vars => TypeOK'
<1> SUFFICES ASSUME TypeOK, [Next]_vars
             PROVE  TypeOK'
  OBVIOUS
<1> USE MaxRevisionAssumption, StoreAssumption
<1>1. ASSUME NEW u \in Users, NEW d \in Devices, NEW v \in Vaults,
             bootstrap_owner(u, d, v)
      PROVE  TypeOK'
  BY <1>1 DEF bootstrap_owner, NewDevice, NewVault, VaultExists, TypeOK,
              Roles, NoVault, Revisions
<1>2. ASSUME NEW u \in Users, create_user(u)
      PROVE  TypeOK'
  BY <1>2 DEF create_user, TypeOK, VaultExists
<1>3. ASSUME NEW u \in Users, NEW d \in Devices, issue_device(u, d)
      PROVE  TypeOK'
  BY <1>3 DEF issue_device, NewDevice, TypeOK, VaultExists
<1>4. ASSUME NEW token \in Devices, NEW d \in Devices, NEW u \in Users,
             NEW v \in Vaults, issue_device_for_owner(token, u, v, d)
      PROVE  TypeOK'
  BY <1>4 DEF issue_device_for_owner, IsActive, NewDevice, TypeOK, VaultExists
<1>5. ASSUME NEW u \in Users, NEW v \in Vaults, create_vault_for_owner(u, v)
      PROVE  TypeOK'
  BY <1>5 DEF create_vault_for_owner, NewVault, TypeOK, VaultExists, Roles,
              NoVault, Revisions
<1>6. ASSUME NEW token \in Devices, NEW v \in Vaults, NEW u \in Users,
             NEW r \in Roles \ {"none"}, grant_member(token, v, u, r)
      PROVE  TypeOK'
  <2>1. VaultExists(v)
    BY <1>6 DEF grant_member, Authorized, IsActive, Sufficient, TypeOK
  <2> QED
    BY <1>6, <2>1 DEF grant_member, TypeOK, VaultExists
<1>7. ASSUME NEW token \in Devices, NEW v \in Vaults, NEW u \in Users,
             revoke_member(token, v, u)
      PROVE  TypeOK'
  BY <1>7 DEF revoke_member, TypeOK, VaultExists, Roles
<1>8. ASSUME NEW token \in Devices, NEW d \in Devices, revoke_device(token, d)
      PROVE  TypeOK'
  BY <1>8 DEF revoke_device, TypeOK, VaultExists
<1>9. ASSUME CommitStep
      PROVE  TypeOK'
  BY <1>9, TypeCommit DEF CommitStep
<1>10. ASSUME NEW row \in commits, NEW payload \in Payloads, Corrupt(row, payload)
       PROVE  TypeOK'
  <2>1. [row EXCEPT !.payload = payload] \in Rows
    BY <1>10 DEF TypeOK, Rows
  <2> QED
    BY <1>10, <2>1 DEF Corrupt, access, TypeOK, VaultExists
<1>11. CASE UNCHANGED vars
  BY <1>11 DEF vars, TypeOK, VaultExists
<1> QED
  BY <1>1, <1>2, <1>3, <1>4, <1>5, <1>6, <1>7, <1>8, <1>9, <1>10, <1>11
  DEF Next, AccessStep, CorruptStep

(* Every database the server can reach is well formed: values of the       *)
(* columns' types, and rows that refer to existing rows.                   *)
THEOREM TypeCorrect == Spec => []TypeOK
<1>1. Init => TypeOK
  BY TypeInit
<1>2. TypeOK /\ [Next]_vars => TypeOK'
  BY TypeStep
<1> QED
  BY <1>1, <1>2, PTL DEF Spec

-----------------------------------------------------------------------------
(* The history. *)

History == SchemaHolds /\ HistoryIsContiguous

LEMMA HistoryInit == Init => History
  BY MaxRevisionAssumption
  DEF Init, History, SchemaHolds, HistoryIsContiguous, NoVault, Revisions

(* The new row is the only one at its revision, because no stored row is   *)
(* above the current one, and the only one with its operation.             *)
LEMMA HistoryCommit ==
  ASSUME TypeOK, History, NEW token \in Devices, NEW v \in Vaults,
         NEW operation \in Operations, NEW expected \in Revisions,
         NEW payload \in Payloads, Commit(token, v, operation, expected, payload)
  PROVE  History'
<1> DEFINE next == current[v] + 1
           row == [vault |-> v, operation_id |-> operation,
                   expected_revision |-> expected, applied_revision |-> next,
                   payload_digest |-> digest(payload), payload |-> payload]
<1>1. /\ RowsOf(v, operation) = {} /\ expected = current[v]
      /\ current[v] \in Revisions /\ next \in Revisions
      /\ DecisionFor(v, operation, expected, payload).revision = next
  BY AppliedIsNext DEF Commit
<1>2. commits' = commits \cup {row} /\ current' = [current EXCEPT ![v] = next]
  BY <1>1 DEF Commit, StoreCommit
<1>3. \A old \in commits : old \in Rows
  BY DEF TypeOK
<1>4. \A w \in Vaults : current'[w] = IF w = v THEN next ELSE current[w]
  BY <1>2 DEF TypeOK
<1>5. \A old \in commits : old.vault = v =>
        old.operation_id # operation /\ old.applied_revision < next
  <2>1. \A old \in commits : old.vault = v => old.operation_id # operation
    BY <1>1 DEF RowsOf
  <2>2. \A old \in commits : old.vault = v => old.applied_revision <= current[v]
    BY DEF History, HistoryIsContiguous
  <2> QED
    BY <1>1, <1>3, <2>1, <2>2, MaxRevisionAssumption DEF Rows, Revisions
<1>6. SchemaHolds'
  <2>1. \A r \in commits' : r.applied_revision = r.expected_revision + 1
    BY <1>1, <1>2 DEF History, SchemaHolds
  <2>2. ASSUME NEW r \in commits', NEW other \in commits', r.vault = other.vault,
               \/ r.operation_id = other.operation_id
               \/ r.applied_revision = other.applied_revision
        PROVE  r = other
    <3>1. CASE r \in commits /\ other \in commits
      BY <2>2, <3>1 DEF History, SchemaHolds
    <3>2. CASE r = row /\ other = row
      BY <3>2
    <3>3. CASE r \in commits /\ other = row
      BY <1>1, <1>3, <1>5, <2>2, <3>3, MaxRevisionAssumption DEF Rows, Revisions
    <3>4. CASE r = row /\ other \in commits
      BY <1>1, <1>3, <1>5, <2>2, <3>4, MaxRevisionAssumption DEF Rows, Revisions
    <3> QED
      BY <1>2, <3>1, <3>2, <3>3, <3>4
  <2> QED
    BY <2>1, <2>2 DEF SchemaHolds
<1>7. HistoryIsContiguous'
  <2>1. ASSUME NEW r \in commits'
        PROVE  r.applied_revision >= 1 /\ r.applied_revision <= current'[r.vault]
    <3>1. CASE r = row
      BY <1>1, <1>4, <3>1, MaxRevisionAssumption DEF Revisions
    <3>2. CASE r \in commits
      <4>1. r \in Rows /\ r.applied_revision >= 1
            /\ r.applied_revision <= current[r.vault]
        BY <1>3, <3>2 DEF History, HistoryIsContiguous
      <4>2. CASE r.vault = v
        <5>1. current'[r.vault] = next
          BY <1>4, <4>2
        <5>2. r.applied_revision < next
          BY <1>5, <3>2, <4>2
        <5>3. r.applied_revision \in Int /\ next \in Int
          BY <1>1, <4>1, MaxRevisionAssumption DEF Rows, Revisions
        <5> QED
          BY <4>1, <5>1, <5>2, <5>3
      <4>3. CASE r.vault # v
        <5>1. current'[r.vault] = current[r.vault]
          BY <1>4, <4>1, <4>3 DEF Rows
        <5> QED
          BY <4>1, <5>1
      <4> QED
        BY <4>2, <4>3
    <3> QED
      BY <1>2, <3>1, <3>2
  <2>2. ASSUME NEW w \in Vaults, NEW r \in Revisions, r >= 1, r <= current'[w]
        PROVE  \E old \in commits' : old.vault = w /\ old.applied_revision = r
    <3>1. CASE w = v /\ r = next
      <4>1. row \in commits' /\ row.vault = v /\ row.applied_revision = next
        BY <1>2
      <4> QED
        BY <3>1, <4>1
    <3>2. CASE ~(w = v /\ r = next)
      <4>1. r <= current[w]
        BY <1>1, <1>4, <2>2, <3>2, MaxRevisionAssumption DEF Revisions
      <4> QED
        BY <1>2, <2>2, <4>1 DEF History, HistoryIsContiguous
    <3> QED
      BY <3>1, <3>2
  <2> QED
    BY <2>1, <2>2 DEF HistoryIsContiguous
<1> QED
  BY <1>6, <1>7 DEF History

(* A new vault starts with an empty history. *)
LEMMA HistoryNewVault ==
  ASSUME TypeOK, History, NEW v \in Vaults, ~VaultExists(v),
         current' = [current EXCEPT ![v] = 0], UNCHANGED commits
  PROVE  History'
<1>1. \A w \in Vaults : current'[w] = IF w = v THEN 0 ELSE current[w]
  BY DEF TypeOK
<1>2. \A row \in commits : row.vault # v
  BY MaxRevisionAssumption
  DEF TypeOK, History, HistoryIsContiguous, VaultExists, NoVault, Rows, Revisions
<1>3. SchemaHolds'
  BY DEF History, SchemaHolds
<1>4. HistoryIsContiguous'
  BY <1>1, <1>2, MaxRevisionAssumption
  DEF TypeOK, History, HistoryIsContiguous, Rows, Revisions
<1> QED
  BY <1>3, <1>4 DEF History

(* Damaged bytes leave the order of the history as it was. *)
LEMMA HistoryCorrupt ==
  ASSUME TypeOK, History, NEW row \in commits, NEW payload \in Payloads,
         Corrupt(row, payload)
  PROVE  History'
<1> DEFINE damaged == [row EXCEPT !.payload = payload]
<1>1. /\ commits' = (commits \ {row}) \cup {damaged}
      /\ UNCHANGED current
  BY DEF Corrupt
<1>2. /\ damaged.vault = row.vault
      /\ damaged.operation_id = row.operation_id
      /\ damaged.expected_revision = row.expected_revision
      /\ damaged.applied_revision = row.applied_revision
  BY DEF TypeOK, Rows
<1> HIDE DEF damaged
<1>3. SchemaHolds'
  <2>1. \A r \in commits' : r.applied_revision = r.expected_revision + 1
    BY <1>1, <1>2 DEF History, SchemaHolds
  <2>2. ASSUME NEW r \in commits', NEW other \in commits', r.vault = other.vault,
               \/ r.operation_id = other.operation_id
               \/ r.applied_revision = other.applied_revision
        PROVE  r = other
    <3>1. CASE r \in commits /\ other \in commits
      BY <2>2, <3>1 DEF History, SchemaHolds
    <3>2. CASE r = damaged /\ other = damaged
      BY <3>2
    <3>3. CASE r \in commits \ {row} /\ other = damaged
      <4>1. r = row
        BY <1>2, <2>2, <3>3 DEF History, SchemaHolds
      <4> QED
        BY <3>3, <4>1
    <3>4. CASE r = damaged /\ other \in commits \ {row}
      <4>1. other = row
        BY <1>2, <2>2, <3>4 DEF History, SchemaHolds
      <4> QED
        BY <3>4, <4>1
    <3> QED
      BY <1>1, <3>1, <3>2, <3>3, <3>4
  <2> QED
    BY <2>1, <2>2 DEF SchemaHolds
<1>4. HistoryIsContiguous'
  <2>1. ASSUME NEW r \in commits'
        PROVE  r.applied_revision >= 1 /\ r.applied_revision <= current'[r.vault]
    BY <1>1, <1>2 DEF History, HistoryIsContiguous
  <2>2. ASSUME NEW w \in Vaults, NEW r \in Revisions, r >= 1, r <= current'[w]
        PROVE  \E old \in commits' : old.vault = w /\ old.applied_revision = r
    <3>1. PICK old \in commits : old.vault = w /\ old.applied_revision = r
      BY <1>1, <2>2 DEF History, HistoryIsContiguous
    <3>2. CASE old = row
      BY <1>1, <1>2, <3>1, <3>2
    <3>3. CASE old # row
      BY <1>1, <3>1, <3>3
    <3> QED
      BY <3>2, <3>3
  <2> QED
    BY <2>1, <2>2 DEF HistoryIsContiguous
<1> QED
  BY <1>3, <1>4 DEF History

LEMMA HistoryStep == TypeOK /\ History /\ [Next]_vars => History'
<1> SUFFICES ASSUME TypeOK, History, [Next]_vars
             PROVE  History'
  OBVIOUS
<1>1. ASSUME UNCHANGED <<current, commits>>
      PROVE  History'
  BY <1>1 DEF History, SchemaHolds, HistoryIsContiguous
<1>2. ASSUME AccessStep
      PROVE  History'
  <2>1. ASSUME NEW u \in Users, NEW d \in Devices, NEW v \in Vaults,
               bootstrap_owner(u, d, v)
        PROVE  History'
    BY <2>1, HistoryNewVault DEF bootstrap_owner, NewVault
  <2>2. ASSUME NEW u \in Users, NEW v \in Vaults, create_vault_for_owner(u, v)
        PROVE  History'
    BY <2>2, HistoryNewVault DEF create_vault_for_owner, NewVault
  <2> QED
    BY <1>1, <1>2, <2>1, <2>2
    DEF AccessStep, create_user, issue_device, issue_device_for_owner,
        grant_member, revoke_member, revoke_device
<1>3. ASSUME CommitStep
      PROVE  History'
  BY <1>3, HistoryCommit DEF CommitStep
<1>4. ASSUME CorruptStep
      PROVE  History'
  BY <1>4, HistoryCorrupt DEF CorruptStep
<1>5. CASE UNCHANGED vars
  BY <1>1, <1>5 DEF vars
<1> QED
  BY <1>2, <1>3, <1>4, <1>5 DEF Next

(* In every reachable database the history of every vault is complete and  *)
(* has no revision or operation twice.                                     *)
THEOREM HistoryCorrect == Spec => [](SchemaHolds /\ HistoryIsContiguous)
<1>1. Init => TypeOK /\ History
  BY TypeInit, HistoryInit
<1>2. TypeOK /\ History /\ [Next]_vars => TypeOK' /\ History'
  BY TypeStep, HistoryStep
<1>3. History => SchemaHolds /\ HistoryIsContiguous
  BY DEF History
<1> QED
  BY <1>1, <1>2, <1>3, PTL DEF Spec

-----------------------------------------------------------------------------
(* Owners. *)

LEMMA OwnerInit == Init => VaultHasOwner
  BY DEF Init, VaultHasOwner, VaultExists

(* ensure_another_owner counts: two owners are one besides any of them. *)
LEMMA AnotherOwnerExists ==
  ASSUME NEW v \in Vaults, NEW u \in Users, AnotherOwner(v)
  PROVE  \E other \in Users : other # u /\ role[v][other] = "owner"
<1> SUFFICES ASSUME \A other \in Users : role[v][other] = "owner" => other = u
             PROVE  FALSE
  OBVIOUS
<1>1. Owners(v) \subseteq {u}
  BY DEF Owners
<1>2. IsFiniteSet({u}) /\ Cardinality({u}) = 1
  BY FS_Singleton
<1>3. Cardinality(Owners(v)) <= 1 /\ Cardinality(Owners(v)) \in Nat
  BY <1>1, <1>2, FS_Subset, FS_CardinalityType
<1> QED
  BY <1>3 DEF AnotherOwner

LEMMA OwnerStep == TypeOK /\ VaultHasOwner /\ [Next]_vars => VaultHasOwner'
<1> SUFFICES ASSUME TypeOK, VaultHasOwner, [Next]_vars
             PROVE  VaultHasOwner'
  OBVIOUS
<1>1. ASSUME NEW u \in Users, NEW d \in Devices, NEW v \in Vaults,
             bootstrap_owner(u, d, v)
      PROVE  VaultHasOwner'
  BY <1>1 DEF bootstrap_owner, NewVault, TypeOK, VaultHasOwner, VaultExists, NoVault
<1>2. ASSUME NEW u \in Users, create_user(u)
      PROVE  VaultHasOwner'
  BY <1>2 DEF create_user, VaultHasOwner, VaultExists
<1>3. ASSUME NEW u \in Users, NEW v \in Vaults, create_vault_for_owner(u, v)
      PROVE  VaultHasOwner'
  BY <1>3 DEF create_vault_for_owner, NewVault, TypeOK, VaultHasOwner, VaultExists
<1>4. ASSUME NEW token \in Devices, NEW v \in Vaults, NEW u \in Users,
             NEW r \in Roles \ {"none"}, grant_member(token, v, u, r)
      PROVE  VaultHasOwner'
  <2>1. CASE role[v][u] = "owner" /\ r # "owner"
    <3>1. PICK other \in Users : other # u /\ role[v][other] = "owner"
      BY <1>4, <2>1, AnotherOwnerExists DEF grant_member
    <3>2. other \in users
      BY <3>1 DEF TypeOK
    <3> QED
      BY <1>4, <3>1, <3>2 DEF grant_member, TypeOK, VaultHasOwner, VaultExists
  <2>2. CASE ~(role[v][u] = "owner" /\ r # "owner")
    BY <1>4, <2>2 DEF grant_member, TypeOK, VaultHasOwner, VaultExists
  <2> QED
    BY <2>1, <2>2
<1>5. ASSUME NEW token \in Devices, NEW v \in Vaults, NEW u \in Users,
             revoke_member(token, v, u)
      PROVE  VaultHasOwner'
  <2>1. CASE role[v][u] = "owner"
    <3>1. PICK other \in Users : other # u /\ role[v][other] = "owner"
      BY <1>5, <2>1, AnotherOwnerExists DEF revoke_member
    <3>2. other \in users
      BY <3>1 DEF TypeOK
    <3> QED
      BY <1>5, <3>1, <3>2 DEF revoke_member, TypeOK, VaultHasOwner, VaultExists
  <2>2. CASE role[v][u] # "owner"
    BY <1>5, <2>2 DEF revoke_member, TypeOK, VaultHasOwner, VaultExists
  <2> QED
    BY <2>1, <2>2
<1>6. ASSUME CommitStep
      PROVE  VaultHasOwner'
  <2>1. PICK token \in Devices, v \in Vaults, operation \in Operations,
             expected \in Revisions, payload \in Payloads :
               Commit(token, v, operation, expected, payload)
    BY <1>6 DEF CommitStep
  <2>2. UNCHANGED <<users, role>> /\ \A w \in Vaults : VaultExists(w)' => VaultExists(w)
    BY <2>1 DEF Commit, StoreCommit, access, TypeOK, VaultExists
  <2> QED
    BY <2>2 DEF VaultHasOwner
<1>7. ASSUME UNCHANGED <<users, role, current>>
      PROVE  VaultHasOwner'
  BY <1>7 DEF VaultHasOwner, VaultExists
<1> QED
  BY <1>1, <1>2, <1>3, <1>4, <1>5, <1>6, <1>7
  DEF Next, AccessStep, CorruptStep, vars, access, issue_device,
      issue_device_for_owner, revoke_device, Corrupt

(* No order of grants and revocations leaves a vault without an owner. *)
THEOREM OwnersRemain == Spec => []VaultHasOwner
<1>1. Init => TypeOK /\ VaultHasOwner
  BY TypeInit, OwnerInit
<1>2. TypeOK /\ VaultHasOwner /\ [Next]_vars => TypeOK' /\ VaultHasOwner'
  BY TypeStep, OwnerStep
<1> QED
  BY <1>1, <1>2, PTL DEF Spec
=============================================================================
