----------------------------- MODULE ApiProofs -----------------------------
(***************************************************************************)
(* Proofs about Api, for every number of requests in progress, users,      *)
(* devices, vaults and operations: what holds of the server from an empty  *)
(* database on, and from one with a vault and its members.                 *)
(***************************************************************************)
EXTENDS Api, StoreProofs, SequenceTheorems

Calls == [request : Requests, phase : {"body", "hashed"}]

(* Requests in slots and replies have their types. *)
ApiTypeOK ==
  /\ TypeOK
  /\ slot \in [Slots -> [request : Requests, phase : {"body", "hashed"}] \cup {Free}]
  /\ \A a \in answered : a.request \in Requests
  /\ \A packet \in served : packet.vault \in Vaults /\ packet.payload \in Payloads
  /\ told \in [Vaults -> Revisions]

(* What has been hashed has passed the check of its expected revision.     *)
HashedInRange ==
  \A s \in Slots : slot[s] # Free /\ slot[s].phase = "hashed" =>
    slot[s].request.expected \in Revisions

ApiInv == ApiTypeOK /\ HashedInRange

LEMMA RequestTypes ==
  ASSUME NEW request \in Requests
  PROVE  /\ request.token \in Devices /\ request.vault \in Vaults
         /\ request.operation \in Operations /\ request.expected \in Nat
         /\ request.payload \in Payloads
  BY ApiAssumption

-----------------------------------------------------------------------------
(* The requests' steps on the database are transactions of the store.      *)

(* Who may write to a vault has a row for it, so the vault has one.        *)
LEMMA WriterHasVault ==
  ASSUME TypeOK, NEW token \in Devices, NEW v \in Vaults,
         Authorized(token, v, "writer")
  PROVE  VaultExists(v)
  BY DEF TypeOK, Authorized, IsActive, Sufficient

(* A write transaction that applies its upload is a commit of the store,   *)
(* though the upload was received, checked and hashed in steps before.     *)
LEMMA TransactIsStore ==
  ASSUME ApiInv, NEW s \in Slots, Transact(s)
  PROVE  CommitStep \/ UNCHANGED vars
<1> DEFINE request == slot[s].request
           decision == DecisionOn(request)
<1>1. /\ request.token \in Devices /\ request.vault \in Vaults
      /\ request.operation \in Operations /\ request.payload \in Payloads
  BY RequestTypes DEF ApiInv, ApiTypeOK, Transact
<1>2. request.expected \in Revisions
  BY DEF ApiInv, HashedInRange, Transact
<1>3. UNCHANGED <<access, corruptions>>
  BY DEF Transact
<1>4. CASE StillAllowed(request) /\ decision.kind = "Apply"
  <2>1. StoreCommit(request.vault, request.operation, request.expected,
                    request.payload, decision.revision)
    BY <1>4 DEF Transact
  <2>2. Authorized(request.token, request.vault, "writer")
    BY <1>4 DEF StillAllowed, MayWrite
  <2>3. VaultExists(request.vault)
    BY <1>1, <2>2, WriterHasVault DEF ApiInv, ApiTypeOK
  <2>4. Commit(request.token, request.vault, request.operation, request.expected,
               request.payload)
    BY <1>3, <1>4, <2>1, <2>2, <2>3 DEF Commit, DecisionOn
  <2> QED
    BY <1>1, <1>2, <2>4 DEF CommitStep
<1>5. CASE ~(StillAllowed(request) /\ decision.kind = "Apply")
  <2>1. UNCHANGED <<commits, current>>
    BY <1>5 DEF Transact
  <2> QED
    BY <1>3, <2>1 DEF vars, access
<1> QED
  BY <1>4, <1>5

LEMMA ApiStepIsStoreStep == ApiInv /\ [ApiNext]_apiVars => [Next]_vars
<1> SUFFICES ASSUME ApiInv, [ApiNext]_apiVars
             PROVE  Next \/ UNCHANGED vars
  OBVIOUS
<1>1. CASE AccessStep \/ CorruptStep
  BY <1>1 DEF Next
<1>2. ASSUME NEW s \in Slots, Transact(s)
      PROVE  Next \/ UNCHANGED vars
  BY <1>2, TransactIsStore DEF Next
<1>3. ASSUME NEW s \in Slots,
             \/ \E request \in Requests : Receive(s, request)
             \/ HashBody(s) \/ Abandon(s)
      PROVE  UNCHANGED vars
  BY <1>3 DEF Receive, HashBody, Abandon
<1>4. ASSUME NEW token \in Readers, NEW v \in Vaults,
             \/ \E revision \in Revisions : ReadPacket(token, v, revision)
             \/ ReadHead(token, v)
      PROVE  UNCHANGED vars
  BY <1>4 DEF ReadPacket, ReadHead
<1>5. CASE UNCHANGED apiVars
  BY <1>5 DEF apiVars
<1> QED
  BY <1>1, <1>2, <1>3, <1>4, <1>5 DEF ApiNext

-----------------------------------------------------------------------------
(* Types. *)

LEMMA ApiTypeStart ==
  /\ ApiInit => ApiInv
  /\ ServerInit => ApiInv
<1>1. ApiStart => (TypeOK => ApiInv)
  BY MaxRevisionAssumption
  DEF ApiStart, ApiInv, ApiTypeOK, HashedInRange, Revisions
<1>2. ApiInit => TypeOK
  BY ApiAssumption, StoreAssumption, MaxRevisionAssumption
  DEF ApiInit, TypeOK, VaultExists, NoVault, Roles, Revisions, Rows
<1> QED
  BY <1>1, <1>2, TypeInit DEF ApiInit, ServerInit

(* A reply that leaves the slot free. *)
LEMMA AnswerTypes ==
  ASSUME ApiInv, NEW s \in Slots, slot[s] # Free, NEW reply, Answer(s, reply)
  PROVE  /\ slot' \in [Slots -> Calls \cup {Free}]
         /\ HashedInRange'
         /\ \A a \in answered' : a.request \in Requests
<1>1. slot[s].request \in Requests
  BY DEF ApiInv, ApiTypeOK
<1>2. slot' = [slot EXCEPT ![s] = Free] /\ slot \in [Slots -> Calls \cup {Free}]
  BY DEF Answer, ApiInv, ApiTypeOK, Calls
<1>3. HashedInRange'
  BY <1>2 DEF ApiInv, HashedInRange
<1>4. \A a \in answered' : a \in answered \/ a.request = slot[s].request
  BY DEF Answer
<1> QED
  BY <1>1, <1>2, <1>3, <1>4 DEF ApiInv, ApiTypeOK

LEMMA ApiTypeStep == ApiInv /\ [ApiNext]_apiVars => ApiInv'
<1> SUFFICES ASSUME ApiInv, [ApiNext]_apiVars
             PROVE  ApiInv'
  OBVIOUS
<1>1. TypeOK'
  BY ApiStepIsStoreStep, TypeStep DEF ApiInv, ApiTypeOK
<1>2. slot \in [Slots -> Calls \cup {Free}] /\ told \in [Vaults -> Revisions]
  BY DEF ApiInv, ApiTypeOK, Calls
<1> DEFINE Kept == /\ slot' \in [Slots -> Calls \cup {Free}]
                   /\ HashedInRange'
                   /\ \A a \in answered' : a.request \in Requests
           Given == /\ \A packet \in served' :
                         packet.vault \in Vaults /\ packet.payload \in Payloads
                    /\ told' \in [Vaults -> Revisions]
<1>3. ASSUME UNCHANGED <<slot, answered>>
      PROVE  Kept
  BY <1>2, <1>3 DEF ApiInv, ApiTypeOK, HashedInRange
<1>4. ASSUME UNCHANGED <<served, told>>
      PROVE  Given
  BY <1>2, <1>4 DEF ApiInv, ApiTypeOK
<1>5. ASSUME NEW s \in Slots, NEW request \in Requests, Receive(s, request)
      PROVE  Kept
  <2>1. slot' = [slot EXCEPT ![s] = Call(request, "body")] /\ UNCHANGED answered
    BY <1>5 DEF Receive
  <2>2. Call(request, "body") \in Calls /\ Call(request, "body").phase = "body"
    BY DEF Call, Calls
  <2>3. slot' \in [Slots -> Calls \cup {Free}]
    BY <1>2, <2>1, <2>2
  <2>4. HashedInRange'
    BY <1>2, <2>1, <2>2 DEF ApiInv, HashedInRange
  <2> QED
    BY <2>1, <2>3, <2>4 DEF ApiInv, ApiTypeOK
<1>6. ASSUME NEW s \in Slots, HashBody(s)
      PROVE  Kept
  <2>1. CASE \E reply : Answer(s, reply)
    BY <1>6, <2>1, AnswerTypes DEF HashBody
  <2>2. CASE /\ slot[s].request.expected <= MAX_REVISION
             /\ slot' = [slot EXCEPT ![s].phase = "hashed"]
             /\ UNCHANGED answered
    <3>1. slot[s] \in Calls
      BY <1>2, <1>6 DEF HashBody
    <3> DEFINE call == [slot[s] EXCEPT !.phase = "hashed"]
    <3>2. slot' = [slot EXCEPT ![s] = call]
      BY <2>2
    <3>3. call \in Calls /\ call.request = slot[s].request
      BY <3>1 DEF Calls
    <3>4. call.request.expected \in Revisions
      BY <2>2, <3>1, <3>3, RequestTypes, MaxRevisionAssumption DEF Calls, Revisions
    <3> HIDE DEF call
    <3>5. HashedInRange'
      BY <1>2, <3>2, <3>4 DEF ApiInv, HashedInRange
    <3> QED
      BY <1>2, <2>2, <3>2, <3>3, <3>5 DEF ApiInv, ApiTypeOK
  <2> QED
    BY <1>6, <2>1, <2>2 DEF HashBody
<1>7. ASSUME NEW s \in Slots, Transact(s)
      PROVE  Kept
  <2>1. \E reply : Answer(s, reply)
    BY <1>7 DEF Transact
  <2> QED
    BY <1>7, <2>1, AnswerTypes DEF Transact
<1>8. ASSUME NEW s \in Slots, Abandon(s)
      PROVE  Kept
  BY <1>2, <1>8 DEF Abandon, ApiInv, ApiTypeOK, HashedInRange
<1>9. ASSUME NEW token \in Readers, NEW v \in Vaults, NEW revision \in Revisions,
             ReadPacket(token, v, revision)
      PROVE  Given
  BY <1>2, <1>9 DEF ReadPacket, ApiInv, ApiTypeOK, TypeOK, Rows
<1>10. ASSUME NEW token \in Readers, NEW v \in Vaults, ReadHead(token, v)
       PROVE  Given
  BY <1>2, <1>10 DEF ReadHead, ApiInv, ApiTypeOK, TypeOK, VaultExists
<1>11. Kept
  BY <1>3, <1>5, <1>6, <1>7, <1>8
  DEF ApiNext, api, apiVars, ReadPacket, ReadHead
<1>12. Given
  BY <1>4, <1>9, <1>10
  DEF ApiNext, api, apiVars, Receive, HashBody, Transact, Abandon
<1> QED
  BY <1>1, <1>11, <1>12 DEF ApiInv, ApiTypeOK, Calls

(* Requests, replies and what has been given out are well typed, and no    *)
(* request whose expected revision is out of range reaches the write       *)
(* transaction.                                                            *)
THEOREM ApiTypeCorrect == ApiSpec \/ ServerSpec => []ApiTypeOK
<1>1. (ApiInit \/ ServerInit) => ApiInv
  BY ApiTypeStart
<1>2. ApiInv /\ [ApiNext]_apiVars => ApiInv'
  BY ApiTypeStep
<1>3. ApiInv => ApiTypeOK
  BY DEF ApiInv
<1> QED
  BY <1>1, <1>2, <1>3, PTL DEF ApiSpec, ServerSpec

(* The server is the store: from an empty database on, all that concurrent *)
(* requests, broken connections and the operator do to it is a sequence of *)
(* the store's transactions.                                               *)
THEOREM ServerIsStore == ServerSpec => ImplementsStore
<1>1. ServerInit => ApiInv /\ Init
  BY ApiTypeStart DEF ServerInit
<1>2. ApiInv /\ [ApiNext]_apiVars => ApiInv'
  BY ApiTypeStep
<1>3. ApiInv /\ [ApiNext]_apiVars => [Next]_vars
  BY ApiStepIsStoreStep
<1> QED
  BY <1>1, <1>2, <1>3, PTL DEF ServerSpec, ImplementsStore, Spec

(* From an empty database on, no order of requests and administration      *)
(* breaks a constraint of the schema, leaves a gap in a history or a vault *)
(* without an owner.                                                       *)
THEOREM ServerKeepsSchema ==
  ServerSpec => [](SchemaHolds /\ HistoryIsContiguous /\ VaultHasOwner)
<1>1. ServerSpec => Spec
  BY ServerIsStore DEF ImplementsStore
<1> QED
  BY <1>1, HistoryCorrect, OwnersRemain, PTL

-----------------------------------------------------------------------------
(* What a step of the store does to the history, seen from outside.        *)

(* The same commit, whatever the disk did to its bytes.                    *)
SameCommit(row, other) ==
  /\ row.vault = other.vault
  /\ row.operation_id = other.operation_id
  /\ row.expected_revision = other.expected_revision
  /\ row.applied_revision = other.applied_revision
  /\ row.payload_digest = other.payload_digest

(* The commits before a step and after it are the same.                    *)
CommitsKept ==
  /\ \A row \in commits : \E other \in commits' : SameCommit(other, row)
  /\ \A row \in commits' : \E other \in commits : SameCommit(row, other)

(* A new commit of vault v at the next revision.                           *)
CommitAdded(v, row) ==
  /\ row \in Rows /\ row.vault = v
  /\ current[v] \in Revisions
  /\ row.expected_revision = current[v]
  /\ row.applied_revision = current[v] + 1
  /\ RowsOf(v, row.operation_id) = {}
  /\ commits' = commits \cup {row}
  /\ current' = [current EXCEPT ![v] = current[v] + 1]

LEMMA SameCommitReflexive == \A row : SameCommit(row, row)
  BY DEF SameCommit

(* A commit of the store adds a row, by the commit rule the next one.      *)
LEMMA CommitAdds ==
  ASSUME TypeOK, NEW token \in Devices, NEW v \in Vaults,
         NEW operation \in Operations, NEW expected \in Revisions,
         NEW payload \in Payloads, Commit(token, v, operation, expected, payload)
  PROVE  \E row : /\ CommitAdded(v, row) /\ row.operation_id = operation
                  /\ row.payload_digest = digest(payload)
<1> DEFINE next == current[v] + 1
           row == [vault |-> v, operation_id |-> operation,
                   expected_revision |-> expected, applied_revision |-> next,
                   payload_digest |-> digest(payload), payload |-> payload]
<1>1. /\ RowsOf(v, operation) = {} /\ expected = current[v]
      /\ current[v] \in Revisions /\ next \in Revisions
      /\ DecisionFor(v, operation, expected, payload).revision = next
  BY AppliedIsNext DEF Commit
<1>2. commits' = commits \cup {row} /\ current' = [current EXCEPT ![v] = next]
  BY <1>1 DEF Commit, StoreCommit
<1>3. row \in Rows
  BY <1>1 DEF Rows, digest
<1>4. CommitAdded(v, row)
  BY <1>1, <1>2, <1>3 DEF CommitAdded
<1> QED
  BY <1>4

(* Every step keeps the commits and the revisions of existing vaults, or   *)
(* adds a commit.                                                          *)
LEMMA StoreStepKinds ==
  ASSUME TypeOK, [Next]_vars
  PROVE  \/ /\ CommitsKept
            /\ \A v \in Vaults : current'[v] = current[v] \/ (~VaultExists(v) /\ current'[v] = 0)
         \/ \E v \in Vaults : \E row : CommitAdded(v, row)
<1> DEFINE Kept == /\ CommitsKept
                   /\ \A v \in Vaults :
                        current'[v] = current[v] \/ (~VaultExists(v) /\ current'[v] = 0)
<1>1. ASSUME UNCHANGED commits
      PROVE  CommitsKept
  BY <1>1, SameCommitReflexive DEF CommitsKept
<1>2. ASSUME UNCHANGED <<commits, current>>
      PROVE  Kept
  BY <1>1, <1>2
<1>3. ASSUME NEW v \in Vaults, NEW u \in Users, NewVault(v, u), UNCHANGED commits
      PROVE  Kept
  BY <1>1, <1>3 DEF NewVault, TypeOK
<1>4. CASE AccessStep
  BY <1>2, <1>3, <1>4
  DEF AccessStep, bootstrap_owner, create_user, issue_device, issue_device_for_owner,
      create_vault_for_owner, grant_member, revoke_member, revoke_device
<1>5. CASE CommitStep
  BY <1>5, CommitAdds DEF CommitStep
<1>6. ASSUME NEW row \in commits, NEW payload \in Payloads, Corrupt(row, payload)
      PROVE  Kept
  <2> DEFINE damaged == [row EXCEPT !.payload = payload]
  <2>1. SameCommit(damaged, row) /\ SameCommit(row, damaged)
    BY DEF TypeOK, Rows, SameCommit
  <2> HIDE DEF damaged
  <2>2. commits' = (commits \ {row}) \cup {damaged} /\ UNCHANGED current
    BY <1>6 DEF Corrupt, damaged
  <2>3. CommitsKept
    BY <2>1, <2>2, SameCommitReflexive DEF CommitsKept
  <2> QED
    BY <2>2, <2>3
<1> QED
  BY <1>2, <1>4, <1>5, <1>6 DEF Next, CorruptStep, vars

(* Rows stay, and revisions only grow.                                     *)
LEMMA HistoryGrows ==
  ASSUME TypeOK, [Next]_vars
  PROVE  /\ \A row \in commits : \E other \in commits' : SameCommit(other, row)
         /\ \A v \in Vaults : current[v] <= current'[v]
<1>1. \A v \in Vaults : current[v] \in Int
  BY MaxRevisionAssumption DEF TypeOK, Revisions, NoVault
<1>2. CASE /\ CommitsKept
           /\ \A v \in Vaults : current'[v] = current[v] \/ (~VaultExists(v) /\ current'[v] = 0)
  BY <1>1, <1>2 DEF CommitsKept, VaultExists, NoVault
<1>3. CASE \E v \in Vaults : \E row : CommitAdded(v, row)
  <2>0. PICK v \in Vaults : \E row : CommitAdded(v, row)
    BY <1>3
  <2>1. PICK row : CommitAdded(v, row)
    BY <2>0
  <2>2. commits' = commits \cup {row} /\ current' = [current EXCEPT ![v] = current[v] + 1]
    BY <2>1 DEF CommitAdded
  <2>3. \A w \in Vaults : current[w] <= current'[w]
    BY <1>1, <2>2 DEF TypeOK
  <2> QED
    BY <2>2, <2>3, SameCommitReflexive
<1> QED
  BY <1>2, <1>3, StoreStepKinds

-----------------------------------------------------------------------------
(* What readers are given. *)

(* The history of Store, under both of the server's initial databases.     *)
ReadInv == ApiInv /\ History

LEMMA ReadInvStart == ApiInit \/ ServerInit => ReadInv
<1>1. ApiInit => History
  BY ApiAssumption, MaxRevisionAssumption
  DEF ApiInit, History, SchemaHolds, HistoryIsContiguous, NoVault, Revisions
<1> QED
  BY <1>1, ApiTypeStart, HistoryInit DEF ReadInv, ServerInit

LEMMA ReadInvStep == ReadInv /\ [ApiNext]_apiVars => ReadInv'
  BY ApiTypeStep, ApiStepIsStoreStep, HistoryStep DEF ReadInv, ApiInv, ApiTypeOK

(* The heads that were told are not above the revisions. *)
ToldInRange == \A v \in Vaults : told[v] = 0 \/ told[v] <= current[v]

LEMMA ToldStep ==
  ASSUME ReadInv, ToldInRange, [ApiNext]_apiVars
  PROVE  ToldInRange'
<1>1. \A v \in Vaults : /\ told[v] \in Int /\ current[v] \in Int /\ current'[v] \in Int
                         /\ current[v] <= current'[v]
  <2>1. TypeOK' /\ [Next]_vars
    BY ApiTypeStep, ApiStepIsStoreStep DEF ReadInv, ApiInv, ApiTypeOK
  <2> QED
    BY <2>1, HistoryGrows, MaxRevisionAssumption
    DEF ReadInv, ApiInv, ApiTypeOK, TypeOK, Revisions, NoVault
<1>2. CASE UNCHANGED told
  BY <1>1, <1>2 DEF ToldInRange
<1>3. ASSUME NEW token \in Readers, NEW v \in Vaults, ReadHead(token, v)
      PROVE  ToldInRange'
  BY <1>1, <1>3 DEF ReadHead, ToldInRange, vars, ReadInv, ApiInv, ApiTypeOK
<1> QED
  BY <1>2, <1>3
  DEF ApiNext, api, apiVars, Receive, HashBody, Transact, Abandon, ReadPacket

LEMMA ToldIsStored == ReadInv /\ ToldInRange => HeadStays
<1> SUFFICES ASSUME ReadInv, ToldInRange, NEW v \in Vaults, NEW r \in 1 .. told[v]
             PROVE  /\ r <= current[v]
                    /\ \E row \in commits : row.vault = v /\ row.applied_revision = r
  BY DEF HeadStays, ReadInv, ApiInv, ApiTypeOK, Revisions
<1>1. told[v] \in Revisions /\ r \in Int /\ 1 <= r /\ r <= told[v]
  BY MaxRevisionAssumption DEF ReadInv, ApiInv, ApiTypeOK, Revisions
<1>2. r \in Revisions
  BY <1>1, MaxRevisionAssumption DEF Revisions
<1>3. current[v] \in Int
  BY MaxRevisionAssumption DEF ReadInv, ApiInv, ApiTypeOK, TypeOK, Revisions, NoVault
<1>4. r <= current[v]
  BY <1>1, <1>3, MaxRevisionAssumption DEF ToldInRange, Revisions
<1> QED
  BY <1>1, <1>2, <1>4 DEF ReadInv, History, HistoryIsContiguous

(* A head that was told is never taken back, and all packets up to it are  *)
(* there in every later state: a pull that begins with it can be finished, *)
(* whatever other devices, owners and the disk do in the meantime.         *)
THEOREM ToldHeadsStay == ApiSpec \/ ServerSpec => []HeadStays
<1>1. (ApiInit \/ ServerInit) => ReadInv /\ ToldInRange
  BY ReadInvStart DEF ApiInit, ServerInit, ApiStart, ToldInRange
<1>2. ReadInv /\ ToldInRange /\ [ApiNext]_apiVars => ReadInv' /\ ToldInRange'
  BY ReadInvStep, ToldStep
<1> QED
  BY <1>1, <1>2, ToldIsStored, PTL DEF ApiSpec, ServerSpec

(* A packet that was given out is what a commit stored under its revision. *)
ServedIsStored ==
  \A packet \in served : \E row \in commits :
    /\ row.vault = packet.vault /\ row.applied_revision = packet.revision
    /\ row.payload_digest = packet.payload

LEMMA ServedStep ==
  ASSUME ReadInv, ServedIsStored, [ApiNext]_apiVars
  PROVE  ServedIsStored'
<1>1. \A row \in commits : \E other \in commits' : SameCommit(other, row)
  BY ApiStepIsStoreStep, HistoryGrows DEF ReadInv, ApiInv, ApiTypeOK
<1>2. CASE UNCHANGED served
  BY <1>1, <1>2 DEF ServedIsStored, SameCommit
<1>3. ASSUME NEW token \in Readers, NEW v \in Vaults, NEW revision \in Revisions,
             ReadPacket(token, v, revision)
      PROVE  ServedIsStored'
  <2>1. UNCHANGED commits
    BY <1>3 DEF ReadPacket, vars
  <2>2. PICK row \in commits :
          /\ row.vault = v /\ row.applied_revision = revision
          /\ row.payload_digest = row.payload
          /\ served' = served \cup {[vault |-> v, revision |-> revision,
                                     payload |-> row.payload]}
    BY <1>3 DEF ReadPacket, Servable, Intact, digest
  <2> QED
    BY <2>1, <2>2 DEF ServedIsStored
<1> QED
  BY <1>2, <1>3
  DEF ApiNext, api, apiVars, Receive, HashBody, Transact, Abandon, ReadHead

(* All readers of a revision, at any time, are given the bytes of the one  *)
(* commit that made it, or none.                                           *)
THEOREM ReadersAgree == ApiSpec \/ ServerSpec => []ServedAsCommitted
<1>1. (ApiInit \/ ServerInit) => ReadInv /\ ServedIsStored
  BY ReadInvStart DEF ApiInit, ServerInit, ApiStart, ServedIsStored
<1>2. ReadInv /\ ServedIsStored /\ [ApiNext]_apiVars => ReadInv' /\ ServedIsStored'
  BY ReadInvStep, ServedStep
<1>3. ReadInv /\ ServedIsStored => ServedAsCommitted
  BY DEF ReadInv, History, SchemaHolds, ServedIsStored, ServedAsCommitted
<1> QED
  BY <1>1, <1>2, <1>3, PTL DEF ApiSpec, ServerSpec

-----------------------------------------------------------------------------
(* Who commits. *)

(* Seen from the request: what its transaction adds, if it adds anything.  *)
LEMMA TransactAdds ==
  ASSUME ApiInv, NEW s \in Slots, Transact(s), ~UNCHANGED vars
  PROVE  /\ Authorized(slot[s].request.token, slot[s].request.vault, "writer")
         /\ DecisionOn(slot[s].request).kind = "Apply"
         /\ DecisionOn(slot[s].request).revision = current[slot[s].request.vault] + 1
         /\ \E row : /\ CommitAdded(slot[s].request.vault, row)
                     /\ IsRowOf(row, slot[s].request)
         /\ Answer(s, CommitReply(DecisionOn(slot[s].request)))
<1> DEFINE request == slot[s].request
           decision == DecisionOn(request)
<1>1. /\ request.token \in Devices /\ request.vault \in Vaults
      /\ request.operation \in Operations /\ request.payload \in Payloads
  BY RequestTypes DEF ApiInv, ApiTypeOK, Transact
<1>2. request.expected \in Revisions
  BY DEF ApiInv, HashedInRange, Transact
<1>3. UNCHANGED <<access, corruptions>>
  BY DEF Transact
<1>4. StillAllowed(request) /\ decision.kind = "Apply"
  <2> SUFFICES ASSUME ~(StillAllowed(request) /\ decision.kind = "Apply")
               PROVE  FALSE
    OBVIOUS
  <2>1. UNCHANGED <<commits, current>>
    BY DEF Transact
  <2> QED
    BY <1>3, <2>1 DEF vars, access
<1>5. /\ StoreCommit(request.vault, request.operation, request.expected,
                     request.payload, decision.revision)
      /\ Answer(s, CommitReply(decision))
  BY <1>4 DEF Transact
<1>6. Authorized(request.token, request.vault, "writer")
  BY <1>4 DEF StillAllowed, MayWrite
<1>7. VaultExists(request.vault) /\ TypeOK
  BY <1>1, <1>6, WriterHasVault DEF ApiInv, ApiTypeOK
<1>8. Commit(request.token, request.vault, request.operation, request.expected,
             request.payload)
  BY <1>3, <1>4, <1>5, <1>6, <1>7 DEF Commit, DecisionOn
<1>9. PICK row : /\ CommitAdded(request.vault, row) /\ row.operation_id = request.operation
                 /\ row.payload_digest = digest(request.payload)
  BY <1>1, <1>2, <1>7, <1>8, CommitAdds
<1>10. request.expected = current[request.vault]
       /\ decision.revision = current[request.vault] + 1
  BY <1>1, <1>2, <1>4, <1>7, AppliedIsNext DEF DecisionOn
<1>11. IsRowOf(row, request)
  BY <1>9, <1>10 DEF IsRowOf, CommitAdded
<1> QED
  BY <1>4, <1>5, <1>6, <1>9, <1>10, <1>11

LEMMA WritersStep ==
  ASSUME ApiInv, [ApiNext]_apiVars, NEW v \in Vaults, VaultExists(v),
         current'[v] # current[v]
  PROVE  \E s \in Slots :
           /\ slot[s] # Free /\ slot[s].request.vault = v
           /\ Authorized(slot[s].request.token, v, "writer")
           /\ \E row \in commits' \ commits : IsRowOf(row, slot[s].request)
<1>1. ~UNCHANGED vars
  BY DEF vars
<1>2. ~AccessStep
  <2>1. ASSUME NEW w \in Vaults, NEW u \in Users, NewVault(w, u)
        PROVE  FALSE
    BY <2>1 DEF NewVault, ApiInv, ApiTypeOK, TypeOK
  <2> QED
    BY <2>1
    DEF AccessStep, bootstrap_owner, create_user, issue_device, issue_device_for_owner,
        create_vault_for_owner, grant_member, revoke_member, revoke_device
<1>3. ~CorruptStep
  BY DEF CorruptStep, Corrupt
<1>4. PICK s \in Slots : Transact(s)
  BY <1>1, <1>2, <1>3
  DEF ApiNext, apiVars, Receive, HashBody, Abandon, ReadPacket, ReadHead
<1>5. /\ slot[s] # Free
      /\ Authorized(slot[s].request.token, slot[s].request.vault, "writer")
  BY <1>1, <1>4, TransactAdds DEF Transact
<1>6. PICK row : CommitAdded(slot[s].request.vault, row) /\ IsRowOf(row, slot[s].request)
  BY <1>1, <1>4, TransactAdds
<1>7. slot[s].request.vault = v
  BY <1>6 DEF CommitAdded, ApiInv, ApiTypeOK, TypeOK
<1>8. row \in commits' \ commits
  BY <1>6 DEF CommitAdded, RowsOf
<1> QED
  BY <1>5, <1>6, <1>7, <1>8

(* A vault gets a new revision only in a request whose device may write to *)
(* it in that moment, and the revision is that request's packet, though    *)
(* devices and members are revoked between the checks of the request.      *)
THEOREM WritersCommit == ApiSpec \/ ServerSpec => OnlyWritersCommit
<1>1. (ApiInit \/ ServerInit) => ApiInv
  BY ApiTypeStart
<1>2. ApiInv /\ [ApiNext]_apiVars => ApiInv'
  BY ApiTypeStep
<1> DEFINE A == \A v \in Vaults : VaultExists(v) /\ current'[v] # current[v] =>
                  \E s \in Slots :
                    /\ slot[s] # Free /\ slot[s].request.vault = v
                    /\ Authorized(slot[s].request.token, v, "writer")
                    /\ \E row \in commits' \ commits : IsRowOf(row, slot[s].request)
<1>3. ApiInv /\ [ApiNext]_apiVars => [A]_apiVars
  BY WritersStep
<1> QED
  BY <1>1, <1>2, <1>3, PTL DEF ApiSpec, ServerSpec, OnlyWritersCommit

-----------------------------------------------------------------------------
(* What replies mean. *)

(* "replayed" is said of a stored commit, of that vault, operation,        *)
(* expected revision and packet, whose bytes are intact.                   *)
LEMMA ReplayIsStored ==
  ASSUME TypeOK, NEW v \in Vaults, NEW operation, NEW expected, NEW payload,
         DecisionFor(v, operation, expected, payload).kind = "Replay"
  PROVE  \E row \in commits :
           /\ row.vault = v /\ row.operation_id = operation
           /\ row.expected_revision = expected
           /\ row.payload_digest = digest(payload)
           /\ row.applied_revision = DecisionFor(v, operation, expected, payload).revision
           /\ Intact(row)
<1> DEFINE rows == RowsOf(v, operation)
           request == CommitRequest(operation, expected, payload)
           row == CHOOSE row \in rows : TRUE
           stored == AppliedCommit(row)
<1>1. rows # {}
  <2> SUFFICES ASSUME rows = {} PROVE FALSE
    OBVIOUS
  <2>1. DecisionFor(v, operation, expected, payload) =
          decide_commit(current[v], NoCommit, request)
    BY DEF DecisionFor
  <2>2. DecideNew(current[v], request).kind # "Replay"
    BY DEF DecideNew, Decision
  <2> QED
    BY <2>1, <2>2 DEF decide_commit, Decision
<1>2. row \in commits /\ row.vault = v /\ row.operation_id = operation
  BY <1>1 DEF RowsOf
<1>3. DecisionFor(v, operation, expected, payload) =
        IF Intact(row) THEN decide_commit(current[v], stored, request)
                       ELSE Decision("InconsistentState", 0)
  BY <1>1 DEF DecisionFor
<1>4. /\ DecisionFor(v, operation, expected, payload) =
           decide_commit(current[v], stored, request)
      /\ Intact(row)
  BY <1>3 DEF Decision
<1>5. DecideNew(current[v], request).kind # "Replay"
  BY DEF DecideNew, Decision
<1>6. DecisionFor(v, operation, expected, payload) = DecideStored(current[v], stored, request)
  BY <1>4, <1>5 DEF decide_commit, Decision
<1>7. DecideStored(current[v], stored, request).kind = "Replay"
  BY <1>6
<1>8. /\ SameRequest(stored, request)
      /\ DecideStored(current[v], stored, request).revision = stored.applied_revision
  BY <1>7 DEF DecideStored, Decision
<1>9. /\ row.expected_revision = expected /\ row.payload_digest = digest(payload)
      /\ row.applied_revision = DecideStored(current[v], stored, request).revision
  BY <1>8 DEF SameRequest, AppliedCommit, CommitRequest
<1> QED
  BY <1>2, <1>4, <1>6, <1>9

(* "conflict" is said of an operation that is not stored, and names the    *)
(* current revision, which is not the expected one.                        *)
LEMMA ConflictIsNew ==
  ASSUME TypeOK, NEW v \in Vaults, NEW operation, NEW expected, NEW payload,
         DecisionFor(v, operation, expected, payload).kind = "Conflict"
  PROVE  /\ RowsOf(v, operation) = {}
         /\ DecisionFor(v, operation, expected, payload).revision = current[v]
<1> DEFINE rows == RowsOf(v, operation)
           request == CommitRequest(operation, expected, payload)
<1>1. CASE rows # {}
  <2> DEFINE row == CHOOSE row \in rows : TRUE
  <2>1. row \in rows
    BY <1>1
  <2>2. row \in Rows
    BY <2>1 DEF RowsOf, TypeOK
  <2>3. AppliedCommit(row) # NoCommit
    <3>1. AppliedCommit(row).applied_revision # -1
      BY <2>2, MaxRevisionAssumption DEF AppliedCommit, Rows, Revisions
    <3> QED
      BY <3>1 DEF NoCommit
  <2>4. DecideStored(current[v], AppliedCommit(row), request).kind # "Conflict"
    BY DEF DecideStored, Decision
  <2>5. decide_commit(current[v], AppliedCommit(row), request).kind # "Conflict"
    BY <2>3, <2>4 DEF decide_commit, Decision
  <2>6. DecisionFor(v, operation, expected, payload) =
          IF Intact(row) THEN decide_commit(current[v], AppliedCommit(row), request)
                         ELSE Decision("InconsistentState", 0)
    BY <1>1 DEF DecisionFor
  <2> QED
    BY <2>5, <2>6 DEF Decision
<1>2. CASE rows = {}
  <2>1. DecisionFor(v, operation, expected, payload) =
          decide_commit(current[v], NoCommit, request)
    BY <1>2 DEF DecisionFor
  <2>2. decide_commit(current[v], NoCommit, request) = DecideNew(current[v], request)
    BY <2>1 DEF decide_commit, Decision
  <2>3. DecideNew(current[v], request).kind = "Conflict" =>
          DecideNew(current[v], request).revision = current[v]
    BY DEF DecideNew, Decision
  <2> QED
    BY <1>2, <2>1, <2>2, <2>3
<1> QED
  BY <1>1, <1>2

(* What the status and the result of a reply tell of the decision.         *)
LEMMA ReplyOfDecision ==
  ASSUME NEW decision
  PROVE  /\ CommitReply(decision).status = 201 =>
              decision.kind = "Apply" /\ CommitReply(decision).revision = decision.revision
         /\ CommitReply(decision).status = 200 =>
              decision.kind = "Replay" /\ CommitReply(decision).revision = decision.revision
         /\ CommitReply(decision).result = "conflict" =>
              decision.kind = "Conflict" /\ CommitReply(decision).revision = decision.revision
  BY DEF CommitReply, Reply

(* A remembered reply is an old one, or that of a write transaction: what  *)
(* is refused before it gets no reply that is remembered.                  *)
LEMMA NewReply ==
  ASSUME ApiInv, [ApiNext]_apiVars, NEW a \in answered', a \notin answered
  PROVE  \E s \in Slots :
           /\ Transact(s) /\ a.request = slot[s].request
           /\ StillAllowed(slot[s].request)
           /\ a.reply = CommitReply(DecisionOn(slot[s].request))
<1>1. answered' # answered
  OBVIOUS
<1>2. ASSUME NEW s \in Slots, NEW reply, Answer(s, reply)
      PROVE  a.request = slot[s].request /\ a.reply = reply /\ reply.status \in {200, 201, 409}
  BY <1>2 DEF Answer
<1>3. Unauthorized.status = 401
      /\ CommitReply(Decision("InvalidRevision", 0)).status = 400
  BY DEF Unauthorized, CommitReply, Decision, Reply
<1>4. ~\E s \in Slots : HashBody(s)
  BY <1>1, <1>2, <1>3 DEF HashBody
<1>5. PICK s \in Slots : Transact(s)
  BY <1>1, <1>4
  DEF ApiNext, api, apiVars, Receive, Abandon, ReadPacket, ReadHead
<1>6. ~Answer(s, Unauthorized)
  BY <1>2, <1>3
<1>7. StillAllowed(slot[s].request) /\ Answer(s, CommitReply(DecisionOn(slot[s].request)))
  BY <1>5, <1>6 DEF Transact
<1> QED
  BY <1>2, <1>5, <1>7

LEMMA AckStep ==
  ASSUME ReadInv, AckedIsDurable, [ApiNext]_apiVars
  PROVE  AckedIsDurable'
<1> SUFFICES ASSUME NEW a \in answered', a.reply.status \in {200, 201}
             PROVE  \E row \in commits' :
                      IsRowOf(row, a.request) /\ row.applied_revision = a.reply.revision
  BY DEF AckedIsDurable, IsRowOf
<1>1. \A row \in commits : \E other \in commits' : SameCommit(other, row)
  BY ApiStepIsStoreStep, HistoryGrows DEF ReadInv, ApiInv, ApiTypeOK
<1>2. ASSUME NEW row \in commits, IsRowOf(row, a.request),
             row.applied_revision = a.reply.revision
      PROVE  \E other \in commits' :
               IsRowOf(other, a.request) /\ other.applied_revision = a.reply.revision
  BY <1>1, <1>2 DEF SameCommit, IsRowOf
<1>3. CASE a \in answered
  BY <1>2, <1>3 DEF AckedIsDurable
<1>4. CASE a \notin answered
  <2>1. PICK s \in Slots :
          /\ Transact(s) /\ a.request = slot[s].request
          /\ StillAllowed(slot[s].request)
          /\ a.reply = CommitReply(DecisionOn(slot[s].request))
    BY <1>4, NewReply DEF ReadInv
  <2> DEFINE request == slot[s].request
             decision == DecisionOn(request)
  <2>2. request.vault \in Vaults
    BY <2>1, RequestTypes DEF ReadInv, ApiInv, ApiTypeOK, Transact
  <2>3. CASE decision.kind = "Apply"
    <3>1. StoreCommit(request.vault, request.operation, request.expected,
                      request.payload, decision.revision)
      BY <2>1, <2>3 DEF Transact
    <3>2. a.reply.revision = decision.revision
      BY <2>1, <2>3 DEF CommitReply, Reply
    <3> DEFINE row == [vault |-> request.vault, operation_id |-> request.operation,
                       expected_revision |-> request.expected,
                       applied_revision |-> decision.revision,
                       payload_digest |-> digest(request.payload),
                       payload |-> request.payload]
    <3>3. row \in commits'
      BY <3>1 DEF StoreCommit
    <3>4. IsRowOf(row, request) /\ row.applied_revision = decision.revision
      BY DEF IsRowOf
    <3> QED
      BY <2>1, <3>2, <3>3, <3>4
  <2>4. CASE decision.kind = "Replay"
    <3>1. PICK row \in commits :
            /\ row.vault = request.vault /\ row.operation_id = request.operation
            /\ row.expected_revision = request.expected
            /\ row.payload_digest = digest(request.payload)
            /\ row.applied_revision = decision.revision
      BY <2>2, <2>4, ReplayIsStored DEF DecisionOn, ReadInv, ApiInv, ApiTypeOK
    <3>2. a.reply.revision = decision.revision
      BY <2>1, <2>4 DEF CommitReply, Reply
    <3> QED
      BY <1>2, <2>1, <3>1, <3>2 DEF IsRowOf
  <2> QED
    BY <2>1, <2>3, <2>4, ReplyOfDecision
<1> QED
  BY <1>3, <1>4

(* Whoever is told that an upload was applied, the first time or by a      *)
(* retry, finds it stored at the revision he was told, in every later      *)
(* state.                                                                  *)
THEOREM AcksAreDurable == ApiSpec \/ ServerSpec => []AckedIsDurable
<1>1. (ApiInit \/ ServerInit) => ReadInv /\ AckedIsDurable
  BY ReadInvStart DEF ApiInit, ServerInit, ApiStart, AckedIsDurable
<1>2. ReadInv /\ AckedIsDurable /\ [ApiNext]_apiVars => ReadInv' /\ AckedIsDurable'
  BY ReadInvStep, AckStep
<1> QED
  BY <1>1, <1>2, PTL DEF ApiSpec, ServerSpec

(* The row that a new answer is about has the bytes that were uploaded, at *)
(* that moment.                                                            *)
LEMMA ConfirmStep ==
  ASSUME ReadInv, [ApiNext]_apiVars,
         NEW a \in answered' \ answered, a.reply.status \in {200, 201}
  PROVE  \E row \in commits' : IsRowOf(row, a.request) /\ Intact(row)
<1>1. PICK s \in Slots :
        /\ Transact(s) /\ a.request = slot[s].request
        /\ StillAllowed(slot[s].request)
        /\ a.reply = CommitReply(DecisionOn(slot[s].request))
  BY NewReply DEF ReadInv
<1> DEFINE request == slot[s].request
           decision == DecisionOn(request)
<1>2. request.vault \in Vaults
  BY <1>1, RequestTypes DEF ReadInv, ApiInv, ApiTypeOK, Transact, Calls
<1>3. CASE decision.kind = "Apply"
  <2>1. StoreCommit(request.vault, request.operation, request.expected,
                    request.payload, decision.revision)
    BY <1>1, <1>3 DEF Transact
  <2> DEFINE row == [vault |-> request.vault, operation_id |-> request.operation,
                     expected_revision |-> request.expected,
                     applied_revision |-> decision.revision,
                     payload_digest |-> digest(request.payload),
                     payload |-> request.payload]
  <2>2. row \in commits'
    BY <2>1 DEF StoreCommit
  <2>3. IsRowOf(row, request) /\ Intact(row)
    BY DEF IsRowOf, Intact
  <2> QED
    BY <1>1, <2>2, <2>3
<1>4. CASE decision.kind = "Replay"
  <2>1. PICK row \in commits :
          /\ row.vault = request.vault /\ row.operation_id = request.operation
          /\ row.expected_revision = request.expected
          /\ row.payload_digest = digest(request.payload)
          /\ Intact(row)
    BY <1>2, <1>4, ReplayIsStored DEF DecisionOn, ReadInv, ApiInv, ApiTypeOK
  <2>2. commits' = commits
    BY <1>1, <1>4 DEF Transact
  <2> QED
    BY <1>1, <2>1, <2>2 DEF IsRowOf
<1> QED
  BY <1>1, <1>3, <1>4, ReplyOfDecision

(* No upload is confirmed while the disk has damaged what was stored of    *)
(* it, whoever retries it and whatever other requests are in progress.     *)
THEOREM ConfirmationsAreIntact == ApiSpec \/ ServerSpec => ConfirmedIsIntact
<1>1. (ApiInit \/ ServerInit) => ReadInv
  BY ReadInvStart
<1>2. ReadInv /\ [ApiNext]_apiVars => ReadInv'
  BY ReadInvStep
<1> DEFINE A == \A a \in answered' \ answered : a.reply.status \in {200, 201} =>
                 \E row \in commits' : IsRowOf(row, a.request) /\ Intact(row)
<1>3. ReadInv /\ [ApiNext]_apiVars => [A]_apiVars
  BY ConfirmStep
<1> QED
  BY <1>1, <1>2, <1>3, PTL DEF ApiSpec, ServerSpec, ConfirmedIsIntact

IsConflict(a) == classifyUploadResponse(a.reply, a.request.expected) = "conflict"

(* A confirmed conflict was given at a revision that the vault has reached *)
(* and that is above the expected one: no later commit can be the upload.  *)
ConflictInv ==
  \A a \in answered : IsConflict(a) =>
    /\ a.reply.revision \in Revisions
    /\ a.reply.revision > a.request.expected
    /\ a.reply.revision <= current[a.request.vault]
    /\ \A row \in commits : ~IsRowOf(row, a.request)

(* A reply that is one already stays one. *)
LEMMA OldConflict ==
  ASSUME ReadInv, ConflictInv, [ApiNext]_apiVars, NEW a \in answered, IsConflict(a)
  PROVE  /\ a.reply.revision <= current'[a.request.vault]
         /\ \A row \in commits' : ~IsRowOf(row, a.request)
<1>1. TypeOK /\ TypeOK' /\ [Next]_vars
  BY ReadInvStep, ApiStepIsStoreStep DEF ReadInv, ApiInv, ApiTypeOK
<1>2. a.request \in Requests /\ a.request.vault \in Vaults /\ a.request.expected \in Nat
  BY RequestTypes DEF ReadInv, ApiInv, ApiTypeOK
<1>3. /\ a.reply.revision \in Int /\ a.reply.revision > a.request.expected
      /\ a.reply.revision <= current[a.request.vault]
      /\ \A row \in commits : ~IsRowOf(row, a.request)
  BY MaxRevisionAssumption DEF ConflictInv, Revisions
<1>4. /\ current[a.request.vault] \in Int /\ current'[a.request.vault] \in Int
      /\ current[a.request.vault] <= current'[a.request.vault]
  BY <1>1, <1>2, HistoryGrows, MaxRevisionAssumption DEF TypeOK, Revisions, NoVault
<1>5. CASE CommitsKept
  BY <1>3, <1>4, <1>5 DEF CommitsKept, SameCommit, IsRowOf
<1>6. ASSUME NEW v \in Vaults, NEW row, CommitAdded(v, row)
      PROVE  \A other \in commits' : ~IsRowOf(other, a.request)
  <2>1. row.vault = v /\ row.expected_revision = current[v] /\ commits' = commits \cup {row}
    BY <1>6 DEF CommitAdded
  <2>2. ~IsRowOf(row, a.request)
    BY <1>2, <1>3, <1>4, <2>1 DEF IsRowOf
  <2> QED
    BY <1>3, <2>1, <2>2
<1> QED
  BY <1>1, <1>3, <1>4, <1>5, <1>6, StoreStepKinds

LEMMA NewConflict ==
  ASSUME ReadInv, [ApiNext]_apiVars, NEW a \in answered', a \notin answered, IsConflict(a)
  PROVE  /\ a.reply.revision \in Revisions
         /\ a.reply.revision > a.request.expected
         /\ a.reply.revision <= current'[a.request.vault]
         /\ \A row \in commits' : ~IsRowOf(row, a.request)
<1>1. PICK s \in Slots :
        /\ Transact(s) /\ a.request = slot[s].request
        /\ StillAllowed(slot[s].request)
        /\ a.reply = CommitReply(DecisionOn(slot[s].request))
  BY NewReply DEF ReadInv
<1> DEFINE request == slot[s].request
           decision == DecisionOn(request)
<1>2. a.reply.result = "conflict" /\ a.reply.revision > a.request.expected
  BY DEF IsConflict, classifyUploadResponse
<1>3. decision.kind = "Conflict" /\ a.reply.revision = decision.revision
  BY <1>1, <1>2, ReplyOfDecision
<1>4. request.vault \in Vaults /\ request.token \in Devices
  BY <1>1, RequestTypes DEF ReadInv, ApiInv, ApiTypeOK, Transact
<1>5. RowsOf(request.vault, request.operation) = {} /\ decision.revision = current[request.vault]
  BY <1>3, <1>4, ConflictIsNew DEF DecisionOn, ReadInv, ApiInv, ApiTypeOK
<1>6. VaultExists(request.vault)
  BY <1>1, <1>4, WriterHasVault DEF StillAllowed, MayWrite, ReadInv, ApiInv, ApiTypeOK
<1>7. current[request.vault] \in Revisions
  BY <1>4, <1>6 DEF VaultExists, ReadInv, ApiInv, ApiTypeOK, TypeOK
<1>8. UNCHANGED <<commits, current>>
  <2>1. decision.kind # "Apply"
    BY <1>3
  <2> QED
    BY <1>1, <2>1 DEF Transact
<1>9. \A row \in commits : ~IsRowOf(row, request)
  BY <1>5 DEF RowsOf, IsRowOf
<1> QED
  BY <1>1, <1>2, <1>3, <1>5, <1>7, <1>8, <1>9, MaxRevisionAssumption DEF Revisions, IsRowOf

LEMMA ConflictStep ==
  ASSUME ReadInv, ConflictInv, [ApiNext]_apiVars
  PROVE  ConflictInv'
<1> SUFFICES ASSUME NEW a \in answered', IsConflict(a)
             PROVE  /\ a.reply.revision \in Revisions
                    /\ a.reply.revision > a.request.expected
                    /\ a.reply.revision <= current'[a.request.vault]
                    /\ \A row \in commits' : ~IsRowOf(row, a.request)
  BY DEF ConflictInv, IsConflict, IsRowOf
<1>1. CASE a \in answered
  BY <1>1, OldConflict DEF ConflictInv
<1>2. CASE a \notin answered
  BY <1>2, NewConflict
<1> QED
  BY <1>1, <1>2

(* A confirmed conflict is a proof that the upload is not applied and      *)
(* never will be, although copies of it are still on their way: the device *)
(* may drop it.                                                            *)
THEOREM ConflictsAreFinal == ApiSpec \/ ServerSpec => []ConflictIsFinal
<1>1. (ApiInit \/ ServerInit) => ReadInv /\ ConflictInv
  BY ReadInvStart DEF ApiInit, ServerInit, ApiStart, ConflictInv
<1>2. ReadInv /\ ConflictInv /\ [ApiNext]_apiVars => ReadInv' /\ ConflictInv'
  BY ReadInvStep, ConflictStep
<1>3. ConflictInv => ConflictIsFinal
  BY DEF ConflictInv, ConflictIsFinal, IsConflict
<1> QED
  BY <1>1, <1>2, <1>3, PTL DEF ApiSpec, ServerSpec

-----------------------------------------------------------------------------
(* The promise of the server, VaultLog. *)

EntryOf(row) == [operation |-> row.operation_id, payload |-> row.payload_digest]

(* The one commit of a revision is the entry of the history. *)
LEMMA UniqueRow ==
  ASSUME NEW rows, NEW row \in rows,
         \A other \in rows :
           other.vault = row.vault /\ other.applied_revision = row.applied_revision =>
             other = row
  PROVE  row = CHOOSE other \in rows :
                 other.vault = row.vault /\ other.applied_revision = row.applied_revision
  OBVIOUS

LEMMA EntryOfRow ==
  ASSUME History, NEW row \in commits
  PROVE  Entry(row.vault, row.applied_revision) = EntryOf(row)
  BY UniqueRow DEF History, SchemaHolds, Entry, EntryOf

LEMMA EntryOfRowNext ==
  ASSUME History', NEW row \in commits'
  PROVE  Entry(row.vault, row.applied_revision)' = EntryOf(row)
  BY UniqueRow DEF History, SchemaHolds, Entry, EntryOf

(* Every revision of a vault has its commit, in the vault's history. *)
LEMMA StoredEntry ==
  ASSUME TypeOK, History, NEW v \in Vaults, NEW r \in 1 .. RevisionOf(v)
  PROVE  \E row \in commits : /\ row.vault = v /\ row.applied_revision = r
                              /\ Entry(v, r) = EntryOf(row)
<1>1. r \in Revisions /\ r >= 1 /\ r <= current[v]
  BY MaxRevisionAssumption DEF TypeOK, RevisionOf, VaultExists, Revisions, NoVault
<1>2. PICK row \in commits : row.vault = v /\ row.applied_revision = r
  BY <1>1 DEF History, HistoryIsContiguous
<1> QED
  BY <1>2, EntryOfRow

LEMMA RevisionType ==
  ASSUME TypeOK, NEW v \in Vaults
  PROVE  RevisionOf(v) \in Nat
  BY MaxRevisionAssumption DEF TypeOK, RevisionOf, VaultExists, Revisions, NoVault

LEMMA HistoryType ==
  ASSUME TypeOK, History, NEW v \in Vaults
  PROVE  /\ HistoryOf[v] \in Seq(Log!Entries)
         /\ Len(HistoryOf[v]) = RevisionOf(v)
         /\ \A r \in 1 .. RevisionOf(v) : HistoryOf[v][r] = Entry(v, r)
<1>1. HistoryOf[v] = [r \in 1 .. RevisionOf(v) |-> Entry(v, r)]
  BY DEF HistoryOf
<1>2. \A r \in 1 .. RevisionOf(v) : Entry(v, r) \in Log!Entries
  BY StoredEntry DEF Log!Entries, EntryOf, TypeOK, Rows
<1>3. RevisionOf(v) \in Nat
  BY RevisionType
<1>4. HistoryOf[v] \in Seq(Log!Entries)
  BY <1>1, <1>2, <1>3
<1>5. Len(HistoryOf[v]) = RevisionOf(v)
  BY <1>1, <1>3, <1>4, LenProperties
<1> QED
  BY <1>1, <1>4, <1>5

(* Administration, reads and damaged packets are no steps of the promise.  *)
LEMMA HistoryOfKept ==
  ASSUME TypeOK, History, History', CommitsKept,
         \A v \in Vaults : current'[v] = current[v] \/ (~VaultExists(v) /\ current'[v] = 0)
  PROVE  HistoryOf' = HistoryOf
<1>1. ASSUME NEW v \in Vaults
      PROVE  RevisionOf(v)' = RevisionOf(v)
  BY <1>1 DEF RevisionOf, VaultExists, NoVault
<1>2. ASSUME NEW v \in Vaults, NEW r \in 1 .. RevisionOf(v)
      PROVE  Entry(v, r)' = Entry(v, r)
  <2>1. PICK row \in commits : /\ row.vault = v /\ row.applied_revision = r
                              /\ Entry(v, r) = EntryOf(row)
    BY StoredEntry
  <2>2. PICK other \in commits' : SameCommit(other, row)
    BY DEF CommitsKept
  <2>3. Entry(other.vault, other.applied_revision)' = EntryOf(other)
    BY EntryOfRowNext
  <2>4. other.vault = v /\ other.applied_revision = r /\ EntryOf(other) = EntryOf(row)
    BY <2>1, <2>2 DEF SameCommit, EntryOf
  <2> QED
    BY <2>1, <2>3, <2>4
<1> QED
  BY <1>1, <1>2 DEF HistoryOf

(* A commit is one new operation at the end of its vault's history. *)
LEMMA HistoryOfAdded ==
  ASSUME TypeOK, TypeOK', History, History', NEW v \in Vaults, NEW row, CommitAdded(v, row)
  PROVE  Log!Record(v, EntryOf(row))
<1> DEFINE entry == EntryOf(row)
<1>0. PICK n \in Nat : n = current[v]
  BY MaxRevisionAssumption DEF CommitAdded, Revisions
<1>1. /\ row.vault = v /\ row.applied_revision = n + 1 /\ n \in Nat
      /\ commits' = commits \cup {row} /\ current' = [current EXCEPT ![v] = n + 1]
      /\ RowsOf(v, row.operation_id) = {}
  BY <1>0 DEF CommitAdded
<1>2. entry \in Log!Entries
  BY DEF CommitAdded, EntryOf, Log!Entries, Rows
<1>3. RevisionOf(v) = n /\ RevisionOf(v)' = n + 1
  BY <1>0, <1>1 DEF RevisionOf, VaultExists, NoVault, TypeOK
<1>4. ASSUME NEW w \in Vaults, NEW r \in 1 .. RevisionOf(w)
      PROVE  Entry(w, r)' = Entry(w, r)
  <2>1. PICK old \in commits : /\ old.vault = w /\ old.applied_revision = r
                              /\ Entry(w, r) = EntryOf(old)
    BY StoredEntry
  <2>2. old \in commits'
    BY <1>1
  <2> QED
    BY <2>1, <2>2, EntryOfRowNext
<1>5. Entry(v, n + 1)' = entry
  <2>1. row \in commits'
    BY <1>1
  <2>2. Entry(row.vault, row.applied_revision)' = EntryOf(row)
    BY <2>1, EntryOfRowNext
  <2> QED
    BY <1>1, <2>2
<1>6. ASSUME NEW w \in Vaults, w # v
      PROVE  HistoryOf'[w] = HistoryOf[w]
  <2>1. RevisionOf(w)' = RevisionOf(w)
    BY <1>1, <1>6 DEF RevisionOf, VaultExists, TypeOK
  <2> QED
    BY <1>4, <2>1 DEF HistoryOf
<1>7. HistoryOf'[v] = Append(HistoryOf[v], entry)
  <2>1. /\ HistoryOf[v] \in Seq(Log!Entries) /\ Len(HistoryOf[v]) = n
        /\ \A r \in 1 .. n : HistoryOf[v][r] = Entry(v, r)
    BY <1>3, HistoryType
  <2>2. HistoryOf'[v] = [r \in 1 .. n + 1 |-> Entry(v, r)']
    BY <1>3 DEF HistoryOf
  <2>3. \A r \in 1 .. n : Entry(v, r)' = HistoryOf[v][r]
    BY <1>3, <1>4, <2>1
  <2>4. \A r \in 1 .. n + 1 : Entry(v, r)' \in Log!Entries
    <3>1. \A r \in 1 .. n : HistoryOf[v][r] \in Log!Entries
      BY <2>1, LenProperties
    <3>2. ASSUME NEW r \in 1 .. n + 1
          PROVE  Entry(v, r)' \in Log!Entries
      <4>1. CASE r = n + 1
        BY <1>2, <1>5, <4>1
      <4>2. CASE r # n + 1
        BY <1>1, <2>3, <3>1, <4>2
      <4> QED
        BY <4>1, <4>2
    <3> QED
      BY <3>2
  <2>5. HistoryOf'[v] \in Seq(Log!Entries) /\ Len(HistoryOf'[v]) = n + 1
    <3>1. HistoryOf'[v] \in Seq(Log!Entries)
      BY <1>1, <2>2, <2>4
    <3> QED
      BY <1>1, <2>2, <3>1, LenProperties
  <2>6. \A r \in 1 .. n + 1 : HistoryOf'[v][r] = Append(HistoryOf[v], entry)[r]
    <3>1. /\ \A r \in 1 .. n : Append(HistoryOf[v], entry)[r] = HistoryOf[v][r]
          /\ Append(HistoryOf[v], entry)[n + 1] = entry
      BY <1>2, <2>1, AppendProperties
    <3>2. ASSUME NEW r \in 1 .. n + 1
          PROVE  HistoryOf'[v][r] = Append(HistoryOf[v], entry)[r]
      <4>1. HistoryOf'[v][r] = Entry(v, r)'
        BY <2>2
      <4>2. CASE r = n + 1
        BY <1>5, <3>1, <4>1, <4>2
      <4>3. CASE r # n + 1
        <5>1. r \in 1 .. n
          BY <4>3
        <5> QED
          BY <2>3, <3>1, <4>1, <5>1
      <4> QED
        BY <4>2, <4>3
    <3> QED
      BY <3>2
  <2> QED
    BY <1>2, <2>1, <2>5, <2>6, AppendProperties, SeqEqual
<1>8. HistoryOf' = [HistoryOf EXCEPT ![v] = Append(@, entry)]
  BY <1>6, <1>7 DEF HistoryOf
<1>9. ~Log!IsRecorded(v, entry.operation)
  <2>1. ASSUME NEW r \in 1 .. n
        PROVE  Entry(v, r).operation # row.operation_id
    <3>1. PICK old \in commits : old.vault = v /\ Entry(v, r) = EntryOf(old)
      BY <1>3, StoredEntry
    <3> QED
      BY <1>1, <3>1 DEF RowsOf, EntryOf
  <2> QED
    BY <1>3, <2>1, HistoryType DEF Log!IsRecorded, EntryOf
<1> QED
  BY <1>8, <1>9 DEF Log!Record

(* Whatever the requests, the clients' retries, the operator and broken    *)
(* connections do, a vault's history only ever gets new operations at its  *)
(* end: the server keeps its promise.                                      *)
THEOREM ServerKeepsPromise == ApiSpec \/ ServerSpec => ImplementsVaultLog
<1>1. (ApiInit \/ ServerInit) => ReadInv /\ Log!Init
  <2>1. (ApiInit \/ ServerInit) => \A v \in Vaults : RevisionOf(v) = 0
    BY DEF ApiInit, ServerInit, Init, RevisionOf, VaultExists, NoVault
  <2>2. (\A v \in Vaults : RevisionOf(v) = 0) => HistoryOf = [v \in Vaults |-> <<>>]
    BY DEF HistoryOf
  <2> QED
    BY <2>1, <2>2, ReadInvStart DEF Log!Init
<1>2. ReadInv /\ [ApiNext]_apiVars => ReadInv'
  BY ReadInvStep
<1>3. ReadInv /\ [ApiNext]_apiVars => [Log!Next]_HistoryOf
  <2> SUFFICES ASSUME ReadInv, [ApiNext]_apiVars
               PROVE  Log!Next \/ HistoryOf' = HistoryOf
    OBVIOUS
  <2>1. /\ TypeOK /\ History /\ TypeOK' /\ History' /\ [Next]_vars
    BY ReadInvStep, ApiStepIsStoreStep DEF ReadInv, ApiInv, ApiTypeOK
  <2>2. ASSUME NEW v \in Vaults, NEW row, CommitAdded(v, row)
        PROVE  Log!Next
    <3>1. EntryOf(row) \in Log!Entries
      BY <2>2 DEF CommitAdded, EntryOf, Log!Entries, Rows
    <3> QED
      BY <2>1, <2>2, <3>1, HistoryOfAdded DEF Log!Next
  <2> QED
    BY <2>1, <2>2, StoreStepKinds, HistoryOfKept
<1> QED
  BY <1>1, <1>2, <1>3, PTL DEF ApiSpec, ServerSpec, ImplementsVaultLog, Log!Spec
=============================================================================
