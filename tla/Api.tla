--------------------------------- MODULE Api ---------------------------------
(***************************************************************************)
(* The HTTP API of the server, server/src/api.rs, over the database of     *)
(* Store.  Requests run concurrently, each in a slot; every access to the  *)
(* database opens its own connection (with_store), so that other requests  *)
(* and the administrator's commands come between the steps of one.         *)
(*                                                                         *)
(* An upload passes three checks of the device's access: before its body   *)
(* is read, before the body is hashed, and inside the write transaction.   *)
(***************************************************************************)
EXTENDS Store, Protocol

CONSTANTS
  Slots,      \* bound: requests handled at the same time
  Requests,   \* the uploads clients send, each as often as it likes
  Watched,    \* the uploads whose replies are remembered, for the properties
  Readers,    \* the devices that read packets
  MaxChanges, \* bound: changes of access while requests are handled; 0: no bound
  Owner, Member, OwnerDevice, MemberDevice, Vault,   \* the initial database
  Free        \* the content of a slot with no request

(* An expected revision is any number that the client's header can hold. *)
ASSUME ApiAssumption ==
  /\ Requests \subseteq [token : Devices, vault : Vaults, operation : Operations,
                         expected : Nat, payload : Payloads]
  /\ Owner \in Users /\ Member \in Users /\ Vault \in Vaults

VARIABLES
  slot,       \* slot[s]: an upload and its phase, or Free
  changes,    \* changes of access so far
  answered,   \* ghost: watched uploads, replies on their fate: 2xx and 409
  served,     \* ghost: packets given out, [vault, revision, payload]
  told        \* ghost: told[v] is the last head given out for vault v

api == <<slot, changes, answered, served, told>>
apiVars == <<vars, api>>

Call(request, phase) == [request |-> request, phase |-> phase]

(* No request has come in. *)
ApiStart ==
  /\ slot = [s \in Slots |-> Free]
  /\ changes = 0
  /\ answered = {}
  /\ served = {}
  /\ told = [v \in Vaults |-> 0]

(* A database after bootstrap, with a second user who was created, given a *)
(* device and granted the role of a writer.                                *)
ApiInit ==
  /\ users = {Owner, Member}
  /\ owner = [d \in Devices |-> CASE d = OwnerDevice -> Owner
                                  [] d = MemberDevice -> Member
                                  [] OTHER -> NoUser]
  /\ revoked = {}
  /\ current = [v \in Vaults |-> IF v = Vault THEN 0 ELSE NoVault]
  /\ role = [v \in Vaults |-> [u \in Users |->
               CASE v = Vault /\ u = Owner -> "owner"
                 [] v = Vault /\ u = Member -> "writer"
                 [] OTHER -> "none"]]
  /\ commits = {}
  /\ corruptions = 0
  /\ ApiStart

MayWrite(request) == Authorized(request.token, request.vault, "writer")

(* The reply leaves the handler; whether the client gets it is another     *)
(* matter.                                                                 *)
Answer(s, reply) ==
  /\ slot' = [slot EXCEPT ![s] = Free]
  /\ answered' = IF slot[s].request \in Watched /\ reply.status \in {200, 201, 409}
                   THEN answered \cup {[request |-> slot[s].request, reply |-> reply]}
                   ELSE answered

(* commit_packet up to its first await on the body: ensure_write_access. *)
(* A request that fails it is answered with 401 at once: no step.          *)
Receive(s, request) ==
  /\ slot[s] = Free
  /\ MayWrite(request)
  /\ slot' = [slot EXCEPT ![s] = Call(request, "body")]
  /\ UNCHANGED <<vars, changes, answered, served, told>>

(* The body has arrived: the first check of commit_inner and the digest. *)
HashBody(s) ==
  /\ slot[s] # Free /\ slot[s].phase = "body"
  /\ \/ /\ ~MayWrite(slot[s].request)
        /\ Answer(s, Unauthorized)
     \/ /\ MayWrite(slot[s].request)
        /\ slot[s].request.expected > MAX_REVISION
        /\ Answer(s, CommitReply(Decision("InvalidRevision", 0)))
     \/ /\ MayWrite(slot[s].request)
        /\ slot[s].request.expected <= MAX_REVISION
        /\ slot' = [slot EXCEPT ![s].phase = "hashed"]
        /\ UNCHANGED answered
  /\ UNCHANGED <<vars, changes, served, told>>

(* Seeded fault: access is not checked again. *)
StillAllowedMutant(request) == TRUE

(* The write transaction: access once more, the decision, the commit. *)
StillAllowed(request) == MayWrite(request)

DecisionOn(request) ==
  DecisionFor(request.vault, request.operation, request.expected, request.payload)

Transact(s) ==
  /\ slot[s] # Free /\ slot[s].phase = "hashed"
  /\ LET request == slot[s].request
         decision == DecisionOn(request)
     IN \/ /\ ~StillAllowed(request)
           /\ Answer(s, Unauthorized)
           /\ UNCHANGED <<commits, current>>
        \/ /\ StillAllowed(request)
           /\ decision.kind = "Apply"
           /\ StoreCommit(request.vault, request.operation, request.expected,
                          request.payload, decision.revision)
           /\ Answer(s, CommitReply(decision))
        \/ /\ StillAllowed(request)
           /\ decision.kind # "Apply"
           /\ Answer(s, CommitReply(decision))
           /\ UNCHANGED <<commits, current>>
  /\ UNCHANGED <<access, corruptions, changes, served, told>>

(* The connection breaks, or the server process ends.  A transaction that  *)
(* has not committed leaves no trace; one that has is synced to the disk.  *)
(* One whose connection breaks runs on in its blocking task: that is a     *)
(* request that stays in its slot.                                         *)
Abandon(s) ==
  /\ slot[s] # Free
  /\ slot' = [slot EXCEPT ![s] = Free]
  /\ UNCHANGED <<vars, changes, answered, served, told>>

(* Seeded fault: damaged bytes are served. *)
ServableMutant(row) == TRUE

(* read_packet: one transaction.  A row whose bytes do not have its digest *)
(* is not served.                                                          *)
Servable(row) == Intact(row)

ReadPacket(token, v, revision) ==
  /\ Authorized(token, v, "reader")
  /\ \E row \in commits :
       /\ row.vault = v /\ row.applied_revision = revision
       /\ Servable(row)
       /\ served' = served \cup {[vault |-> v, revision |-> revision,
                                  payload |-> row.payload]}
  /\ UNCHANGED <<vars, slot, changes, answered, told>>

(* head: one transaction. *)
ReadHead(token, v) ==
  /\ Authorized(token, v, "reader")
  /\ VaultExists(v)
  /\ told' = [told EXCEPT ![v] = current[v]]
  /\ UNCHANGED <<vars, slot, changes, answered, served>>

ApiNext ==
  \/ /\ AccessStep
     /\ \/ MaxChanges = 0 /\ UNCHANGED changes
        \/ changes < MaxChanges /\ changes' = changes + 1
     /\ UNCHANGED <<slot, answered, served, told>>
  \/ CorruptStep /\ UNCHANGED api
  \/ \E s \in Slots :
       \/ \E request \in Requests : Receive(s, request)
       \/ HashBody(s) \/ Transact(s) \/ Abandon(s)
  \/ \E token \in Readers, v \in Vaults :
       \/ \E revision \in Revisions : ReadPacket(token, v, revision)
       \/ ReadHead(token, v)

ApiSpec == ApiInit /\ [][ApiNext]_apiVars

(* The server from an empty database on. *)
ServerInit == Init /\ ApiStart

ServerSpec == ServerInit /\ [][ApiNext]_apiVars

-----------------------------------------------------------------------------
(* Properties. *)

IsRowOf(row, request) ==
  /\ row.vault = request.vault
  /\ row.operation_id = request.operation
  /\ row.expected_revision = request.expected
  /\ row.payload_digest = digest(request.payload)

(* A success reply, the first one or a retry's, is never given for         *)
(* anything but a commit that is stored at the revision it names, and that *)
(* commit stays ("a reply of success is allowed only after the new         *)
(* revision is durable", docs/REVISION_CONTRACT.md).                       *)
AckedIsDurable ==
  \A a \in answered : a.reply.status \in {200, 201} =>
    \E row \in commits :
      IsRowOf(row, a.request) /\ row.applied_revision = a.reply.revision

(* A retry is not told that its upload is stored once the disk has damaged *)
(* what was stored: the device would forget the packet it still has        *)
(* (engine.ts, submitPending).                                             *)
ConfirmedIsIntact ==
  [][\A a \in answered' \ answered : a.reply.status \in {200, 201} =>
       \E row \in commits' : IsRowOf(row, a.request) /\ Intact(row)]_apiVars

(* "A confirmed conflict proves it was not applied" (engine.ts,            *)
(* submitPending) - and never will be, though copies of the same upload    *)
(* may still be on their way: the device drops the packet and plans its    *)
(* changes again.                                                          *)
ConflictIsFinal ==
  \A a \in answered :
    classifyUploadResponse(a.reply, a.request.expected) = "conflict" =>
      \A row \in commits : ~IsRowOf(row, a.request)

(* A commit is stored only while its device may write, even if the device  *)
(* or the member is revoked between the checks of the same request.        *)
OnlyWritersCommit ==
  [][\A v \in Vaults : VaultExists(v) /\ current'[v] # current[v] =>
       \E s \in Slots :
         /\ slot[s] # Free /\ slot[s].request.vault = v
         /\ Authorized(slot[s].request.token, v, "writer")
         /\ \E row \in commits' \ commits : IsRowOf(row, slot[s].request)]_apiVars

(* All readers of a revision get the bytes that were committed as it, or   *)
(* an error, also after the disk has damaged them.                         *)
ServedAsCommitted ==
  \A packet \in served : \A row \in commits :
    row.vault = packet.vault /\ row.applied_revision = packet.revision =>
      packet.payload = row.payload_digest

(* A device that was told a head finds every packet up to it, then and     *)
(* ever after: it fetches them in later requests (engine.ts, pull).        *)
HeadStays ==
  \A v \in Vaults, r \in Revisions : r \in 1 .. told[v] =>
    /\ r <= current[v]
    /\ \E row \in commits : row.vault = v /\ row.applied_revision = r

(* Whatever the requests do to the database is a transaction of Store, so  *)
(* that what is proved of Store holds of the server.                       *)
ImplementsStore == Spec

(* The history of each vault, as the specification of the promise sees it. *)
RevisionOf(v) == IF VaultExists(v) THEN current[v] ELSE 0
Entry(v, r) ==
  LET row == CHOOSE row \in commits : row.vault = v /\ row.applied_revision = r
  IN [operation |-> row.operation_id, payload |-> row.payload_digest]
HistoryOf == [v \in Vaults |-> [r \in 1 .. RevisionOf(v) |-> Entry(v, r)]]

Log == INSTANCE VaultLog WITH history <- HistoryOf

(* Concurrent requests, retries, revocations and crashes included, the     *)
(* server only ever appends operations it has not recorded yet.            *)
ImplementsVaultLog == Log!Spec
=============================================================================
