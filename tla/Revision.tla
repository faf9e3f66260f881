------------------------------ MODULE Revision ------------------------------
(***************************************************************************)
(* The commit rule of the server, server/src/revision.rs: what happens to  *)
(* an upload, given the vault's current revision and the stored record of  *)
(* the same operation, if there is one.  A pure function: the caller holds *)
(* the storage transaction.                                                *)
(***************************************************************************)
EXTENDS Integers

CONSTANT MAX_REVISION   \* highest revision, 2^53 - 1 in the code

ASSUME MaxRevisionAssumption == MAX_REVISION \in Nat \ {0}

Revisions == 0 .. MAX_REVISION

(* previous = None::<AppliedCommit>: a value that is no commit record. *)
NoCommit == [applied_revision |-> -1]

(* CommitDecision: its kind, and the revision it carries (0 if none). *)
Decision(kind, revision) == [kind |-> kind, revision |-> revision]

(* Seeded fault: the ID alone makes a retry. *)
SameRequestMutant(previous, request) == TRUE

(* A stored operation is the retry of `request` only if it is the same     *)
(* request: same ID, same expected revision, same bytes.                   *)
SameRequest(previous, request) ==
  /\ previous.expected_revision = request.expected_revision
  /\ previous.payload_digest = request.payload_digest

(* The record of a stored operation must fit the history it is part of. *)
FitsHistory(current, previous) ==
  /\ previous.applied_revision = previous.expected_revision + 1
  /\ previous.applied_revision <= current

DecideStored(current, previous, request) ==
  CASE previous.operation_id # request.operation_id ->
         Decision("InconsistentState", 0)
    [] /\ previous.operation_id = request.operation_id
       /\ ~SameRequest(previous, request) ->
         Decision("OperationIdReused", 0)
    [] /\ previous.operation_id = request.operation_id
       /\ SameRequest(previous, request)
       /\ ~FitsHistory(current, previous) ->
         Decision("InconsistentState", 0)
    [] OTHER -> Decision("Replay", previous.applied_revision)

(* Seeded fault: no highest revision. *)
DecideNewUnbounded(current, request) ==
  IF request.expected_revision # current THEN Decision("Conflict", current)
  ELSE Decision("Apply", current + 1)

(* Seeded fault: older expected revisions pass. *)
DecideNewStale(current, request) ==
  IF request.expected_revision > current THEN Decision("Conflict", current)
  ELSE Decision("Apply", current + 1)

DecideNew(current, request) ==
  CASE request.expected_revision # current -> Decision("Conflict", current)
    [] request.expected_revision = current /\ current = MAX_REVISION ->
         Decision("RevisionExhausted", 0)
    [] OTHER -> Decision("Apply", current + 1)

(* Seeded fault: the revision is compared before the ID is looked up. *)
decide_commitMutant(current, previous, request) ==
  IF previous # NoCommit /\ request.expected_revision = current
    THEN DecideStored(current, previous, request)
    ELSE DecideNew(current, request)

(* The operation ID is looked up before the revision is compared: that     *)
(* order is what makes a retry after a lost reply harmless.                *)
decide_commit(current, previous, request) ==
  IF current > MAX_REVISION \/ request.expected_revision > MAX_REVISION
    THEN Decision("InvalidRevision", 0)
    ELSE IF previous # NoCommit
           THEN DecideStored(current, previous, request)
           ELSE DecideNew(current, request)
=============================================================================
