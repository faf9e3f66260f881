------------------------------ MODULE Protocol ------------------------------
(***************************************************************************)
(* The reply to an upload: what the server's handler turns a decision into *)
(* (server/src/api.rs) and what the plugin makes of that reply             *)
(* (src/sync/packet.ts).                                                   *)
(***************************************************************************)
EXTENDS Revision

(* A reply: status, the `result` (or `error`) member of its JSON body, and *)
(* the revision in it (-1 if the body has none).                           *)
Reply(status, result, revision) ==
  [status |-> status, result |-> result, revision |-> revision]

CommitReply(decision) ==
  CASE decision.kind = "Apply" -> Reply(201, "applied", decision.revision)
    [] decision.kind = "Replay" -> Reply(200, "replayed", decision.revision)
    [] decision.kind = "Conflict" -> Reply(409, "conflict", decision.revision)
    [] decision.kind = "OperationIdReused" -> Reply(409, "operation_id_reused", -1)
    [] decision.kind = "InvalidRevision" -> Reply(400, "invalid_request", -1)
    [] decision.kind = "RevisionExhausted" -> Reply(409, "revision_exhausted", -1)
    [] OTHER -> Reply(500, "internal_error", -1)

(* StoreError as ApiError. *)
Unauthorized == Reply(401, "unauthorized", -1)

classifyUploadResponse(reply, expectedRevision) ==
  CASE reply.status = 201 /\ reply.result = "applied"
       /\ reply.revision = expectedRevision + 1 -> "applied"
    [] reply.status = 200 /\ reply.result = "replayed"
       /\ reply.revision = expectedRevision + 1 -> "replayed"
    [] reply.status = 409 /\ reply.result = "conflict"
       /\ reply.revision > expectedRevision -> "conflict"
    [] OTHER -> "blocked"
=============================================================================
