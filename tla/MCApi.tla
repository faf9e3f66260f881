------------------------------- MODULE MCApi -------------------------------
(* Instances of Api for TLC: a vault, its owner and a member who writes. *)
EXTENDS Api

CONSTANTS u1, u2, a, b, v, o1, o2, o3, p1, p2

Upload(token, operation, expected, payload) ==
  [token |-> token, vault |-> v, operation |-> operation,
   expected |-> expected, payload |-> payload]

(* Two devices upload at the same revision, one goes on from its commit,   *)
(* and the other uses an operation ID again for other bytes.               *)
RacingRequests ==
  {Upload(a, o1, 0, p1), Upload(b, o2, 0, p2), Upload(a, o3, 1, p1),
   Upload(b, o1, 1, p2)}

(* A history up to the last revision, an upload that comes too late for a  *)
(* revision, one beyond the last, and one that expects a revision out of   *)
(* range.                                                                  *)
FullRequests ==
  {Upload(a, o1, 0, p1), Upload(b, o2, 1, p2), Upload(a, o3, 1, p1),
   Upload(b, o3, MAX_REVISION, p2), Upload(b, o1, MAX_REVISION + 1, p2)}
=============================================================================
