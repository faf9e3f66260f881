---------------------------- MODULE MCProvision ----------------------------
(* Commands that race for a database, for a path and for the owner's file. *)
EXTENDS Provision

CONSTANTS u, d1, d2, d3, d4, v, o, p, c1, c2, c3

(* Two owner's files are asked for; a second device is issued with it, and a   *)
(* third with the second's; a backup is asked for at the third's path; the *)
(* server runs.                                                            *)
Commanded ==
  {[kind |-> "bootstrap", target |-> c1, device |-> d1],
   [kind |-> "bootstrap", target |-> c2, device |-> d4],
   [kind |-> "provision", from |-> c1, target |-> c2, device |-> d2],
   [kind |-> "provision", from |-> c2, target |-> c3, device |-> d3],
   [kind |-> "backup", target |-> c3],
   [kind |-> "serve"]}
=============================================================================
