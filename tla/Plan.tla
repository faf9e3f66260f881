-------------------------------- MODULE Plan --------------------------------
(***************************************************************************)
(* The planner (src/sync/plan.ts), packets as changes to a set of files    *)
(* (src/sync/packet.ts) and the names of conflict copies.                  *)
(*                                                                         *)
(* The digests of a vault are a function on Paths whose value is None      *)
(* where the code's Map has no key.  A digest is a content: SHA-256 is     *)
(* taken to be injective, and the digest of an oversized file ("oversize:" *)
(* size:mtime) tells its versions apart the same way.                      *)
(***************************************************************************)
EXTENDS FiniteSets

CONSTANTS
  Paths,      \* the vault paths of the instance
  None,       \* "no file", no digest
  CopiesOf,   \* CopiesOf[p]: the paths named "<stem of p> (conflict ...)<ext>"
  Clashing    \* sets of paths that no portable file system can hold together

ASSUME PlanAssumption ==
  /\ CopiesOf \in [Paths -> SUBSET Paths]
  /\ Clashing \subseteq SUBSET Paths

NoFiles == [p \in Paths |-> None]
Present(digests) == {p \in Paths : digests[p] # None}

(* Seeded fault: a file that is not in the base is pulled over. *)
PullsMutant(base, local, remote) ==
  {p \in Paths : local[p] # remote[p] /\ base[p] \in {local[p], None}}

(* planSync, one set of paths per action it decides. *)
Pulls(base, local, remote) ==
  {p \in Paths : local[p] # remote[p] /\ local[p] = base[p]}
Pushes(base, local, remote) ==
  {p \in Paths : local[p] # remote[p] /\ local[p] # base[p] /\ remote[p] = base[p]}
Conflicts(base, local, remote) ==
  {p \in Paths : local[p] # remote[p] /\ local[p] # base[p] /\ remote[p] # base[p]}

(* A packet: a function from the changed paths to the new content, None    *)
(* for a deletion.                                                         *)
ApplyPacket(digests, packet) ==
  [p \in Paths |-> IF p \in DOMAIN packet THEN packet[p] ELSE digests[p]]

EmptyPacket == [p \in {} |-> None]
WithChange(packet, path, value) ==
  [p \in DOMAIN packet \cup {path} |-> IF p = path THEN value ELSE packet[p]]

(* assertNoCaseCollisions and assertNoFileDirectoryCollisions. *)
Portable(paths) == \A clash \in Clashing : ~(clash \subseteq paths)

(* A copy of p's remote version that this device already has. *)
HasCopy(local, p, content) == \E q \in CopiesOf[p] : local[q] = content

(* The names chosen for the copies of `conflicts`: different ones, none of *)
(* them taken.                                                             *)
CopyNamings(conflicts, taken) ==
  {name \in [conflicts -> Paths] :
     /\ \A p \in conflicts : name[p] \in CopiesOf[p] \ taken
     /\ \A p, q \in conflicts : name[p] = name[q] => p = q}
=============================================================================
