------------------------------ MODULE PacketSize ------------------------------
(***************************************************************************)
(* Packets in bytes: what a packet takes on the wire (encodePacket in      *)
(* src/sync/packet.ts), what the engine estimates that it takes (putCost   *)
(* and deleteCost in src/sync/engine.ts), and the largest file that is     *)
(* uploaded at all.                                                        *)
(*                                                                         *)
(* Nothing in a packet is escaped: validateSyncPath forbids the characters *)
(* that JSON escapes, and names are taken to be well-formed Unicode.       *)
(***************************************************************************)
EXTENDS Integers, FiniteSets, Plan

CONSTANTS
  PACKET_LIMIT,    \* bytes of a packet the server and the plugin accept
  PACKET_RESERVE,  \* PACKET_RESERVE_BYTES, 64 KiB in the code
  PathBytes,       \* the bytes of a path in UTF-8, at most 3 * 1024
  ContentBytes     \* the size of a file with a given content

(* The server's limit is at least 128 KiB (capabilities.ts), and a path    *)
(* fits into the reserve with all that surrounds it.                       *)
ASSUME PacketSizeAssumption ==
  /\ IsFiniteSet(Paths)
  /\ PACKET_LIMIT \in Nat /\ PACKET_RESERVE \in 64 .. PACKET_LIMIT
  /\ PathBytes \in [Paths -> Nat]
  /\ \A p \in Paths : PathBytes[p] + 64 + 160 <= PACKET_RESERVE
  /\ ContentBytes \in [DOMAIN ContentBytes -> Nat] /\ None \notin DOMAIN ContentBytes

(* Seeded fault: the growth of the bytes in Base64 is forgotten. *)
maxFileBytesMutant == PACKET_LIMIT - PACKET_RESERVE

(* "Largest file that always fits into one packet" (engine.ts). *)
maxFileBytes == ((PACKET_LIMIT - PACKET_RESERVE) \div 4) * 3

Oversized == {content \in DOMAIN ContentBytes : ContentBytes[content] > maxFileBytes}

Base64Bytes(size) == ((size + 2) \div 3) * 4

(* putCost and deleteCost. *)
Cost(p, value) ==
  IF value = None THEN PathBytes[p] + 48
  ELSE Base64Bytes(ContentBytes[value]) + PathBytes[p] + 160

(* A change in the JSON text of a packet, with its comma: a deletion is    *)
(* its path and its kind, a put its path, kind, bytes and SHA-256.         *)
EncodedChange(p, value) ==
  IF value = None THEN PathBytes[p] + 28
  ELSE Base64Bytes(ContentBytes[value]) + PathBytes[p] + 112

(* The sum of sizes[p] over all p: as many bytes as there are pairs of a p *)
(* and the place of a byte of it.                                          *)
Total(sizes) == Cardinality(UNION {{p} \X (1 .. sizes[p]) : p \in DOMAIN sizes})

Estimate(packet) == 64 + Total([p \in DOMAIN packet |-> Cost(p, packet[p])])
EncodedBytes(packet) == 32 + Total([p \in DOMAIN packet |-> EncodedChange(p, packet[p])])

(* encodePacket does not throw "Packet exceeds the server limit." *)
Encodable(packet) == EncodedBytes(packet) <= PACKET_LIMIT

(* Bound: a content that is too large does not fit into any packet.  The   *)
(* few sizes above maxFileBytes that would, thanks to the reserve, are     *)
(* left out: a device that lists such a file does not compare its content. *)
ASSUME OversizedAssumption ==
  \A content \in Oversized, p \in Paths : ~Encodable([q \in {p} |-> content])
=============================================================================
