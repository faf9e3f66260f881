---------------------------- MODULE PacketProofs ----------------------------
(***************************************************************************)
(* A proof that what push packs can be encoded: the costs that the engine  *)
(* adds up bound the bytes of a packet, and a file that is small enough to *)
(* be uploaded fits into a packet of its own - for any sizes of files and  *)
(* names, any limit and any number of changes.                             *)
(***************************************************************************)
EXTENDS EngineProofs

-----------------------------------------------------------------------------
(* Sums.  Total(sizes) is the number of these pairs.                       *)

Pairs(sizes) == UNION {{p} \X (1 .. sizes[p]) : p \in DOMAIN sizes}

LEMMA PairIn ==
  ASSUME NEW D, NEW sizes \in [D -> Nat], NEW x
  PROVE  x \in Pairs(sizes) <=> \E p \in D : \E i \in 1 .. sizes[p] : x = <<p, i>>
BY DEF Pairs

LEMMA RowSize ==
  ASSUME NEW p, NEW n \in Nat
  PROVE  IsFiniteSet({p} \X (1 .. n)) /\ Cardinality({p} \X (1 .. n)) = n
<1>1. IsFiniteSet({p}) /\ Cardinality({p}) = 1
  BY FS_Singleton
<1>2. IsFiniteSet(1 .. n) /\ Cardinality(1 .. n) = n
  <2>1. 1 \in Int /\ n \in Int
    OBVIOUS
  <2>2. IsFiniteSet(1 .. n) /\ Cardinality(1 .. n) = IF 1 > n THEN 0 ELSE n - 1 + 1
    BY <2>1, FS_Interval
  <2> QED
    BY <2>2
<1>3. /\ IsFiniteSet({p} \X (1 .. n))
      /\ Cardinality({p} \X (1 .. n)) = Cardinality({p}) * Cardinality(1 .. n)
  BY <1>1, <1>2, FS_Product
<1> QED
  BY <1>1, <1>2, <1>3

(* As many sets of pairs as there are p, each as large as sizes[p].        *)
LEMMA FinitePairs ==
  ASSUME NEW D, IsFiniteSet(D), NEW sizes \in [D -> Nat]
  PROVE  IsFiniteSet(Pairs(sizes))
<1> DEFINE row == [p \in D |-> {p} \X (1 .. sizes[p])]
           Rows == {{p} \X (1 .. sizes[p]) : p \in DOMAIN sizes}
<1>1. row \in Surjection(D, Rows)
  <2>1. row \in [D -> Rows]
    OBVIOUS
  <2>2. \A r \in Rows : \E p \in D : row[p] = r
    OBVIOUS
  <2> QED
    BY <2>1, <2>2 DEF Surjection
<1>2. IsFiniteSet(Rows)
  <2> HIDE DEF row, Rows
  <2> QED
    BY <1>1, FS_Surjection
<1>3. \A r \in Rows : IsFiniteSet(r)
  <2> SUFFICES ASSUME NEW p \in D
               PROVE  IsFiniteSet({p} \X (1 .. sizes[p]))
    OBVIOUS
  <2> QED
    BY RowSize
<1> HIDE DEF Rows
<1>4. IsFiniteSet(UNION Rows)
  BY <1>2, <1>3, FS_UNION
<1> QED
  BY <1>4 DEF Rows, Pairs

(* A sum grows with its parts.                                             *)
LEMMA TotalGrows ==
  ASSUME NEW D, IsFiniteSet(D), NEW sizes \in [D -> Nat], NEW larger \in [D -> Nat],
         \A p \in D : sizes[p] <= larger[p]
  PROVE  /\ Total(sizes) \in Nat /\ Total(larger) \in Nat
         /\ Total(sizes) <= Total(larger)
<1>1. IsFiniteSet(Pairs(sizes)) /\ IsFiniteSet(Pairs(larger))
  BY FinitePairs
<1>2. \A p \in D : 1 .. sizes[p] \subseteq 1 .. larger[p]
  OBVIOUS
<1>3. Pairs(sizes) \subseteq Pairs(larger)
  BY <1>2, PairIn
<1> QED
  BY <1>1, <1>3, FS_CardinalityType, FS_Subset DEF Total, Pairs

(* One part more, or another one at p, adds at most its size.              *)
LEMMA TotalAdds ==
  ASSUME NEW D, IsFiniteSet(D), NEW p, NEW sizes \in [D -> Nat],
         NEW more \in [D \cup {p} -> Nat], \A q \in D \ {p} : more[q] = sizes[q]
  PROVE  Total(more) <= Total(sizes) + more[p]
<1> DEFINE new == {p} \X (1 .. more[p])
<1>1. IsFiniteSet(Pairs(sizes)) /\ Cardinality(Pairs(sizes)) \in Nat
  BY FinitePairs, FS_CardinalityType
<1>2. IsFiniteSet(new) /\ Cardinality(new) = more[p]
  BY RowSize
<1>3. Pairs(more) \subseteq Pairs(sizes) \cup new
  BY PairIn
<1> HIDE DEF new
<1>4. /\ IsFiniteSet(Pairs(sizes) \cup new)
      /\ Cardinality(Pairs(sizes) \cup new) <= Cardinality(Pairs(sizes)) + more[p]
  <2>1. Cardinality(Pairs(sizes) \cap new) \in Nat
    BY <1>1, FS_Intersection, FS_CardinalityType
  <2> QED
    BY <1>1, <1>2, <2>1, FS_Union
<1>5. /\ Cardinality(Pairs(more)) <= Cardinality(Pairs(sizes) \cup new)
      /\ Cardinality(Pairs(more)) \in Nat /\ Cardinality(Pairs(sizes) \cup new) \in Nat
  BY <1>3, <1>4, FS_Subset, FS_CardinalityType
<1> QED
  BY <1>1, <1>4, <1>5 DEF Total, Pairs

LEMMA NothingTotal ==
  ASSUME NEW sizes, DOMAIN sizes = {}
  PROVE  Total(sizes) = 0
BY FS_EmptySet DEF Total

-----------------------------------------------------------------------------
(* Costs. *)

LEMMA CostBounds ==
  ASSUME NEW p \in Paths, NEW value \in Contents \cup {None}
  PROVE  /\ Cost(p, value) \in Nat /\ EncodedChange(p, value) \in Nat
         /\ EncodedChange(p, value) <= Cost(p, value)
<1>1. PathBytes[p] \in Nat
  BY PacketSizeAssumption
<1>2. CASE value = None
  BY <1>1, <1>2 DEF Cost, EncodedChange
<1>3. CASE value # None
  <2> DEFINE size == ContentBytes[value]
  <2>1. size \in Nat
    BY <1>3, PacketSizeAssumption, SyncSystemAssumption
  <2> HIDE DEF size
  <2>2. Base64Bytes(size) \in Nat
    BY <2>1 DEF Base64Bytes
  <2> QED
    BY <1>1, <1>3, <2>2 DEF Cost, EncodedChange, size
<1> QED
  BY <1>2, <1>3

Costs(packet) == [p \in DOMAIN packet |-> Cost(p, packet[p])]

LEMMA CostsType ==
  ASSUME NEW packet \in Packets
  PROVE  /\ IsFiniteSet(DOMAIN packet) /\ Costs(packet) \in [DOMAIN packet -> Nat]
         /\ Total(Costs(packet)) \in Nat
<1>1. IsFiniteSet(DOMAIN packet)
  BY PacketParts, PacketSizeAssumption, FS_Subset
<1>2. Costs(packet) \in [DOMAIN packet -> Nat]
  BY PacketParts, CostBounds DEF Costs
<1> QED
  BY <1>1, <1>2, TotalGrows

(* The estimate is never less than the bytes of the packet.                *)
LEMMA EstimateBounds ==
  ASSUME NEW packet \in Packets
  PROVE  /\ EncodedBytes(packet) \in Nat /\ Estimate(packet) \in Nat
         /\ EncodedBytes(packet) <= Estimate(packet)
<1> DEFINE encoded == [p \in DOMAIN packet |-> EncodedChange(p, packet[p])]
<1>1. \A p \in DOMAIN packet : p \in Paths /\ packet[p] \in Contents \cup {None}
  BY PacketParts
<1>2. encoded \in [DOMAIN packet -> Nat] /\ \A p \in DOMAIN packet : encoded[p] <= Costs(packet)[p]
  BY <1>1, CostBounds DEF Costs
<1> HIDE DEF encoded
<1>3. /\ Total(encoded) \in Nat /\ Total(Costs(packet)) \in Nat
      /\ Total(encoded) <= Total(Costs(packet))
  BY <1>2, CostsType, TotalGrows
<1> QED
  BY <1>3 DEF EncodedBytes, Estimate, Costs, encoded

(* A change adds no more than its cost to the estimate.                    *)
LEMMA EstimateAdds ==
  ASSUME NEW packet \in Packets, NEW p \in Paths, NEW value \in Contents \cup {None}
  PROVE  /\ Estimate(packet) \in Nat /\ Estimate(WithChange(packet, p, value)) \in Nat
         /\ Estimate(WithChange(packet, p, value)) <= Estimate(packet) + Cost(p, value)
<1>1. PICK longer : longer = WithChange(packet, p, value)
  OBVIOUS
<1>2. /\ longer \in Packets /\ DOMAIN longer = DOMAIN packet \cup {p}
      /\ \A q \in DOMAIN packet \cup {p} : longer[q] = IF q = p THEN value ELSE packet[q]
  BY <1>1, WithChangeType
<1>3. /\ IsFiniteSet(DOMAIN packet) /\ Costs(packet) \in [DOMAIN packet -> Nat]
      /\ Costs(longer) \in [DOMAIN packet \cup {p} -> Nat]
      /\ Total(Costs(packet)) \in Nat /\ Total(Costs(longer)) \in Nat
  BY <1>2, CostsType
<1>4. /\ Costs(longer)[p] = Cost(p, value)
      /\ \A q \in DOMAIN packet \ {p} : Costs(longer)[q] = Costs(packet)[q]
  BY <1>2 DEF Costs
<1>5. Total(Costs(longer)) <= Total(Costs(packet)) + Cost(p, value)
  BY <1>3, <1>4, TotalAdds
<1>6. Cost(p, value) \in Nat
  BY CostBounds
<1> QED
  BY <1>1, <1>3, <1>5, <1>6 DEF Estimate, Costs

(* A deletion, and a file of at most maxFileBytes, fits into a packet.     *)
LEMMA SmallFits ==
  ASSUME NEW p \in Paths, NEW value \in Contents \cup {None}, value \notin Oversized
  PROVE  64 + Cost(p, value) <= PACKET_LIMIT
<1>1. /\ PACKET_LIMIT \in Nat /\ PACKET_RESERVE \in Nat /\ PathBytes[p] \in Nat
      /\ PACKET_RESERVE <= PACKET_LIMIT /\ PathBytes[p] + 64 + 160 <= PACKET_RESERVE
  BY PacketSizeAssumption
<1>2. CASE value = None
  BY <1>1, <1>2 DEF Cost
<1>3. CASE value # None
  <2> DEFINE size == ContentBytes[value]
             quarters == (PACKET_LIMIT - PACKET_RESERVE) \div 4
  <2>1. size \in Nat /\ size <= quarters * 3
    BY <1>3, PacketSizeAssumption, SyncSystemAssumption, <1>1 DEF Oversized, maxFileBytes
  <2>2. quarters \in Nat /\ quarters * 4 <= PACKET_LIMIT - PACKET_RESERVE
    BY <1>1
  <2> HIDE DEF size, quarters
  <2>3. Base64Bytes(size) \in Nat /\ Base64Bytes(size) <= quarters * 4
    BY <2>1, <2>2 DEF Base64Bytes
  <2> QED
    BY <1>1, <1>3, <2>2, <2>3 DEF Cost, size
<1> QED
  BY <1>2, <1>3

(* A packet of one change.                                                 *)
LEMMA AloneCost ==
  ASSUME NEW packet \in Packets, DOMAIN packet = {}, NEW p \in Paths,
         NEW value \in Contents \cup {None}
  PROVE  Estimate(WithChange(packet, p, value)) <= 64 + Cost(p, value)
<1>1. Estimate(packet) = 64
  BY NothingTotal DEF Estimate
<1> QED
  BY <1>1, EstimateAdds
-----------------------------------------------------------------------------
(* The inductive invariant. *)

(* What has been packed is estimated to fit, or it has a file in it that   *)
(* has grown since it was listed; nothing listed as too large is packed.   *)
Packable(packet, large) ==
  \/ DOMAIN packet = {}
  \/ Estimate(packet) <= PACKET_LIMIT
  \/ \E p \in DOMAIN packet \ large : packet[p] \in Oversized

PackOK(d) ==
  /\ Packable(work[d].batch, work[d].large)
  /\ Pushing(d) => work[d].puts \cap work[d].large = {}

PackInv == \A d \in Devices : PackOK(d)

LEMMA AloneFits ==
  ASSUME NEW packet \in Packets, DOMAIN packet = {}, NEW p \in Paths,
         NEW value \in Contents \cup {None}, NEW large, value \in Oversized => p \notin large
  PROVE  Packable(WithChange(packet, p, value), large)
<1>1. PICK alone : alone = WithChange(packet, p, value)
  OBVIOUS
<1>2. p \in DOMAIN alone /\ alone[p] = value
  BY <1>1 DEF WithChange
<1>3. CASE value \in Oversized
  BY <1>1, <1>2, <1>3 DEF Packable
<1>4. CASE value \notin Oversized
  <2>1. Estimate(alone) \in Nat /\ Estimate(alone) <= 64 + Cost(p, value)
    BY <1>1, AloneCost, EstimateAdds
  <2>2. 64 + Cost(p, value) <= PACKET_LIMIT /\ Cost(p, value) \in Nat /\ PACKET_LIMIT \in Nat
    BY <1>4, SmallFits, CostBounds, PacketSizeAssumption
  <2>3. Estimate(alone) <= PACKET_LIMIT
    BY <2>1, <2>2
  <2> QED
    BY <1>1, <2>3 DEF Packable
<1> QED
  BY <1>3, <1>4

LEMMA PackStart == Init => PackInv
  BY EmptyPacketType DEF Init, PackInv, PackOK, Packable, Pushing, NewWork

(* A change joins a packet that has room for it, or starts the next one.   *)
LEMMA AddedFits ==
  ASSUME SystemTypeOK, NEW d \in Devices, PackOK(d), Pushing(d),
         NEW p \in Paths, NEW value \in Contents \cup {None},
         value \in Oversized => p \notin work[d].large,
         AddChange(d, p, value), ~Stop(d)
  PROVE  PackOK(d)'
<1>1. /\ work \in [Devices -> Works] /\ work[d] \in Works
      /\ work[d].batch \in Packets /\ EmptyPacket \in Packets /\ DOMAIN EmptyPacket = {}
  BY EmptyPacketType DEF SystemTypeOK, Works
<1>2. PICK joined, next : /\ joined = WithChange(work[d].batch, p, value)
                          /\ next = WithChange(EmptyPacket, p, value)
  OBVIOUS
<1>3. Packable(next, work[d].large)
  BY <1>1, <1>2, AloneFits
<1>4. ASSUME HasRoom(d, p, value)
      PROVE  Packable(joined, work[d].large)
  <2>1. CASE DOMAIN work[d].batch = {}
    BY <1>1, <1>2, <2>1, AloneFits
  <2>2. CASE Estimate(work[d].batch) + Cost(p, value) <= PACKET_LIMIT
    <3>1. /\ Estimate(work[d].batch) \in Nat /\ Estimate(joined) \in Nat
          /\ Estimate(joined) <= Estimate(work[d].batch) + Cost(p, value)
      BY <1>1, <1>2, EstimateAdds
    <3>2. Cost(p, value) \in Nat /\ PACKET_LIMIT \in Nat
      BY CostBounds, PacketSizeAssumption
    <3> QED
      BY <2>2, <3>1, <3>2 DEF Packable
  <2> QED
    BY <1>4, <2>1, <2>2 DEF HasRoom
<1>5. ASSUME NEW packet, work'[d].batch = packet, Packable(packet, work[d].large),
             work'[d].puts \subseteq work[d].puts, work'[d].large = work[d].large
      PROVE  PackOK(d)'
  BY <1>5 DEF PackOK, Packable
<1> DEFINE rest == [work[d] EXCEPT !.deletes = @ \ {p}, !.puts = @ \ {p}]
<1>6. CASE HasRoom(d, p, value) /\ work' = [work EXCEPT ![d] = [rest EXCEPT !.batch = joined]]
  <2>1. /\ work'[d].batch = joined /\ work'[d].puts \subseteq work[d].puts
        /\ work'[d].large = work[d].large
    BY <1>1, <1>6 DEF Works
  <2> QED
    BY <1>4, <1>5, <1>6, <2>1
<1>7. CASE work' = [work EXCEPT ![d] = [[rest EXCEPT !.batch = next] EXCEPT
                                          !.body = work[d].batch]]
  <2>1. /\ work'[d].batch = next /\ work'[d].puts \subseteq work[d].puts
        /\ work'[d].large = work[d].large
    BY <1>1, <1>7 DEF Works
  <2> QED
    BY <1>3, <1>5, <2>1
<1>8. \/ HasRoom(d, p, value) /\ work' = [work EXCEPT ![d] = [rest EXCEPT !.batch = joined]]
      \/ work' = [work EXCEPT ![d] = [[rest EXCEPT !.batch = next] EXCEPT
                                        !.body = work[d].batch]]
  <2>1. CASE HasRoom(d, p, value)
    BY <1>1, <1>2, <2>1 DEF AddChange, Works
  <2>2. CASE ~HasRoom(d, p, value)
    BY <1>2, <2>2 DEF AddChange, Flush, NextPacket
  <2> QED
    BY <2>1, <2>2
<1> QED
  BY <1>6, <1>7, <1>8

LEMMA PackOwnStep ==
  ASSUME SystemTypeOK, PendingInv, NEW d \in Devices, PushOK(d), PushOK(d)', LargeOK(d),
         PackOK(d), EngineStep(d) \/ Failure(d)
  PROVE  PackOK(d)'
<1>1. /\ work \in [Devices -> Works] /\ work[d] \in Works
      /\ pc \in [Devices -> Labels] /\ pc[d] \in Labels
  BY DEF SystemTypeOK
<1>2. ContextOK(d)
  BY DEF PendingInv
(* Outside of a push there is no packet.                                   *)
<1>3. ASSUME ~Pushing(d)'
      PROVE  PackOK(d)'
  BY <1>3 DEF PackOK, Packable, PushOK
<1>4. ASSUME Stop(d)
      PROVE  PackOK(d)'
  BY <1>1, <1>3, <1>4 DEF Stop, Pushing
<1>5. ASSUME Pushing(d), work'[d].batch = work[d].batch, work'[d].puts = work[d].puts,
             work'[d].large = work[d].large
      PROVE  PackOK(d)'
  BY <1>5 DEF PackOK, Packable
<1>6. ASSUME AfterDrop(d)
      PROVE  PackOK(d)'
  <2>1. CASE NewRound(d, work[d].round + 1)
    <3>1. work'[d] = [NewWork EXCEPT !.round = work[d].round + 1, !.merging = work[d].merging]
      BY <1>1, <2>1 DEF NewRound
    <3> QED
      BY <1>3, <3>1 DEF NewWork, Pushing
  <2>2. CASE work[d].ctx = "pull" /\ UNCHANGED work
    BY <1>3, <2>2 DEF Pushing
  <2> QED
    BY <1>4, <1>6, <2>1, <2>2 DEF AfterDrop
<1>7. CASE LoadState(d)
  <2>1. work[d].ctx = "pull" /\ work'[d].ctx = work[d].ctx
    BY <1>1, <1>2, <1>7 DEF LoadState, ContextOK, Works
  <2> QED
    BY <1>3, <2>1 DEF Pushing
<1>8. CASE SubmitPending(d) \/ UploadReply(d)
  <2>1. pc[d] \in {"submit", "reply"}
    BY <1>8 DEF SubmitPending, UploadReply
  <2>2. CASE UNCHANGED work
    BY <1>3, <1>5, <2>1, <2>2 DEF Pushing
  <2>3. CASE Confirm(d)
    <3>1. /\ work'[d].ctx = work[d].ctx /\ work'[d].batch = work[d].batch
          /\ work'[d].puts = work[d].puts /\ work'[d].large = work[d].large
      BY <1>1, <2>3 DEF Confirm, Works
    <3> QED
      BY <1>3, <1>5, <2>1, <3>1 DEF Pushing
  <2> QED
    BY <1>4, <1>6, <1>8, <2>2, <2>3 DEF SubmitPending, UploadReply
<1>9. CASE PullStep(d)
  <2>1. pc'[d] \in {"idle", "head", "fetch", "list", "scan", "apply", "trash", "write"}
    BY <1>1, <1>9
    DEF PullStep, AskHead, ResetBase, UpToDate, StartBatch, Fetch, ListVault, ReadFile,
        PlanRemote, CheckDelete, TrashFile, WriteCopy, CheckPut, WriteFile, SaveBatch,
        Goto, Stop
  <2> QED
    BY <1>3, <2>1 DEF Pushing
(* Nothing that was listed as too large is planned to be put.              *)
<1>10. CASE PlanPush(d)
  <2>1. CASE work' = [work EXCEPT ![d].deletes = PushedDeletes(d), ![d].puts = PushedPuts(d)]
    <3>1. /\ work'[d].batch = work[d].batch /\ work'[d].large = work[d].large
          /\ work'[d].puts = PushedPuts(d)
      BY <1>1, <2>1 DEF Works
    <3>2. DOMAIN work[d].batch = {}
      BY <1>10 DEF PlanPush, PushOK, Pushing
    <3>3. PushedPuts(d) \cap work[d].large = {}
      BY DEF PushedPuts
    <3> QED
      BY <3>1, <3>2, <3>3 DEF PackOK, Packable
  <2> QED
    BY <1>4, <1>10, <2>1 DEF PlanPush
<1>11. CASE PackDelete(d) /\ ~Stop(d)
  <2>1. Pushing(d) /\ NextDelete(d) \in Paths
    BY <1>1, <1>2, <1>11, FirstIsIn DEF PackDelete, ContextOK, Pushing, NextDelete, Works
  <2>2. None \notin Oversized
    BY PacketSizeAssumption DEF Oversized
  <2> QED
    BY <1>11, <2>1, <2>2, AddedFits DEF PackDelete
<1>12. CASE PackPut(d) /\ ~Stop(d)
  <2>1. Pushing(d) /\ NextPut(d) \in work[d].puts
    BY <1>2, <1>12, FirstIsIn DEF PackPut, ContextOK, Pushing, NextPut
  <2>2. NextPut(d) \in Paths /\ Local(d) \in Digests
    BY <1>1, <2>1 DEF Works, Local
  <2>3. Local(d)[NextPut(d)] \in Contents \cup {None} /\ NextPut(d) \notin work[d].large
    BY <2>1, <2>2 DEF Digests, PackOK
  <2>4. AddChange(d, NextPut(d), Local(d)[NextPut(d)])
    BY <1>12 DEF PackPut
  <2> QED
    BY <1>12, <2>1, <2>2, <2>3, <2>4, AddedFits
<1>13. CASE FlushLast(d)
  <2>1. Pushing(d)
    BY <1>2, <1>13 DEF FlushLast, ContextOK, Pushing
  <2>2. CASE Flushed(d)
    <3>1. /\ work'[d].batch = EmptyPacket /\ work'[d].puts = work[d].puts
          /\ work'[d].large = work[d].large
      BY <1>1, <2>2 DEF Flushed, Works
    <3> QED
      BY <2>1, <3>1, EmptyPacketType DEF PackOK, Packable
  <2>3. CASE Finished(d)
    BY <1>5, <2>1, <2>3 DEF Finished
  <2> QED
    BY <1>4, <1>13, <2>2, <2>3, FlushLastCases
<1>14. CASE PersistPacket(d) \/ RecordPending(d)
  BY <1>2, <1>5, <1>14 DEF PersistPacket, RecordPending, ContextOK, Pushing
<1>15. CASE Report(d)
  BY <1>4, <1>15 DEF Report
<1>16. CASE Failure(d)
  <2>1. CASE DamageState(d)
    BY <2>1 DEF DamageState, PackOK, Packable, Pushing
  <2> QED
    BY <1>4, <1>16, <2>1 DEF Failure, Interrupt
<1> QED
  BY <1>4, <1>7, <1>8, <1>9, <1>10, <1>11, <1>12, <1>13, <1>14, <1>15, <1>16
  DEF EngineStep, PushStep

LEMMA PackStep ==
  ASSUME SystemTypeOK, PendingInv, PushInv, PushInv', PackInv, [Next]_vars
  PROVE  PackInv'
<1> SUFFICES ASSUME NEW e \in Devices
             PROVE  PackOK(e)'
  BY DEF PackInv
<1>1. PackOK(e) /\ PushOK(e) /\ PushOK(e)' /\ LargeOK(e)
  BY DEF PackInv, PushInv
<1>2. ASSUME UNCHANGED <<pc[e], work[e]>>
      PROVE  PackOK(e)'
  BY <1>1, <1>2 DEF PackOK, Packable, Pushing
<1>3. ASSUME NEW m \in net, HandleUpload(m)
      PROVE  PackOK(e)'
  BY <1>2, <1>3 DEF HandleUpload
<1>4. ASSUME NEW revision, Restore(revision)
      PROVE  PackOK(e)'
  BY <1>2, <1>4 DEF Restore, plugin
<1>5. ASSUME NEW d \in Devices, UserStep(d)
      PROVE  PackOK(e)'
  BY <1>2, <1>5, UserTypeStep DEF plugin
<1>6. ASSUME NEW d \in Devices, EngineStep(d) \/ Failure(d)
      PROVE  PackOK(e)'
  BY <1>1, <1>2, <1>6, OthersKeep, PackOwnStep DEF Own
<1>7. CASE UNCHANGED vars
  BY <1>2, <1>7 DEF vars
<1> QED
  BY <1>3, <1>4, <1>5, <1>6, <1>7 DEF Next, ServerStep, Sync, Fail

LEMMA PackInvHolds == Spec => []PackInv
<1>1. Init => PackInv
  BY PackStart
<1>2. (SystemTypeOK /\ PendingInv) /\ PushInv /\ PushInv' /\ PackInv /\ [Next]_vars => PackInv'
  BY PackStep
<1> QED
  BY <1>1, <1>2, PendingInvHolds, PushInvHolds, PTL DEF Spec

(* Push never packs more than can be encoded, whatever the sizes of files  *)
(* and names, unless a file has grown between the scan's listing, which    *)
(* found it small enough, and its reading: the costs it adds up and the    *)
(* limit it sets on files are never too small.                             *)
THEOREM PacketsAlwaysFit == Spec => []PacketsFit
<1>1. SystemTypeOK /\ PackInv => PacketsFit
  <2> SUFFICES ASSUME SystemTypeOK, PackInv, NEW d \in Devices,
                      NEW batch, batch = work[d].batch
               PROVE  \/ Encodable(batch)
                      \/ \E p \in DOMAIN batch \ work[d].large : batch[p] \in Oversized
    BY DEF PacketsFit
  <2>1. batch \in Packets /\ Packable(batch, work[d].large)
    BY DEF SystemTypeOK, Works, PackInv, PackOK
  <2>2. PACKET_LIMIT \in Nat /\ PACKET_LIMIT >= 64
    BY PacketSizeAssumption
  <2>3. CASE DOMAIN batch = {}
    <3>1. EncodedBytes(batch) = 32
      BY <2>3, NothingTotal DEF EncodedBytes
    <3> QED
      BY <2>2, <3>1 DEF Encodable
  <2>4. CASE Estimate(batch) <= PACKET_LIMIT
    <3>1. /\ Estimate(batch) \in Nat /\ EncodedBytes(batch) \in Nat
          /\ EncodedBytes(batch) <= Estimate(batch)
      BY <2>1, EstimateBounds
    <3> QED
      BY <2>2, <2>4, <3>1 DEF Encodable
  <2> QED
    BY <2>1, <2>3, <2>4 DEF Packable
<1> QED
  BY <1>1, EngineTypeCorrect, PackInvHolds, PTL
=============================================================================
