------------------------ MODULE PublishTrackingProof ------------------------
(***************************************************************************)
(* Proofs about PublishTracking for any sets of volume and node IDs, of    *)
(* any lengths, as long as no volume ID contains the separator.            *)
(*                                                                         *)
(* Then the first separator of a key ends its volume ID, so that keys of   *)
(* different attachments differ (KeysDiffer) and the keys with the prefix  *)
(* of a volume are exactly those of that volume (PrefixExact).  Everything *)
(* else follows from these two facts.                                      *)
(***************************************************************************)
EXTENDS PublishTracking, TLAPS

-----------------------------------------------------------------------------
(* A key, letter by letter.                                                *)
LEMMA KeyShape ==
  ASSUME NEW v \in VolumeIds, NEW n \in NodeIds
  PROVE  /\ publishKey(v, n) \in Seq(Words)
         /\ Len(publishKey(v, n)) = Len(v) + 1 + Len(n)
         /\ \A i \in 1 .. Len(v) : publishKey(v, n)[i] = v[i]
         /\ publishKey(v, n)[Len(v) + 1] = Colon
         /\ \A i \in 1 .. Len(n) : publishKey(v, n)[Len(v) + 1 + i] = n[i]
<1>1. v \in Seq(Words) /\ n \in Seq(Words) /\ <<Colon>> \in Seq(Words)
  BY IdsAssumption
<1>. QED
  BY <1>1 DEF publishKey

(* The prefix of a volume, letter by letter.                               *)
LEMMA PrefixShape ==
  ASSUME NEW v \in VolumeIds
  PROVE  /\ v \o <<Colon>> \in Seq(Words)
         /\ Len(v \o <<Colon>>) = Len(v) + 1
         /\ \A i \in 1 .. Len(v) : (v \o <<Colon>>)[i] = v[i]
         /\ (v \o <<Colon>>)[Len(v) + 1] = Colon
<1>1. v \in Seq(Words) /\ <<Colon>> \in Seq(Words)
  BY IdsAssumption
<1>. QED
  BY <1>1

(* A key has the prefix of a volume if and only if it is one of its keys.  *)
LEMMA PrefixExact ==
  ASSUME ColonFree, NEW v \in VolumeIds, NEW w \in VolumeIds, NEW n \in NodeIds
  PROVE  HasPrefix(publishKey(w, n), v \o <<Colon>>) <=> v = w
<1>. DEFINE k == publishKey(w, n)
            p == v \o <<Colon>>
<1>0. v \in Seq(Words) /\ w \in Seq(Words) /\ n \in Seq(Words)
  BY IdsAssumption
<1>1. ASSUME HasPrefix(k, p) PROVE v = w
  <2>1. /\ Len(p) <= Len(k)
        /\ \A i \in 1 .. Len(p) : p[i] = k[i]
    <3>1. SubSeq(k, 1, Len(p)) = p /\ Len(p) <= Len(k)
      BY <1>1 DEF HasPrefix
    <3>2. \A i \in 1 .. Len(p) : SubSeq(k, 1, Len(p))[i] = k[i]
      BY <3>1, KeyShape, PrefixShape
    <3>. QED
      BY <3>1, <3>2
  <2>2. ~(Len(v) < Len(w))
    <3>1. SUFFICES ASSUME Len(v) < Len(w) PROVE FALSE
      OBVIOUS
    <3>2. p[Len(v) + 1] = Colon /\ p[Len(v) + 1] = k[Len(v) + 1]
      BY <1>0, <2>1, PrefixShape
    <3>3. Len(v) + 1 \in 1 .. Len(w) /\ k[Len(v) + 1] = w[Len(v) + 1]
      BY <1>0, <3>1, KeyShape
    <3>. QED
      BY <1>0, <3>2, <3>3 DEF ColonFree
  <2>3. ~(Len(w) < Len(v))
    <3>1. SUFFICES ASSUME Len(w) < Len(v) PROVE FALSE
      OBVIOUS
    <3>2. k[Len(w) + 1] = Colon
      BY KeyShape
    <3>3. Len(w) + 1 \in 1 .. Len(v) /\ p[Len(w) + 1] = v[Len(w) + 1]
      BY <1>0, <3>1, PrefixShape
    <3>4. p[Len(w) + 1] = k[Len(w) + 1]
      BY <1>0, <2>1, <3>1, PrefixShape
    <3>. QED
      BY <1>0, <3>2, <3>3, <3>4 DEF ColonFree
  <2>4. Len(v) = Len(w)
    BY <1>0, <2>2, <2>3
  <2>5. \A i \in 1 .. Len(v) : v[i] = w[i]
    <3>1. TAKE i \in 1 .. Len(v)
    <3>2. i \in 1 .. Len(p) /\ p[i] = v[i]
      BY <1>0, PrefixShape
    <3>3. i \in 1 .. Len(w) /\ k[i] = w[i]
      BY <1>0, <2>4, KeyShape
    <3>. QED
      BY <2>1, <3>2, <3>3
  <2>. QED
    BY <1>0, <2>4, <2>5
<1>2. ASSUME v = w PROVE HasPrefix(k, p)
  <2>1. Len(p) <= Len(k)
    BY <1>0, <1>2, KeyShape, PrefixShape
  <2>2. SubSeq(k, 1, Len(p)) \in Seq(Words) /\ Len(SubSeq(k, 1, Len(p))) = Len(p)
    BY <2>1, KeyShape, PrefixShape
  <2>3. \A i \in 1 .. Len(p) : SubSeq(k, 1, Len(p))[i] = k[i]
    BY <2>1, KeyShape, PrefixShape
  <2>4. \A i \in 1 .. Len(p) : k[i] = p[i]
    BY <1>0, <1>2, KeyShape, PrefixShape
  <2>5. SubSeq(k, 1, Len(p)) = p
    <3>1. \A q \in Seq(Words) : Len(q) = Len(p) /\ (\A i \in 1 .. Len(p) : q[i] = p[i]) => q = p
      BY PrefixShape
    <3>. QED
      BY <2>2, <2>3, <2>4, <3>1
  <2>. QED
    BY <2>1, <2>5 DEF HasPrefix
<1>. QED
  BY <1>1, <1>2

(* Different attachments have different keys.                              *)
LEMMA KeysDiffer ==
  ASSUME ColonFree, NEW v \in VolumeIds, NEW w \in VolumeIds, NEW n \in NodeIds, NEW m \in NodeIds,
         publishKey(v, n) = publishKey(w, m)
  PROVE  v = w /\ n = m
<1>0. v \in Seq(Words) /\ w \in Seq(Words) /\ n \in Seq(Words) /\ m \in Seq(Words)
  BY IdsAssumption
<1>1. v = w
  BY PrefixExact
<1>2. Len(n) = Len(m)
  BY <1>0, <1>1, KeyShape
<1>3. \A i \in 1 .. Len(n) : n[i] = m[i]
  BY <1>0, <1>1, <1>2, KeyShape
<1>. QED
  BY <1>0, <1>1, <1>2, <1>3

-----------------------------------------------------------------------------
(* A publication is in the map under its key.                              *)
LEMMA KeyInKeys ==
  ASSUME NEW v \in VolumeIds, NEW n \in NodeIds
  PROVE  publishKey(v, n) \in Keys
  BY DEF Keys

(* Every step keeps the shape of the map, the registry and what was told.  *)
LEMMA TypeStep == TypeOK /\ [Next]_vars => TypeOK'
<1>. SUFFICES ASSUME TypeOK, [Next]_vars PROVE TypeOK'
  OBVIOUS
<1>1. ASSUME NEW v \in VolumeIds, UnpublishEverywhere(v) PROVE TypeOK'
  BY <1>1 DEF UnpublishEverywhere, TypeOK
<1>2. ASSUME NEW v \in VolumeIds, NEW n \in NodeIds, ControllerUnpublishVolume(v, n) PROVE TypeOK'
  BY <1>2, KeyInKeys DEF ControllerUnpublishVolume, TypeOK
<1>3. ASSUME NEW v \in VolumeIds, NEW n \in NodeIds, NEW mode \in Modes, ControllerPublishVolume(v, n, mode)
      PROVE TypeOK'
  <2>1. publishedVolumes' \in [Keys -> Modes \union {"none"}]
    BY <1>3, KeyInKeys DEF ControllerPublishVolume, TypeOK
  <2>2. told' \in [VolumeIds -> [NodeIds -> Modes \union {"none"}]]
    BY <1>3 DEF ControllerPublishVolume, Answer, TypeOK
  <2>. QED
    BY <1>3, <2>1, <2>2 DEF ControllerPublishVolume, TypeOK
<1>4. ASSUME NEW n \in NodeIds, Register(n) PROVE TypeOK'
  BY <1>4 DEF Register, TypeOK
<1>5. CASE Restart
  BY <1>5, RestartsAssumption DEF Restart, TypeOK
<1>6. CASE UNCHANGED vars
  BY <1>6 DEF vars, TypeOK
<1>. QED
  BY <1>1, <1>2, <1>3, <1>4, <1>5, <1>6 DEF Next

(* The map holds a mode or nothing for every key, whatever the IDs are.    *)
THEOREM PublishTypeCorrect == Spec => []TypeOK
<1>1. Init => TypeOK
  BY RestartsAssumption DEF Init, TypeOK
<1>. QED
  BY <1>1, TypeStep, PTL DEF Spec

-----------------------------------------------------------------------------
(* Every step keeps what the attacher was told and the map in agreement.   *)
LEMMA TrackingStep ==
  ASSUME ColonFree, TypeOK, TrackingAgrees, [Next]_vars
  PROVE  TrackingAgrees'
<1>. SUFFICES ASSUME restarts' = 0, NEW w \in VolumeIds, NEW m \in NodeIds, told'[w][m] # "none"
              PROVE  publishedVolumes'[publishKey(w, m)] = told'[w][m]
  BY DEF TrackingAgrees
<1>. DEFINE K == publishKey(w, m)
<1>k. K \in Keys
  BY KeyInKeys
<1>1. ASSUME NEW v \in VolumeIds, UnpublishEverywhere(v) PROVE publishedVolumes'[K] = told'[w][m]
  <2>1. w # v
    BY <1>1 DEF UnpublishEverywhere, TypeOK
  <2>2. ~HasPrefix(K, v \o <<Colon>>)
    BY <2>1, PrefixExact
  <2>3. publishedVolumes'[K] = publishedVolumes[K] /\ told'[w] = told[w] /\ restarts = 0
    BY <1>1, <1>k, <2>1, <2>2 DEF UnpublishEverywhere, TypeOK
  <2>. QED
    BY <2>3 DEF TrackingAgrees
<1>2. ASSUME NEW v \in VolumeIds, NEW n \in NodeIds, ControllerUnpublishVolume(v, n)
      PROVE publishedVolumes'[K] = told'[w][m]
  <2>1. ~(w = v /\ m = n)
    BY <1>2 DEF ControllerUnpublishVolume, TypeOK
  <2>2. K # publishKey(v, n)
    BY <2>1, KeysDiffer
  <2>3. publishedVolumes'[K] = publishedVolumes[K]
    BY <1>2, <1>k, <2>2 DEF ControllerUnpublishVolume, TypeOK
  <2>4. told'[w][m] = told[w][m] /\ restarts = 0
    BY <1>2, <2>1 DEF ControllerUnpublishVolume, TypeOK
  <2>. QED
    BY <2>3, <2>4 DEF TrackingAgrees
<1>3. ASSUME NEW v \in VolumeIds, NEW n \in NodeIds, NEW mode \in Modes, ControllerPublishVolume(v, n, mode)
      PROVE publishedVolumes'[K] = told'[w][m]
  <2>0. restarts = 0 /\ publishedVolumes[publishKey(v, n)] \in {"none", mode}
    BY <1>3 DEF ControllerPublishVolume
  <2>1. CASE w = v /\ m = n
    <3>1. publishedVolumes'[K] = mode
      BY <1>3, <1>k, <2>1 DEF ControllerPublishVolume, TypeOK
    <3>2. told'[w][m] \in {told[w][m], mode}
      BY <1>3, <2>1 DEF ControllerPublishVolume, Answer, TypeOK
    <3>3. ASSUME told'[w][m] = told[w][m] PROVE told'[w][m] = mode
      BY <2>0, <2>1, <3>3 DEF TrackingAgrees
    <3>. QED
      BY <3>1, <3>2, <3>3
  <2>2. CASE ~(w = v /\ m = n)
    <3>1. K # publishKey(v, n)
      BY <2>2, KeysDiffer
    <3>2. publishedVolumes'[K] = publishedVolumes[K]
      BY <1>3, <1>k, <3>1 DEF ControllerPublishVolume, TypeOK
    <3>3. told'[w][m] = told[w][m]
      BY <1>3, <2>2 DEF ControllerPublishVolume, Answer, TypeOK
    <3>. QED
      BY <2>0, <3>2, <3>3 DEF TrackingAgrees
  <2>. QED
    BY <2>1, <2>2
<1>4. ASSUME NEW n \in NodeIds, Register(n) PROVE publishedVolumes'[K] = told'[w][m]
  BY <1>4 DEF Register, TrackingAgrees
<1>5. ~Restart
  BY DEF Restart, TypeOK
<1>6. ASSUME UNCHANGED vars PROVE publishedVolumes'[K] = told'[w][m]
  BY <1>6 DEF vars, TrackingAgrees
<1>. QED
  BY <1>1, <1>2, <1>3, <1>4, <1>5, <1>6 DEF Next

(* If no volume ID contains the separator, no call for another volume or   *)
(* another node ever takes away what the attacher was told, for any number *)
(* of volumes and nodes and any IDs, one a prefix of another included.     *)
THEOREM PublishTrackingAgrees == ColonFree => (Spec => []TrackingAgrees)
<1>. SUFFICES ASSUME ColonFree PROVE Spec => []TrackingAgrees
  OBVIOUS
<1>1. Init => TrackingAgrees
  BY DEF Init, TrackingAgrees
<1>2. TypeOK /\ TrackingAgrees /\ [Next]_vars => TrackingAgrees'
  BY TrackingStep
<1>. QED
  BY <1>1, <1>2, PublishTypeCorrect, PTL DEF Spec

-----------------------------------------------------------------------------
(* Each attachment as the map has it.                                      *)
Recorded == [v \in VolumeIds |-> [n \in NodeIds |-> publishedVolumes[publishKey(v, n)]]]

(* Every step of the map is a step of the attachments, or changes none.    *)
LEMMA RefineStep ==
  ASSUME ColonFree, TypeOK, [Next]_vars
  PROVE  A!ANext \/ UNCHANGED Recorded
<1>1. ASSUME NEW v \in VolumeIds, UnpublishEverywhere(v) PROVE A!ANext
  <2>1. ASSUME NEW w \in VolumeIds, NEW m \in NodeIds
        PROVE  publishedVolumes'[publishKey(w, m)] = IF w = v THEN "none" ELSE publishedVolumes[publishKey(w, m)]
    BY <1>1, <2>1, KeyInKeys, PrefixExact DEF UnpublishEverywhere
  <2>2. Recorded' = [Recorded EXCEPT ![v] = [n \in NodeIds |-> IF n \in NodeIds THEN "none" ELSE @[n]]]
    BY <2>1 DEF Recorded
  <2>3. A!Detach(v, NodeIds)
    BY <2>2 DEF A!Detach, Recorded
  <2>. QED
    BY <2>3 DEF A!ANext
<1>2. ASSUME NEW v \in VolumeIds, NEW n \in NodeIds, ControllerUnpublishVolume(v, n) PROVE A!ANext
  <2>1. ASSUME NEW w \in VolumeIds, NEW m \in NodeIds
        PROVE  publishedVolumes'[publishKey(w, m)] =
                  IF w = v /\ m = n THEN "none" ELSE publishedVolumes[publishKey(w, m)]
    BY <1>2, <2>1, KeyInKeys, KeysDiffer DEF ControllerUnpublishVolume, TypeOK
  <2>2. Recorded' = [Recorded EXCEPT ![v] = [m \in NodeIds |-> IF m \in {n} THEN "none" ELSE @[m]]]
    BY <2>1, ZenonT(60) DEF Recorded
  <2>3. A!Detach(v, {n})
    BY <2>2 DEF A!Detach, Recorded
  <2>. QED
    BY <2>3 DEF A!ANext
<1>3. ASSUME NEW v \in VolumeIds, NEW n \in NodeIds, NEW mode \in Modes, ControllerPublishVolume(v, n, mode)
      PROVE A!ANext \/ UNCHANGED Recorded
  <2>0. publishedVolumes[publishKey(v, n)] \in {"none", mode}
    BY <1>3 DEF ControllerPublishVolume
  <2>1. ASSUME NEW w \in VolumeIds, NEW m \in NodeIds
        PROVE  publishedVolumes'[publishKey(w, m)] =
                  IF w = v /\ m = n THEN mode ELSE publishedVolumes[publishKey(w, m)]
    BY <1>3, <2>1, KeyInKeys, KeysDiffer DEF ControllerPublishVolume, TypeOK
  <2>2. CASE publishedVolumes[publishKey(v, n)] = "none"
    <3>1. Recorded' = [Recorded EXCEPT ![v][n] = mode]
      BY <2>1, ZenonT(60) DEF Recorded
    <3>2. A!Attach(v, n, mode)
      BY <2>2, <3>1 DEF A!Attach, Recorded
    <3>3. mode \in A!Modes
      BY DEF A!Modes, Modes
    <3>. QED
      BY <3>2, <3>3 DEF A!ANext
  <2>3. CASE publishedVolumes[publishKey(v, n)] = mode
    BY <2>1, <2>3 DEF Recorded
  <2>. QED
    BY <2>0, <2>2, <2>3
<1>4. ASSUME NEW n \in NodeIds, Register(n) PROVE UNCHANGED Recorded
  BY <1>4 DEF Register, Recorded
<1>5. CASE Restart
  <2>1. Recorded' = [v \in VolumeIds |-> [n \in NodeIds |-> "none"]]
    BY <1>5, KeyInKeys DEF Restart, Recorded
  <2>2. A!Forget
    BY <2>1 DEF A!Forget, A!Nothing, Recorded
  <2>. QED
    BY <2>2 DEF A!ANext
<1>6. CASE UNCHANGED vars
  BY <1>6 DEF vars, Recorded
<1>. QED
  BY <1>1, <1>2, <1>3, <1>4, <1>5, <1>6 DEF Next

(* The map of strings implements one record for each volume and node: an   *)
(* attachment changes its mode only by way of a detachment of that very    *)
(* volume, or when the controller restarts.                                *)
THEOREM PublishRefinesAttachments == ColonFree => (Spec => ImplementsAttachments)
<1>. SUFFICES ASSUME ColonFree PROVE Spec => ImplementsAttachments
  OBVIOUS
<1>1. Init => A!AInit
  BY KeyInKeys DEF Init, A!AInit, A!Nothing
<1>2. TypeOK /\ [Next]_vars => [A!ANext]_Recorded
  BY RefineStep
<1>. QED
  BY <1>1, <1>2, PublishTypeCorrect, PTL DEF Spec, ImplementsAttachments, A!ASpec, Recorded
=============================================================================
