--------------------------- MODULE SnapshotsProof ---------------------------
(***************************************************************************)
(* Proofs about Snapshots for any volumes, names, protocols and creation   *)
(* times, and any number of failures, restarts and deleted volumes.        *)
(*                                                                         *)
(* The driver keeps nothing of a snapshot but its ID, so everything rests  *)
(* on DecodeEncode: an ID decodes to the volume and the name it was made   *)
(* of.  A volume ID may contain both separators; a snapshot name may       *)
(* contain the colon but not the @.                                        *)
(***************************************************************************)
EXTENDS Snapshots, TLAPS

(* Snapshot names, which the external-snapshotter makes of a prefix and a  *)
(* UID, are not empty and contain no @; volume IDs are not empty.          *)
PlainNames ==
    /\ \A c \in Contents : Name[c] # <<>> /\ \A i \in DOMAIN Name[c] : Name[c][i] # "@"
    /\ \A v \in Volumes : v # <<>>

-----------------------------------------------------------------------------
(* The smallest and the largest element of a set, once they are known.     *)
LEMMA MinIs ==
  ASSUME NEW S \in SUBSET Int, NEW m \in S, \A x \in S : m <= x
  PROVE  Min(S) = m
<1>1. \E x \in S : \A y \in S : x <= y
  OBVIOUS
<1>2. Min(S) \in S /\ \A y \in S : Min(S) <= y
  BY <1>1, Zenon DEF Min
<1>3. m \in Int /\ Min(S) \in Int
  BY <1>2
<1>. QED
  BY <1>2, <1>3

LEMMA MaxIs ==
  ASSUME NEW S \in SUBSET Int, NEW m \in S, \A x \in S : x <= m
  PROVE  Max(S) = m
<1>1. \E x \in S : \A y \in S : x >= y
  OBVIOUS
<1>2. Max(S) \in S /\ \A y \in S : Max(S) >= y
  BY <1>1, Zenon DEF Max
<1>3. m \in Int /\ Max(S) \in Int
  BY <1>2
<1>. QED
  BY <1>2, <1>3

(* Two sequences with the same words are the same.                         *)
LEMMA SameWords ==
  ASSUME NEW W, NEW s \in Seq(W), NEW t \in Seq(W), Len(s) = Len(t),
         \A i \in 1 .. Len(s) : s[i] = t[i]
  PROVE  s = t
  OBVIOUS

(* A sequence stays one over a larger alphabet.                            *)
LEMMA WiderAlphabet ==
  ASSUME NEW V, NEW W, V \subseteq W, NEW s \in Seq(V)
  PROVE  s \in Seq(W)
  OBVIOUS

(* The protocols an ID may begin with, and with them the separators.       *)
Schemes == {"nfs", "smb", "iscsi", "nvmeof"}
Marks == Schemes \union {":", "@"}

(* decodeSnapshotID undoes encodeSnapshotID, also for a volume ID that     *)
(* contains the colon or the @ itself.                                     *)
THEOREM DecodeEncode ==
  ASSUME NEW W, Marks \subseteq W, NEW p \in Schemes, NEW v \in Seq(W), NEW n \in Seq(W),
         v # <<>>, n # <<>>, \A i \in DOMAIN n : n[i] # "@"
  PROVE  decodeSnapshotID(encodeSnapshotID(p, v, n)) = [volume |-> v, name |-> n]
<1>. USE DEF Schemes, Marks
<1>. DEFINE id    == encodeSnapshotID(p, v, n)
            colon == Min(Positions(id, ":"))
            proto == SubSeq(id, 1, colon - 1)
            rest  == SubSeq(id, colon + 1, Len(id))
            at    == Max(Positions(rest, "@"))
<1>0. p \in W /\ p # ":" /\ Len(v) \in Nat \ {0} /\ Len(n) \in Nat \ {0}
  OBVIOUS
<1>1. /\ id \in Seq(W)
      /\ Len(id) = Len(v) + Len(n) + 3
      /\ id[1] = p
      /\ id[2] = ":"
      /\ \A i \in 1 .. Len(v) : id[i + 2] = v[i]
      /\ id[Len(v) + 3] = "@"
      /\ \A i \in 1 .. Len(n) : id[Len(v) + 3 + i] = n[i]
  <2>1. <<p, ":">> \in Seq(W) /\ <<"@">> \in Seq(W)
    BY <1>0
  <2>. DEFINE a == <<p, ":">> \o v
              b == a \o <<"@">>
  <2>2. /\ a \in Seq(W) /\ Len(a) = Len(v) + 2
        /\ a[1] = p /\ a[2] = ":" /\ \A i \in 1 .. Len(v) : a[i + 2] = v[i]
    BY <2>1
  <2>3. /\ b \in Seq(W) /\ Len(b) = Len(v) + 3
        /\ b[1] = p /\ b[2] = ":" /\ \A i \in 1 .. Len(v) : b[i + 2] = v[i]
        /\ b[Len(v) + 3] = "@"
    <3>. HIDE DEF a
    <3>. QED
      BY <2>1, <2>2
  <2>4. id = b \o n
    BY DEF encodeSnapshotID
  <2>. HIDE DEF id
  <2>. HIDE DEF b
  <2>5. b \o n \in Seq(W) /\ Len(b \o n) = Len(v) + Len(n) + 3
    <3>1. b \in Seq(W) /\ Len(b) = Len(v) + 3
      BY <2>3
    <3>2. b \o n \in Seq(W)
      BY <3>1
    <3>3. Len(b \o n) = Len(b) + Len(n)
      BY <3>1, SMTT(40)
    <3>. QED
      BY <1>0, <3>1, <3>2, <3>3
  <2>6. \A i \in 1 .. Len(v) + 3 : (b \o n)[i] = b[i]
    BY <2>3
  <2>7. \A i \in 1 .. Len(n) : (b \o n)[Len(v) + 3 + i] = n[i]
    BY <2>3
  <2>8. \A i \in 1 .. Len(v) : (b \o n)[i + 2] = v[i]
    <3>1. TAKE i \in 1 .. Len(v)
    <3>2. i + 2 \in 1 .. Len(v) + 3
      OBVIOUS
    <3>. QED
      BY <2>3, <2>6, <3>2
  <2>9. (b \o n)[1] = p /\ (b \o n)[2] = ":" /\ (b \o n)[Len(v) + 3] = "@"
    BY <2>3, <2>6
  <2>. QED
    BY <2>4, <2>5, <2>7, <2>8, <2>9
<1>. HIDE DEF id
<1>2. colon = 2 /\ Positions(id, ":") # {}
  <2>1. Positions(id, ":") \in SUBSET Int /\ 2 \in Positions(id, ":")
    BY <1>0, <1>1 DEF Positions
  <2>2. \A x \in Positions(id, ":") : 2 <= x
    BY <1>0, <1>1 DEF Positions
  <2>. QED
    BY <2>1, <2>2, MinIs
<1>. HIDE DEF colon
<1>3. proto = <<p>>
  <2>1. SubSeq(id, 1, 1) \in Seq(W) /\ Len(SubSeq(id, 1, 1)) = 1 /\ SubSeq(id, 1, 1)[1] = id[1]
    BY <1>0, <1>1
  <2>2. <<p>> \in Seq(W) /\ Len(<<p>>) = 1 /\ <<p>>[1] = p
    BY <1>0
  <2>3. \A i \in 1 .. 1 : SubSeq(id, 1, 1)[i] = <<p>>[i]
    BY <1>1, <2>1, <2>2
  <2>4. SubSeq(id, 1, 1) = <<p>>
    BY <2>1, <2>2, <2>3, SameWords, Zenon
  <2>. QED
    BY <1>2, <2>4
<1>4. /\ rest \in Seq(W) /\ Len(rest) = Len(v) + Len(n) + 1
      /\ \A i \in 1 .. Len(rest) : rest[i] = id[i + 2]
  BY <1>0, <1>1, <1>2
<1>. HIDE DEF rest, proto
<1>5. /\ \A i \in 1 .. Len(v) : rest[i] = v[i]
      /\ rest[Len(v) + 1] = "@"
      /\ \A i \in 1 .. Len(n) : rest[Len(v) + 1 + i] = n[i]
  <2>1. ASSUME NEW i \in 1 .. Len(v) PROVE rest[i] = v[i]
    <3>1. i \in 1 .. Len(rest)
      BY <1>0, <1>4
    <3>. QED
      BY <1>1, <1>4, <3>1
  <2>2. rest[Len(v) + 1] = "@"
    <3>1. Len(v) + 1 \in 1 .. Len(rest) /\ (Len(v) + 1) + 2 = Len(v) + 3
      BY <1>0, <1>4
    <3>2. rest[Len(v) + 1] = id[Len(v) + 3]
      BY <1>4, <3>1
    <3>. QED
      BY <1>1, <3>2
  <2>3. ASSUME NEW i \in 1 .. Len(n) PROVE rest[Len(v) + 1 + i] = n[i]
    <3>1. Len(v) + 1 + i \in 1 .. Len(rest) /\ (Len(v) + 1 + i) + 2 = Len(v) + 3 + i
      BY <1>0, <1>4
    <3>. QED
      BY <1>1, <1>4, <3>1
  <2>. QED
    BY <2>1, <2>2, <2>3
<1>6. at = Len(v) + 1 /\ Positions(rest, "@") \notin {{}, {1}}
  <2>1. Positions(rest, "@") \in SUBSET Int /\ Len(v) + 1 \in Positions(rest, "@")
    BY <1>0, <1>4, <1>5 DEF Positions
  <2>2. ASSUME NEW x \in Positions(rest, "@"), ~(x <= Len(v) + 1) PROVE FALSE
    <3>1. x \in 1 .. Len(rest) /\ rest[x] = "@"
      BY <1>4 DEF Positions
    <3>2. x - Len(v) - 1 \in 1 .. Len(n) /\ Len(v) + 1 + (x - Len(v) - 1) = x
      BY <1>0, <1>4, <2>2, <3>1
    <3>3. n[x - Len(v) - 1] = rest[x]
      BY <1>5, <3>2
    <3>4. x - Len(v) - 1 \in DOMAIN n
      BY <3>2
    <3>. QED
      BY <3>1, <3>3, <3>4
  <2>3. at = Len(v) + 1
    BY <2>1, <2>2, MaxIs
  <2>. QED
    BY <1>0, <2>1, <2>3
<1>. HIDE DEF at
<1>7. SubSeq(rest, 1, at - 1) = v
  <2>1. /\ SubSeq(rest, 1, at - 1) \in Seq(W) /\ Len(SubSeq(rest, 1, at - 1)) = Len(v)
        /\ \A i \in 1 .. Len(v) : SubSeq(rest, 1, at - 1)[i] = rest[i]
    BY <1>0, <1>4, <1>6
  <2>. QED
    BY <1>5, <2>1, SameWords
<1>8. SubSeq(rest, at + 1, Len(rest)) = n
  <2>1. /\ SubSeq(rest, at + 1, Len(rest)) \in Seq(W)
        /\ Len(SubSeq(rest, at + 1, Len(rest))) = Len(n)
        /\ \A i \in 1 .. Len(n) : SubSeq(rest, at + 1, Len(rest))[i] = rest[Len(v) + 1 + i]
    BY <1>0, <1>4, <1>6
  <2>2. \A i \in 1 .. Len(SubSeq(rest, at + 1, Len(rest))) : SubSeq(rest, at + 1, Len(rest))[i] = n[i]
    BY <1>5, <2>1
  <2>. QED
    BY <2>1, <2>2, SameWords, Zenon
<1>9. at # Len(rest)
  BY <1>0, <1>4, <1>6
<1>10. decodeSnapshotID(id) =
         IF Positions(id, ":") = {} THEN None
         ELSE IF proto \notin {<<q>> : q \in {"nfs", "smb", "iscsi", "nvmeof"}} THEN None
         ELSE IF Positions(rest, "@") \in {{}, {1}} \/ at = Len(rest) THEN None
         ELSE [volume |-> SubSeq(rest, 1, at - 1), name |-> SubSeq(rest, at + 1, Len(rest))]
  BY DEF decodeSnapshotID, colon, proto, rest, at
<1>11. proto \in {<<q>> : q \in {"nfs", "smb", "iscsi", "nvmeof"}}
  BY <1>3
<1>12. decodeSnapshotID(id) = [volume |-> v, name |-> n]
  BY <1>2, <1>6, <1>7, <1>8, <1>9, <1>10, <1>11
<1>. QED
  BY <1>12 DEF id

-----------------------------------------------------------------------------
(* The ID the CO is given for c, and what it is decoded to.                *)
OwnID(c) == encodeSnapshotID(ProtocolOf(SourceOf[c]), SourceOf[c], Name[c])

(* An ID leads back to the snapshot it was given for.                      *)
LEMMA OwnIDDecoded ==
  ASSUME PlainNames, NEW c \in Contents
  PROVE  /\ OwnID(c) \in SnapshotIDs
         /\ Decoded[OwnID(c)] = [volume |-> SourceOf[c], name |-> Name[c]]
         /\ Decoded[OwnID(c)] # None
<1>1. SourceOf[c] \in Volumes /\ Name[c] \in Names
  BY SnapshotsAssumption DEF Names
<1>2. OwnID(c) \in SnapshotIDs
  BY <1>1 DEF OwnID, SnapshotIDs
<1>3. SourceOf[c] \in Seq(STRING) /\ Name[c] \in Seq(STRING)
  BY <1>1, SnapshotsAssumption
<1>4. SourceOf[c] # <<>> /\ Name[c] # <<>> /\ \A i \in DOMAIN Name[c] : Name[c][i] # "@"
  BY <1>1 DEF PlainNames
<1>5. ProtocolOf(SourceOf[c]) \in Schemes
  BY <1>1, SnapshotsAssumption DEF ProtocolOf, Schemes
<1>6. PICK W : STRING \subseteq W /\ Marks \subseteq W
  <2>. WITNESS STRING \union Marks
  <2>. QED
    BY Zenon
<1>7. decodeSnapshotID(OwnID(c)) = [volume |-> SourceOf[c], name |-> Name[c]]
  <2>1. SourceOf[c] \in Seq(W) /\ Name[c] \in Seq(W)
    BY <1>3, <1>6, WiderAlphabet
  <2>. QED
    BY <2>1, <1>4, <1>5, <1>6, DecodeEncode, Zenon DEF OwnID
<1>8. Decoded[OwnID(c)] = [volume |-> SourceOf[c], name |-> Name[c]]
  BY <1>2, <1>7 DEF Decoded
<1>9. [volume |-> SourceOf[c], name |-> Name[c]] \in [volume : Seq(STRING), name : Seq(STRING)]
  BY <1>3
<1>. QED
  BY <1>2, <1>8, <1>9, SnapshotsAssumption

(* Two contents ask for two snapshots, and each place is one of the        *)
(* backend's.                                                              *)
LEMMA Places ==
  /\ \A c \in Contents : Here(c) \in Volumes \X Names
  /\ \A c, d \in Contents : Here(c) = Here(d) => c = d
  BY SnapshotsAssumption DEF Here, Names

-----------------------------------------------------------------------------
(* What each answer and each step of an RPC is about: the ID the CO holds  *)
(* is its own, a creation runs only before the answer, a deletion only     *)
(* after the CO asked for it.                                              *)
IDsAreOwn ==
    \A c \in Contents : co[c].phase # "wanted" => co[c].id = OwnID(c)

StepsFollowPhases ==
    \A c \in Contents :
        /\ pc[c] \in {"lookup", "unique", "times", "create"} => co[c].phase = "wanted"
        /\ pc[c] = "delete" => co[c].phase = "deleting"
        /\ pc[c] \in {"get", "getTimes"} => co[c].phase = "ready"

IInv ==
    /\ TypeOK /\ IDsAreOwn /\ StepsFollowPhases
    /\ ReadySnapshotKept /\ DeletedIsGone

(* The creation time a lookup answers is that of the snapshot asked for.   *)
LEMMA OwnTimes ==
  ASSUME NEW c \in Contents, NEW t \in creationTimes(SourceOf[c], Name[c]), TypeOK
  PROVE  t = snaps[Here(c)] /\ t # None /\ t \in Stamps \ {0}
  BY Places DEF creationTimes, snapshotCreationKey, Here, TypeOK

(* The assumptions about times and bounds, apart from those about names.   *)
LEMMA Bounds ==
  MaxFaults \in Nat /\ MaxRemovals \in Nat /\ Stamps \subseteq Nat /\ None \notin Stamps
  BY SnapshotsAssumption

(* A failure is counted up to its bound.                                   *)
LEMMA FaultsCounted ==
  ASSUME TypeOK, Ok \/ Fault
  PROVE  faults' \in 0 .. MaxFaults
  BY Bounds DEF TypeOK, Ok, Fault

(* A step that leaves the backend's snapshots and the CO's records alone   *)
(* keeps the invariant when the steps of the RPCs still fit their phases.  *)
LEMMA Unmoved ==
  ASSUME IInv, UNCHANGED <<snaps, co>>, vols' \subseteq Volumes,
         pc' \in [Contents -> PCs], seen' \in [Contents -> SUBSET Names],
         faults' \in 0 .. MaxFaults, removals' \in 0 .. MaxRemovals, StepsFollowPhases'
  PROVE  IInv'
  BY DEF IInv, TypeOK, IDsAreOwn, ReadySnapshotKept, DeletedIsGone, Here

(* An answer with the creation time the snapshot has after the step keeps  *)
(* the invariant, whether the snapshot was there or is made by the step.   *)
LEMMA AnswerKeeps ==
  ASSUME PlainNames, IInv, NEW c \in Contents, NEW t \in Stamps \ {0}, Answer(c, t),
         co[c].phase = "wanted", snaps' = [snaps EXCEPT ![Here(c)] = t],
         UNCHANGED <<vols, seen, removals>>, faults' \in 0 .. MaxFaults
  PROVE  IInv'
<1>0. TypeOK /\ IDsAreOwn /\ StepsFollowPhases /\ ReadySnapshotKept /\ DeletedIsGone
  BY DEF IInv
<1>1. /\ co' = [co EXCEPT ![c] = [@ EXCEPT !.phase = "ready", !.at = t, !.id = OwnID(c)]]
      /\ pc' = [pc EXCEPT ![c] = "idle"]
  BY <1>0 DEF Answer, Return, Goto, OwnID, TypeOK
<1>2. OwnID(c) \in SnapshotIDs
  BY OwnIDDecoded
<1>3. snaps' \in [Volumes \X Names -> Stamps \union {None}]
  BY <1>0 DEF TypeOK
<1>4. co' \in [Contents -> [phase : Phases, id : SnapshotIDs \union {<<>>},
                            at : (Stamps \ {0}) \union {None}, query : Queries]]
  BY <1>0, <1>1, <1>2, ZenonT(60) DEF TypeOK, Phases
<1>5. TypeOK'
  BY <1>0, <1>1, <1>3, <1>4 DEF TypeOK, PCs
<1>6. IDsAreOwn' /\ StepsFollowPhases'
  BY <1>0, <1>1 DEF TypeOK, IDsAreOwn, StepsFollowPhases
<1>7. ReadySnapshotKept' /\ DeletedIsGone'
  <2>1. snaps'[Here(c)] = t /\ t # None /\ co'[c].at = t /\ co'[c].phase = "ready"
    BY <1>0, <1>1, Places, Bounds DEF TypeOK
  <2>2. ASSUME NEW d \in Contents, d # c
        PROVE  co'[d] = co[d] /\ snaps'[Here(d)] = snaps[Here(d)]
    BY <1>0, <1>1, <2>2, Places DEF TypeOK
  <2>. QED
    BY <1>0, <2>1, <2>2 DEF ReadySnapshotKept, DeletedIsGone, Here
<1>. QED
  BY <1>5, <1>6, <1>7 DEF IInv

(* A snapshot that is created and not answered disturbs nobody: no other   *)
(* content asks for it, and this one is still wanted.                      *)
LEMMA UnansweredKeeps ==
  ASSUME IInv, NEW c \in Contents, NEW t \in Stamps, Return(c), co[c].phase = "wanted",
         snaps' = [snaps EXCEPT ![Here(c)] = t],
         UNCHANGED <<co, vols, seen, removals>>, faults' \in 0 .. MaxFaults
  PROVE  IInv'
<1>0. TypeOK /\ IDsAreOwn /\ StepsFollowPhases /\ ReadySnapshotKept /\ DeletedIsGone
  BY DEF IInv
<1>1. TypeOK'
  BY <1>0 DEF TypeOK, PCs, Return, Goto
<1>2. IDsAreOwn' /\ StepsFollowPhases'
  BY <1>0 DEF TypeOK, IDsAreOwn, StepsFollowPhases, Return, Goto
<1>3. ASSUME NEW d \in Contents, d # c
      PROVE  snaps'[Here(d)] = snaps[Here(d)]
  BY <1>0, <1>3, Places DEF TypeOK
<1>4. ReadySnapshotKept' /\ DeletedIsGone'
  BY <1>0, <1>3 DEF ReadySnapshotKept, DeletedIsGone, Here
<1>. QED
  BY <1>1, <1>2, <1>4 DEF IInv

(* A deletion removes the snapshot of its own content and no other.        *)
LEMMA RemovalKeeps ==
  ASSUME IInv, NEW c \in Contents, Return(c), co[c].phase = "deleting", co[c].id = OwnID(c),
         snaps' = [snaps EXCEPT ![Here(c)] = None],
         co' = [co EXCEPT ![c].phase = "deleted"] \/ UNCHANGED co,
         UNCHANGED <<vols, seen, removals>>, faults' \in 0 .. MaxFaults
  PROVE  IInv'
<1>0. TypeOK /\ IDsAreOwn /\ StepsFollowPhases /\ ReadySnapshotKept /\ DeletedIsGone
  BY DEF IInv
<1>1. TypeOK'
  <2>1. pc' \in [Contents -> PCs]
    BY <1>0 DEF TypeOK, PCs, Return, Goto
  <2>2. snaps' \in [Volumes \X Names -> Stamps \union {None}]
    BY <1>0 DEF TypeOK
  <2>3. "deleted" \in Phases
    BY DEF Phases
  <2>4. co' \in [Contents -> [phase : Phases, id : SnapshotIDs \union {<<>>},
                              at : (Stamps \ {0}) \union {None}, query : Queries]]
    BY <1>0, <2>3 DEF TypeOK
  <2>. QED
    BY <1>0, <2>1, <2>2, <2>4 DEF TypeOK
<1>2. IDsAreOwn' /\ StepsFollowPhases'
  <2>1. pc'[c] = "idle" /\ \A d \in Contents \ {c} : pc'[d] = pc[d]
    BY <1>0 DEF TypeOK, Return, Goto
  <2>2. co'[c].id = co[c].id /\ \A d \in Contents \ {c} : co'[d] = co[d]
    BY <1>0 DEF TypeOK
  <2>3. IDsAreOwn'
    <3>. SUFFICES ASSUME NEW d \in Contents, co'[d].phase # "wanted"
                  PROVE  co'[d].id = OwnID(d)
      BY DEF IDsAreOwn, OwnID
    <3>. QED
      BY <1>0, <2>2 DEF IDsAreOwn
  <2>4. StepsFollowPhases'
    <3>. SUFFICES ASSUME NEW d \in Contents
                  PROVE  /\ pc'[d] \in {"lookup", "unique", "times", "create"} => co'[d].phase = "wanted"
                         /\ pc'[d] = "delete" => co'[d].phase = "deleting"
                         /\ pc'[d] \in {"get", "getTimes"} => co'[d].phase = "ready"
      BY DEF StepsFollowPhases
    <3>1. CASE d = c
      BY <2>1, <3>1
    <3>2. CASE d # c
      BY <1>0, <2>1, <2>2, <3>2 DEF StepsFollowPhases
    <3>. QED
      BY <3>1, <3>2
  <2>. QED
    BY <2>3, <2>4
<1>3. ASSUME NEW d \in Contents, d # c
      PROVE  co'[d] = co[d] /\ snaps'[Here(d)] = snaps[Here(d)]
  BY <1>0, <1>3, Places DEF TypeOK
<1>4. snaps'[Here(c)] = None /\ co'[c].phase # "ready"
  BY <1>0, Places DEF TypeOK
<1>5. ReadySnapshotKept' /\ DeletedIsGone'
  BY <1>0, <1>3, <1>4, SMTT(30) DEF ReadySnapshotKept, DeletedIsGone, Here
<1>. QED
  BY <1>1, <1>2, <1>5 DEF IInv

(* One step of the specification keeps the invariant.                      *)
LEMMA IInvStep ==
  ASSUME PlainNames, IInv, [Next]_vars
  PROVE  IInv'
<1>0. TypeOK /\ IDsAreOwn /\ StepsFollowPhases /\ ReadySnapshotKept /\ DeletedIsGone
  BY DEF IInv
<1>1. ASSUME NEW c \in Contents, CreateSnapshot(c), UNCHANGED <<vols, removals>>
      PROVE  IInv'
  BY <1>0, <1>1, Unmoved DEF CreateSnapshot, Goto, TypeOK, PCs, StepsFollowPhases
<1>2. ASSUME NEW c \in Contents, LookupSource(c), UNCHANGED <<vols, removals>>
      PROVE  IInv'
  <2>1. faults' \in 0 .. MaxFaults
    BY <1>0, <1>2, FaultsCounted DEF LookupSource
  <2>2. seen' \in [Contents -> SUBSET Names]
    BY <1>0, <1>2 DEF LookupSource, TypeOK, SnapshotsOf
  <2>3. pc' \in [Contents -> PCs] /\ StepsFollowPhases'
    BY <1>0, <1>2 DEF LookupSource, TypeOK, PCs, Goto, Return, StepsFollowPhases
  <2>. QED
    BY <1>0, <1>2, <2>1, <2>2, <2>3, Unmoved DEF LookupSource, TypeOK
<1>3. ASSUME NEW c \in Contents, CheckUnique(c), UNCHANGED <<vols, removals>>
      PROVE  IInv'
  <2>1. faults' \in 0 .. MaxFaults
    BY <1>0, <1>3, FaultsCounted DEF CheckUnique
  <2>2. pc[c] = "unique" /\ (Return(c) \/ Goto(c, AfterUnique(c)))
    BY <1>3 DEF CheckUnique
  <2>3. pc' \in [Contents -> PCs] /\ StepsFollowPhases'
    BY <1>0, <1>3, <2>2 DEF CheckUnique, AfterUnique, TypeOK, PCs, Goto, Return, StepsFollowPhases
  <2>. QED
    BY <1>0, <1>3, <2>1, <2>3, Unmoved DEF CheckUnique, TypeOK
<1>6. ASSUME NEW c \in Contents, DeleteSnapshot(c), UNCHANGED <<vols, removals>>
      PROVE  IInv'
  <2>1. TypeOK'
    BY <1>0, <1>6, ZenonT(60) DEF DeleteSnapshot, Goto, TypeOK, PCs, Phases
  <2>2. IDsAreOwn' /\ StepsFollowPhases'
    BY <1>0, <1>6 DEF DeleteSnapshot, Goto, TypeOK, IDsAreOwn, StepsFollowPhases
  <2>3. ReadySnapshotKept' /\ DeletedIsGone'
    BY <1>0, <1>6 DEF DeleteSnapshot, TypeOK, ReadySnapshotKept, DeletedIsGone, Here
  <2>. QED
    BY <2>1, <2>2, <2>3 DEF IInv
<1>8. ASSUME NEW c \in Contents, ControllerGetSnapshot(c), UNCHANGED <<vols, removals>>
      PROVE  IInv'
  BY <1>0, <1>8, Unmoved DEF ControllerGetSnapshot, Goto, TypeOK, PCs, StepsFollowPhases
<1>10. ASSUME Crash PROVE IInv'
  <2>1. faults' \in 0 .. MaxFaults
    BY <1>0, <1>10, FaultsCounted DEF Crash
  <2>2. pc' \in [Contents -> PCs] /\ StepsFollowPhases'
    BY <1>10 DEF Crash, PCs, StepsFollowPhases
  <2>. QED
    BY <1>0, <1>10, <2>1, <2>2, Unmoved DEF Crash, TypeOK
<1>11. ASSUME NEW v \in Volumes, VolumeDeleted(v) PROVE IInv'
  <2>1. removals' \in 0 .. MaxRemovals
    BY <1>0, <1>11, Bounds DEF VolumeDeleted, TypeOK
  <2>. QED
    BY <1>0, <1>11, <2>1, Unmoved DEF VolumeDeleted, TypeOK, StepsFollowPhases
<1>12. ASSUME UNCHANGED vars PROVE IInv'
  BY <1>0, <1>12, Unmoved DEF vars, TypeOK, StepsFollowPhases
<1>4. ASSUME NEW c \in Contents, ExistingSnapshot(c), UNCHANGED <<vols, removals>>
      PROVE  IInv'
  <2>1. faults' \in 0 .. MaxFaults
    BY <1>0, <1>4, FaultsCounted DEF ExistingSnapshot
  <2>2. pc[c] = "times" /\ Return(c) /\ UNCHANGED <<snaps, seen>>
    BY <1>4 DEF ExistingSnapshot, Answer
  <2>3. CASE UNCHANGED co
    <3>1. pc' \in [Contents -> PCs] /\ StepsFollowPhases'
      BY <1>0, <2>2, <2>3 DEF TypeOK, PCs, Goto, Return, StepsFollowPhases
    <3>. QED
      BY <1>0, <1>4, <2>1, <2>2, <2>3, <3>1, Unmoved DEF TypeOK
  <2>4. ASSUME NEW t \in creationTimes(SourceOf[c], Name[c]), Answer(c, t)
        PROVE  IInv'
    <3>1. t = snaps[Here(c)] /\ t # None /\ t \in Stamps \ {0}
      BY <1>0, OwnTimes
    <3>2. snaps' = [snaps EXCEPT ![Here(c)] = t]
      BY <1>0, <2>2, <3>1, Places DEF TypeOK
    <3>3. co[c].phase = "wanted"
      BY <1>0, <2>2 DEF StepsFollowPhases
    <3>. QED
      BY <1>4, <2>1, <2>2, <2>4, <3>1, <3>2, <3>3, AnswerKeeps
  <2>. QED
    BY <1>4, <2>3, <2>4 DEF ExistingSnapshot
<1>5. ASSUME NEW c \in Contents, NewSnapshot(c), UNCHANGED <<vols, removals>>
      PROVE  IInv'
  <2>1. faults' \in 0 .. MaxFaults
    BY <1>0, <1>5, FaultsCounted DEF NewSnapshot
  <2>2. pc[c] = "create" /\ Return(c) /\ UNCHANGED seen
    BY <1>5 DEF NewSnapshot, Answer
  <2>3. co[c].phase = "wanted"
    BY <1>0, <2>2 DEF StepsFollowPhases
  <2>4. CASE UNCHANGED <<snaps, co>>
    <3>1. pc' \in [Contents -> PCs] /\ StepsFollowPhases'
      BY <1>0, <2>2, <2>4 DEF TypeOK, PCs, Goto, Return, StepsFollowPhases
    <3>. QED
      BY <1>0, <1>5, <2>1, <2>2, <2>4, <3>1, Unmoved DEF TypeOK
  <2>5. ASSUME NEW t \in Stamps \ {0}, snaps' = [snaps EXCEPT ![Here(c)] = t], Answer(c, t)
        PROVE  IInv'
    BY <1>5, <2>1, <2>2, <2>3, <2>5, AnswerKeeps
  <2>6. ASSUME NEW t \in Stamps, snaps' = [snaps EXCEPT ![Here(c)] = t], UNCHANGED co
        PROVE  IInv'
    BY <1>5, <2>1, <2>2, <2>3, <2>6, UnansweredKeeps
  <2>. QED
    BY <1>5, <2>4, <2>5, <2>6 DEF NewSnapshot
<1>7. ASSUME NEW c \in Contents, Remove(c), UNCHANGED <<vols, removals>>
      PROVE  IInv'
  <2>1. faults' \in 0 .. MaxFaults
    BY <1>0, <1>7, FaultsCounted DEF Remove
  <2>2. pc[c] = "delete" /\ Return(c) /\ UNCHANGED seen
    BY <1>7 DEF Remove
  <2>3. co[c].phase = "deleting" /\ co[c].id = OwnID(c)
    BY <1>0, <2>2 DEF StepsFollowPhases, IDsAreOwn
  <2>4. Decoded[co[c].id] # None
    BY <2>3, OwnIDDecoded
  <2>5. <<Decoded[co[c].id].volume, Decoded[co[c].id].name>> = Here(c)
    <3>1. Decoded[OwnID(c)] = [volume |-> SourceOf[c], name |-> Name[c]]
      BY OwnIDDecoded
    <3>. QED
      BY <2>3, <3>1 DEF Here
  <2>6. Here(c) \in DOMAIN snaps
    BY <1>0, Places DEF TypeOK
  <2>. DEFINE done == co' = [co EXCEPT ![c].phase = "deleted"]
              gone == snaps' = [snaps EXCEPT ![Here(c)] = None]
  <2>7. \/ gone /\ (done \/ UNCHANGED co)
        \/ snaps[Here(c)] = None /\ done /\ UNCHANGED snaps
        \/ UNCHANGED <<snaps, co>>
    BY <1>7, <2>4, <2>5, <2>6, Zenon DEF Remove
  <2>8. CASE UNCHANGED <<snaps, co>>
    <3>1. pc' \in [Contents -> PCs] /\ StepsFollowPhases'
      BY <1>0, <2>2, <2>8 DEF TypeOK, PCs, Goto, Return, StepsFollowPhases
    <3>. QED
      BY <1>0, <1>7, <2>1, <2>2, <2>8, <3>1, Unmoved DEF TypeOK
  <2>9. CASE gone /\ (done \/ UNCHANGED co)
    BY <1>7, <2>1, <2>2, <2>3, <2>9, RemovalKeeps
  <2>10. CASE snaps[Here(c)] = None /\ done /\ UNCHANGED snaps
    <3>1. gone
      BY <1>0, <2>6, <2>10 DEF TypeOK
    <3>. QED
      BY <1>7, <2>1, <2>2, <2>3, <2>10, <3>1, RemovalKeeps
  <2>. QED
    BY <2>7, <2>8, <2>9, <2>10
<1>9. ASSUME NEW c \in Contents, listSnapshotByID(c), UNCHANGED <<vols, removals>>
      PROVE  IInv'
  <2>1. faults' \in 0 .. MaxFaults
    BY <1>0, <1>9, FaultsCounted DEF listSnapshotByID, Failed
  <2>2. /\ pc[c] \in {"get", "getTimes"} /\ (Return(c) \/ Goto(c, "getTimes"))
        /\ UNCHANGED <<snaps, seen>>
    BY <1>9 DEF listSnapshotByID, Failed, Told
  <2>3. co[c].phase = "ready" /\ co[c].id = OwnID(c)
    BY <1>0, <2>2 DEF StepsFollowPhases, IDsAreOwn
  <2>4. /\ Decoded[co[c].id].volume = SourceOf[c]
        /\ Decoded[co[c].id].name = Name[c]
    <3>1. Decoded[OwnID(c)] = [volume |-> SourceOf[c], name |-> Name[c]]
      BY OwnIDDecoded
    <3>. QED
      BY <2>3, <3>1
  <2>5. \/ UNCHANGED co
        \/ \E q \in Queries : co' = [co EXCEPT ![c].query = q]
        \/ \E t \in creationTimes(SourceOf[c], Name[c]) :
              co' = [co EXCEPT ![c].query = "found", ![c].at = t]
    BY <1>9, <2>4 DEF listSnapshotByID, Failed, Told, Queries
  <2>6. ASSUME NEW t \in creationTimes(SourceOf[c], Name[c])
        PROVE  t \in Stamps \ {0} /\ t = co[c].at
    BY <1>0, <2>3, OwnTimes DEF ReadySnapshotKept
  <2>7. \E q \in Queries : co' = [co EXCEPT ![c] = [@ EXCEPT !.query = q]]
    BY <1>0, <2>5, <2>6 DEF TypeOK, Queries
  <2>8. PICK q \in Queries : co' = [co EXCEPT ![c] = [@ EXCEPT !.query = q]]
    BY <2>7
  <2>9. TypeOK'
    BY <1>0, <1>9, <2>1, <2>2, <2>8 DEF TypeOK, PCs, Goto, Return
  <2>10. IDsAreOwn' /\ StepsFollowPhases'
    BY <1>0, <2>2, <2>8 DEF TypeOK, IDsAreOwn, StepsFollowPhases, Goto, Return
  <2>11. ReadySnapshotKept' /\ DeletedIsGone'
    BY <1>0, <2>2, <2>8, ZenonT(60) DEF TypeOK, ReadySnapshotKept, DeletedIsGone, Here
  <2>. QED
    BY <2>9, <2>10, <2>11 DEF IInv
<1>. QED
  BY <1>1, <1>2, <1>3, <1>4, <1>5, <1>6, <1>7, <1>8, <1>9, <1>10, <1>11, <1>12 DEF Next, Rpc

LEMMA IInvInit == Init => IInv
<1>. SUFFICES ASSUME Init PROVE IInv
  OBVIOUS
<1>1. TypeOK
  BY Bounds DEF Init, TypeOK, PCs, Phases, Queries
<1>. QED
  BY <1>1 DEF Init, IInv, IDsAreOwn, StepsFollowPhases, ReadySnapshotKept, DeletedIsGone

(* A snapshot the CO was told is ready exists, with the creation time the  *)
(* CO was told, until the CO asks for its deletion: for any volumes and    *)
(* names, any interleaving of the RPCs, any failures and restarts of the   *)
(* driver and any deletion of volumes.                                     *)
THEOREM ReadySnapshotKeptAlways == PlainNames => (Spec => []ReadySnapshotKept)
<1>. SUFFICES ASSUME PlainNames PROVE Spec => []ReadySnapshotKept
  OBVIOUS
<1>1. IInv /\ [Next]_vars => IInv'
  BY IInvStep
<1>2. IInv => ReadySnapshotKept
  BY DEF IInv
<1>. QED
  BY IInvInit, <1>1, <1>2, PTL DEF Spec

(* A snapshot the CO was told is deleted is gone: no deletion goes astray  *)
(* on an ID, and no answer "already deleted" is wrong.                     *)
THEOREM DeletedIsGoneAlways == PlainNames => (Spec => []DeletedIsGone)
<1>. SUFFICES ASSUME PlainNames PROVE Spec => []DeletedIsGone
  OBVIOUS
<1>1. IInv /\ [Next]_vars => IInv'
  BY IInvStep
<1>2. IInv => DeletedIsGone
  BY DEF IInv
<1>. QED
  BY IInvInit, <1>1, <1>2, PTL DEF Spec
=============================================================================
