---------------------------- MODULE VolumeCloning ----------------------------
(***************************************************************************)
(* CreateVolume with a content source: createVolumeFromVolume              *)
(* (controller.go), createVolumeFromSnapshot (controller_snapshot_clone.go) *)
(* and the clone half of volume_identity.go, composed with the plain       *)
(* provisioning and deletion of VolumeProvisioning.                        *)
(*                                                                         *)
(* The backend copies the properties of the source to the clone, so until  *)
(* persistVolumeIdentity has run the destination looks like its source.    *)
(* It records where a clone came from, and answers a repeated call with    *)
(* the clone it made before (Created false) only if the source is the same *)
(***************************************************************************)
EXTENDS VolumeProvisioning

CONSTANT Granule   \* sizes the backend can give a subvolume are multiples of it

ASSUME GranuleAssumption == Granule \in Nat \ {0}

VARIABLES
    content,   \* content[r]: the content source of request r, or None
    snap,      \* snap[n]: the snapshot of the subvolume n, with the properties
               \*          and the size of the day it was taken, or None
    from,      \* from[n]: the source the backend records for n, or None
    cl         \* cl[h]: further locals of a handler that clones

cvars == <<profile, sub, ep, mu, pc, loc, co, faults, excused, content, snap, from, cl>>

(* limit: LimitBytes, 0 when there is none.                                *)
ContentType == [kind : {"volume", "snapshot"}, of : Names, limit : Nat]

OriginType == [kind : {"volume", "snapshot"}, of : Names]

ASSUME ContentAssumption ==
    \A w \in Worlds :
        /\ w.content \in [Requests -> ContentType \union {None}]
        /\ w.snaps \in [Names -> SubType \union {None}]
        /\ w.from \in [Names -> OriginType \union {None}]
        /\ w.bound \in [Requests -> Names \union {None, "gone"}]
ASSUME NoContentAssumption == None \notin ContentType \union OriginType

ClonePCs == {"source", "sourceRead", "cloneSelect", "cloneSelectLegacy", "clone", "capacity",
             "resize", "cloneRead"}

(* source: its properties as read, or None when it did not exist.          *)
(* existed, legacy: cloneDestinationSelection.                             *)
CloneLocalType == [source : SubType \union {None}, existed : BOOLEAN, legacy : BOOLEAN]
NoClone == [source |-> None, existed |-> FALSE, legacy |-> FALSE]

CInit ==
    /\ \E w \in Worlds :
          /\ profile = w.profile /\ sub = w.subs /\ content = w.content /\ snap = w.snaps /\ from = w.from
          /\ co = [r \in Requests |->
                     IF w.bound[r] = None THEN [phase |-> "wanted", handle |-> None]
                     ELSE IF w.bound[r] = "gone" THEN [phase |-> "gone", handle |-> None]
                     ELSE [phase |-> "bound", handle |-> w.bound[r]]]
          /\ ep = [n \in Names |-> IF \E r \in Requests : w.bound[r] = n THEN 0 ELSE None]
    /\ mu = None /\ faults = 0 /\ excused = {}
    /\ pc = [h \in Handlers |-> "idle"] /\ loc = [h \in Handlers |-> NoLocals]
    /\ cl = [h \in Handlers |-> NoClone]

-----------------------------------------------------------------------------
(* Where the world may start.                                              *)

(* The properties s lead the request r to the subvolume that has them.     *)
Mentions(w, r, s) ==
    \/ s.request = r
    \/ s.csi # None /\ s.csi = w.profile[r].name
    \/ s.pvc # 0 /\ s.pvc = w.profile[r].pvc

(* The CO still wants a volume for r; "gone" is one it has had.            *)
Wanted(w, r) == w.bound[r] = None

(* What the properties s of n may say: a UUID is part of a full identity,  *)
(* and what leads a wanted request to n was written for n.                 *)
Clear(w, n, s) ==
    /\ s.uuid # None => V2(s)
    /\ \A r \in Requests : Wanted(w, r) /\ Mentions(w, r, s) =>
          Claim(w, r, n) /\ (s.uuid # None => s.csi = n)

(* A record of n in f has the UUID u and the name m.                       *)
Records(f, u, m) == \E n \in Names : f[n] # None /\ f[n].uuid = u /\ f[n].csi = m

(* The source of r belongs to nobody who is still to be served: it is the  *)
(* volume of a PVC that is bound, or was (external-provisioner).           *)
SettledSource(w, r) ==
    /\ Wanted(w, r)
    /\ \A q \in Requests : Wanted(w, q) => ~Claim(w, q, w.content[r].of)

(* No subvolume is claimed by two requests, sources are settled, and what  *)
(* the backend holds at first is what the driver leaves: a volume with the *)
(* CO is its request's, and equal UUIDs come from the same volume.         *)
Settled(w) ==
    /\ SoleClaimant(w)
    /\ \A r \in Requests : w.content[r] # None => SettledSource(w, r)
    /\ \A r \in Requests : w.bound[r] \in Names => Claim(w, r, w.bound[r])
    /\ \A n \in Names :
          /\ w.subs[n] # None => Clear(w, n, w.subs[n])
          /\ w.snaps[n] # None => Clear(w, n, w.snaps[n])
    /\ \A u \in UUIDs : \A m, n \in Names \union {None} :
          /\ Records(w.subs, u, m) \/ Records(w.snaps, u, m)
          /\ Records(w.subs, u, n) \/ Records(w.snaps, u, n)
          => m = n

AllSettled == \A w \in Worlds : Settled(w)

-----------------------------------------------------------------------------
(* The source and the destination.                                         *)

Source(h) == content[loc[h].req]
Origin(h) == [kind |-> Source(h).kind, of |-> Source(h).of]
Fixed == UNCHANGED <<profile, content, snap, mu, co, ep>>
Reads == UNCHANGED <<sub, from, excused>>

CreateVolumeFromContent(h, r) ==
    /\ pc[h] = "idle" /\ co[r].phase = "wanted" /\ ~Serving(r) /\ content[r] # None
    /\ Goto(h, "source") /\ loc' = [loc EXCEPT ![h] = [Locals(r) EXCEPT !.cloning = TRUE]]
    /\ UNCHANGED <<faults, cl>> /\ Fixed /\ Reads

(* A call that failed and ends the RPC.                                    *)
CloneFail(h) == Err(h) /\ Return(h) /\ UNCHANGED cl /\ Reads

(* lookupVolumeByCSIName: a managed volume of the same protocol.           *)
lookupSource(h) ==
    LET s == sub[Source(h).of] IN
    /\ pc[h] = "source" /\ Source(h).kind = "volume"
    /\ \/ /\ Ok(h) /\ UNCHANGED cl /\ Reads
          /\ IF s = None THEN Return(h)
             ELSE IF s.managed /\ s.proto = P(h).proto THEN Move(h, "sourceRead") ELSE Return(h)
       \/ CloneFail(h)
    /\ Fixed

(* A snapshot may have outlived its volume; a volume must still be there.  *)
readSource(h) ==
    LET s == sub[Source(h).of] IN
    /\ pc[h] = "sourceRead" \/ (pc[h] = "source" /\ Source(h).kind = "snapshot")
    /\ \/ /\ Ok(h) /\ Reads
          /\ IF s = None /\ Source(h).kind = "volume"
             THEN Return(h) /\ UNCHANGED cl
             ELSE Move(h, "cloneSelect") /\ cl' = [cl EXCEPT ![h].source = s]
       \/ CloneFail(h)
    /\ Fixed

(* newVolumeUUID: a UUID that a handler has not kept, nor taken from a     *)
(* subvolume, is no snapshot's either.                                     *)
RecordedUUIDs(f) == {f[n].uuid : n \in {m \in Names : f[m] # None}} \ {None}
NewUUIDsUnused ==
    \A h \in Handlers :
        loc'[h].uuid \in RecordedUUIDs(snap) => loc'[h].uuid \in RecordedUUIDs(sub) \union {loc[h].uuid}

(* The destination and, from newVolumeIdentityDecision, a fresh identity.  *)
Destination(h, n, existed, legacy) ==
    /\ \E u \in UUIDs : newVolumeUUID(u) /\ loc' = [loc EXCEPT ![h].name = n, ![h].uuid = u]
    /\ NewUUIDsUnused
    /\ cl' = [cl EXCEPT ![h].existed = existed, ![h].legacy = legacy]
    /\ Goto(h, "clone")

LegacyProof(h, n) ==
    /\ sub[n].managed /\ sub[n].proto = P(h).proto
    /\ legacyPVCIdentityMatches(loc[h].req, sub[n])

selectCloneDestination(h) ==
    LET b == P(h).backend
        l == P(h).legacy
    IN  /\ \/ /\ pc[h] = "cloneSelect" /\ Ok(h) /\ Reads
              /\ IF sub[b] # None THEN Destination(h, b, TRUE, FALSE)
                 ELSE IF l = b THEN Destination(h, b, FALSE, FALSE)
                 ELSE Move(h, "cloneSelectLegacy") /\ UNCHANGED cl
           \/ /\ pc[h] = "cloneSelectLegacy" /\ Ok(h) /\ Reads
              /\ IF sub[l] = None THEN Destination(h, b, FALSE, FALSE)
                 ELSE IF LegacyProof(h, l) THEN Destination(h, l, TRUE, TRUE)
                 ELSE Return(h) /\ UNCHANGED cl
           \/ pc[h] \in {"cloneSelect", "cloneSelectLegacy"} /\ CloneFail(h)
        /\ Fixed

(* What there is to clone now.                                             *)
OriginalOf(r) == IF content[r].kind = "volume" THEN sub[content[r].of] ELSE snap[content[r].of]
Original(h) == OriginalOf(loc[h].req)

(* CloneSubvolume and CloneSnapshot, on every attempt.  Whether the        *)
(* backend still knows a clone whose source is gone is left open.          *)
Clone(h) ==
    LET n == loc[h].name
        new == Original(h) # None /\ sub[n] = None
        mine == sub[n] # None /\ from[n] = Origin(h)
        copy == Write(n, Original(h)) /\ from' = [from EXCEPT ![n] = Origin(h)] /\ UNCHANGED cl
    IN  /\ pc[h] = "clone"
        /\ \/ /\ Ok(h) /\ new /\ copy
              /\ Goto(h, "capacity") /\ loc' = [loc EXCEPT ![h].created = TRUE]
           \/ Ok(h) /\ mine /\ Move(h, "capacity") /\ UNCHANGED cl /\ Reads
           \/ Ok(h) /\ ~new /\ (~mine \/ Original(h) = None) /\ Return(h) /\ UNCHANGED cl /\ Reads
           \/ Lost /\ new /\ copy /\ Return(h)
           \/ CloneFail(h)
        /\ Fixed

(* An error after the clone exists: roll it back if this RPC created it.   *)
CloneFailed(h) == IF loc[h].created THEN Move(h, "rollback") ELSE Return(h)

-----------------------------------------------------------------------------
(* Capacity and identity of the destination.                               *)

RoundUp(x) == ((x + Granule - 1) \div Granule) * Granule
Larger(x, y) == IF x > y THEN x ELSE y
WithinLimit(h, x) == Source(h).limit = 0 \/ x <= Source(h).limit

(* The larger of the present and the requested size is applied, even when  *)
(* nothing changes, and both are held against the limit.                   *)
ensureClonedVolumeCapacity(h) ==
    LET n == loc[h].name IN
    /\ UNCHANGED <<cl, from, excused>> /\ Fixed
    /\ \/ /\ pc[h] = "capacity" /\ Ok(h) /\ UNCHANGED sub
          /\ IF sub[n] = None THEN CloneFailed(h)
             ELSE IF ~WithinLimit(h, sub[n].size) THEN CloneFailed(h)
             ELSE Goto(h, "resize") /\ loc' = [loc EXCEPT ![h].cap = Larger(@, sub[n].size)]
       \/ /\ pc[h] = "resize" /\ Ok(h) /\ sub[n] # None
          /\ LET got == RoundUp(loc[h].cap)
             IN  /\ sub' = [sub EXCEPT ![n].size = got]
                 /\ IF WithinLimit(h, got)
                    THEN Goto(h, "cloneRead") /\ loc' = [loc EXCEPT ![h].cap = got]
                    ELSE CloneFailed(h)
       \/ pc[h] = "resize" /\ Ok(h) /\ sub[n] = None /\ CloneFailed(h) /\ UNCHANGED sub
       \/ /\ pc[h] = "resize" /\ Lost /\ sub[n] # None /\ CloneFailed(h)
          /\ sub' = [sub EXCEPT ![n].size = RoundUp(loc[h].cap)]
       \/ pc[h] \in {"capacity", "resize"} /\ Err(h) /\ CloneFailed(h) /\ UNCHANGED sub

(* Mutant: only an unfinished clone of an earlier release is recognised.   *)
SameProperties(d, s) == s.request = None /\ d.request = None /\ s.csi = d.csi

(* Does the destination d still have what it copied from the source s?  By *)
(* UUID, by request and name, or for a source of an earlier release by all *)
(* of its properties.                                                      *)
cloneCarriesSourceIdentity(d, s) ==
    \/ s.uuid # None /\ d.uuid = s.uuid
    \/ s.request # None /\ d.request = s.request /\ s.csi # None /\ d.csi = s.csi
    \/ /\ s.request = None /\ d.request = None /\ d.uuid = None
       /\ s.managed /\ d.managed /\ s.csi # None /\ d.csi = s.csi /\ s.proto # None /\ d.proto = s.proto
       /\ s.cap \in {0, d.cap} /\ s.pvc \in {0, d.pvc}

(* The snapshot of a volume that is gone carries that volume's identity.   *)
SourceIdentityCopied(h, d) ==
    IF cl[h].source # None THEN cloneCarriesSourceIdentity(d, cl[h].source)
    ELSE hasCompleteV2Identity(Source(h).of, d) /\ d.proto = P(h).proto

MatchingDestination(h, d) == d.managed /\ d.request = loc[h].req /\ d.proto = P(h).proto

(* Mutant: what the destination has is kept.                               *)
KeepsWhatIsThere(h, u) == identityProperties(sub[loc[h].name], u)

(* u is the UUID of the identity the destination gets.                     *)
classifyCloneIdentity(h, u) ==
    LET d == sub[loc[h].name]
        copied == SourceIdentityCopied(h, d)
        fresh == u = loc[h].uuid
    IN  IF loc[h].created \/ ~cl[h].existed THEN fresh
        ELSE IF MatchingDestination(h, d) THEN identityProperties(d, u)
        ELSE IF ~cl[h].legacy THEN copied /\ fresh
        ELSE LegacyProof(h, loc[h].name) /\ (IF copied THEN fresh ELSE identityProperties(d, u))

(* A clone this RPC made is treated as if it had no properties.            *)
readClone(h) ==
    LET n == loc[h].name
        decisions == {u \in UUIDs : classifyCloneIdentity(h, u)}
    IN  /\ pc[h] = "cloneRead" /\ Reads /\ UNCHANGED cl /\ Fixed
        /\ \/ /\ Ok(h) /\ sub[n] # None
              /\ \/ \E u \in decisions :
                       /\ loc' = [loc EXCEPT ![h].uuid = u, ![h].seen =
                                     IF loc[h].created THEN BlankSubvolume(sub[n].size) ELSE sub[n]]
                       /\ NewUUIDsUnused /\ Goto(h, "persist")
                 \/ decisions = {} /\ CloneFailed(h)
           \/ Ok(h) /\ sub[n] = None /\ CloneFailed(h)
           \/ Err(h) /\ CloneFailed(h)

CloneStep(h) ==
    \/ lookupSource(h) \/ readSource(h) \/ selectCloneDestination(h) \/ Clone(h)
    \/ ensureClonedVolumeCapacity(h) \/ readClone(h)

-----------------------------------------------------------------------------
(* The composition.                                                        *)

(* A step of plain provisioning.  A subvolume it creates is nobody's clone, *)
(* and a handler that has left the cloning forgets about it.               *)
Plain ==
    /\ NewUUIDsUnused
    /\ from' = [n \in Names |-> IF sub[n] = None \/ sub'[n] = None THEN None ELSE from[n]]
    /\ cl' = [h \in Handlers |-> IF loc'[h].cloning THEN cl[h] ELSE NoClone]
    /\ UNCHANGED <<content, snap>>

(* Snapshots are deleted whenever their owner likes.                       *)
SnapshotDeleted(n) ==
    /\ snap[n] # None /\ snap' = [snap EXCEPT ![n] = None]
    /\ UNCHANGED <<profile, sub, ep, mu, pc, loc, co, faults, excused, content, from, cl>>

CNext ==
    \/ \E h \in Handlers, r \in Requests :
          \/ content[r] = None /\ CreateVolume(h, r) /\ Plain
          \/ DeleteVolume(h, r) /\ Plain
          \/ CreateVolumeFromContent(h, r)
    \/ \E h \in Handlers :
          \/ (CreateStep(h) \/ DeleteStep(h) \/ Cancel(h)) /\ Plain
          \/ CloneStep(h)
    \/ Crash /\ Plain
    \/ \E n \in Names : SnapshotDeleted(n)

CSpec == CInit /\ [][CNext]_cvars

(* An RPC goroutine is never stopped for good, and the CO repeats what was *)
(* not answered (external-provisioner's retry loop).                       *)
CFairSpec ==
    /\ CSpec
    /\ \A h \in Handlers : WF_cvars(CloneStep(h) \/ ((CreateStep(h) \/ DeleteStep(h)) /\ Plain))
    /\ \A r \in Requests :
          /\ WF_cvars(\E h \in Handlers : CreateVolumeFromContent(h, r)
                                          \/ (content[r] = None /\ CreateVolume(h, r) /\ Plain))
          /\ WF_cvars(\E h \in Handlers : Redelete(h, r) /\ Plain)

-----------------------------------------------------------------------------
(* Properties.                                                             *)

(* Every variable has the shape its declaration promises.                  *)
CTypeOK ==
    /\ profile \in [Requests -> ProfileType]
    /\ sub \in [Names -> SubType \union {None}]
    /\ ep \in [Names -> Nat \union {None}]
    /\ mu \in Handlers \union {None}
    /\ pc \in [Handlers -> PCs \union ClonePCs]
    /\ loc \in [Handlers -> LocalType]
    /\ co \in [Requests -> [phase : {"wanted", "bound", "deleting", "gone"},
                            handle : Names \union {None}]]
    /\ faults \in 0 .. MaxFaults
    /\ content \in [Requests -> ContentType \union {None}]
    /\ snap \in [Names -> SubType \union {None}]
    /\ from \in [Names -> OriginType \union {None}]
    /\ cl \in [Handlers -> CloneLocalType]

(* A volume the CO was given for a request with a content source is the    *)
(* backend's clone of that very source, not an empty volume that           *)
(* createVolumeByProtocol made because the clone was gone; it records that *)
(* request, not the source's, and is exposed, until the CO asks for its    *)
(* deletion.                                                               *)
CloneUsable ==
    \A r \in Requests :
        co[r].phase = "bound" /\ content[r] # None =>
            LET n == co[r].handle
            IN  /\ from[n] = [kind |-> content[r].kind, of |-> content[r].of]
                /\ hasCompleteV2Identity(n, sub[n]) /\ sub[n].request = r /\ ep[n] # None

(* "Cloned subvolume remained below requested capacity" is an error of     *)
(* ensureClonedVolumeCapacity: what the CO is given is as large as it      *)
(* asked for.                                                              *)
CloneLargeEnough ==
    \A r \in Requests :
        co[r].phase = "bound" /\ content[r] # None =>
            sub[co[r].handle].size >= profile[r].cap

(* No two volumes with an identity of their own have the same UUID,        *)
(* although every clone begins with its source's.                          *)
UUIDsDistinct ==
    \A m, n \in Names :
        m # n /\ sub[m] # None /\ sub[n] # None =>
            (hasCompleteV2Identity(m, sub[m]) /\ hasCompleteV2Identity(n, sub[n])
                => sub[m].uuid # sub[n].uuid)

(* The UUID of a volume the CO has never changes again, whichever attempt, *)
(* however late, writes its identity.                                      *)
BoundUUIDKept ==
    [][\A r \in Requests :
          co[r].phase = "bound" /\ co'[r].phase = "bound" /\ sub'[co[r].handle] # None =>
              sub'[co[r].handle].uuid = sub[co[r].handle].uuid]_cvars

(* A request that can be served: the clone would be within the limit, and  *)
(* its names are free or hold a clone of the same source.                  *)
Feasible(r) ==
    /\ content[r] # None /\ OriginalOf(r) # None
    /\ content[r].limit = 0
       \/ RoundUp(Larger(profile[r].cap, OriginalOf(r).size)) <= content[r].limit
    /\ \A n \in {profile[r].backend, profile[r].legacy} :
          sub[n] = None \/ from[n] = [kind |-> content[r].kind, of |-> content[r].of]

(* "Interrupted clone recovery": as long as its source is there, such a    *)
(* request is served in the end, whatever a bounded number of crashes,     *)
(* cancellations and failed or uncertain calls left at the destination.    *)
(* (Not for a source of an earlier release that has grown since the        *)
(* snapshot: its unfinished clone is not recognised.)                      *)
SourceGone(r) == content[r] # None /\ OriginalOf(r) = None
CloneServed ==
    \A r \in Requests : Feasible(r) => <>(co[r].phase # "wanted" \/ SourceGone(r))

(* docs/FEATURES.md: markAdoptable is false by default, and marks "new     *)
(* volumes as adoptable" when it is true.                                  *)
CloneMarkedAsAsked ==
    \A r \in Requests :
        co[r].phase = "bound" /\ content[r] # None =>
            (sub[co[r].handle].adoptable => profile[r].markAdoptable)
=============================================================================
