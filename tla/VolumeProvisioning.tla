------------------------- MODULE VolumeProvisioning -------------------------
(***************************************************************************)
(* CreateVolume and DeleteVolume of the controller service against the     *)
(* NASty backend: pkg/driver/controller.go, volume_identity.go,            *)
(* delete_ownership.go, share_cleanup.go and the create/adopt/delete       *)
(* halves of controller_{nfs,smb,iscsi,nvmeof}.go.                         *)
(*                                                                         *)
(* A handler is one RPC goroutine.  Every call to the NASty API is one     *)
(* action; what the handler computes from the answer, up to the next call, *)
(* is part of it.  A call may succeed, fail without effect, or fail after  *)
(* it took effect (nastyapi.ErrUncertainOutcome).  The controller may      *)
(* crash between any two actions.  The container orchestrator (CO) is      *)
(* modelled by what it may ask for: it gives up on an RPC by cancelling    *)
(* its context, and only then retries the same request.  A call that was   *)
(* in flight when its RPC was cancelled may still take effect, later than  *)
(* the retry's own calls.                                                  *)
(***************************************************************************)
EXTENDS Naturals, FiniteSets

CONSTANTS
    Handlers,   \* concurrent RPC goroutines of the controller
    Requests,   \* CreateVolume requests, one for each PVC UID
    Names,      \* backend subvolume names in one filesystem
    UUIDs,      \* values newVolumeUUID may return
    None,       \* no value, no subvolume, no holder, no endpoint
    Worlds,     \* what the requests ask for and what the backend holds at first
    MaxFaults   \* bound on failed calls, cancellations and crashes

Protocols == {"nfs", "smb", "iscsi", "nvmeof"}
Share == {"nfs", "smb"}
Block == {"iscsi", "nvmeof"}
Strategies == {"delete", "retain"}

(* name: the CSI request name.  backend and legacy: what ResolveVolumeName *)
(* and ResolveLegacyVolumeName make of it.  pvc: PVC namespace and name.   *)
ProfileType ==
    [name : Names \union {None}, backend : Names, legacy : Names, proto : Protocols,
     pvc : Nat, adoptExisting : BOOLEAN, markAdoptable : BOOLEAN,
     strategy : Strategies, cap : Nat \ {0}]

(* The xattr properties of a subvolume, and its real size.  request is set *)
(* together with identity_version 2; a managed subvolume without it is a   *)
(* legacy one.  csi: csi_volume_name, which a clone copies from its source *)
(* until it has an identity of its own.  pvc 0 and cap 0 stand for a       *)
(* missing property.                                                       *)
SubType ==
    [managed : BOOLEAN, request : Requests \union {None}, uuid : UUIDs \union {None},
     csi : Names \union {None},
     proto : Protocols \union {None}, pvc : Nat, adoptable : BOOLEAN,
     strategy : Strategies \union {None}, cap : Nat, size : Nat]

ASSUME WorldsAssumption ==
    \A w \in Worlds :
        w.profile \in [Requests -> ProfileType] /\ w.subs \in [Names -> SubType \union {None}]
ASSUME NoneAssumption ==
    /\ None \notin Handlers \union Requests \union Names \union UUIDs \union Nat
    /\ None \notin Protocols \union Strategies \union SubType
ASSUME MaxFaultsAssumption == MaxFaults \in Nat

VARIABLES
    profile,   \* profile[r]: what request r asks for; never changes
    sub,       \* sub[n]: the subvolume n of the backend, or None
    ep,        \* ep[n]: its share, target or subsystem: None, or the capacity
               \*        in the share's comment (0 when there is none)
    mu,        \* holder of ControllerService.identityMu, or None
    pc,        \* pc[h]: the next API call of handler h
    loc,       \* loc[h]: its local variables
    co,        \* co[r]: what the CO knows about request r
    faults,    \* failures so far
    excused    \* names whose unmanaged subvolume is accounted for: it was there
               \* before the driver, or a failure left it that
               \* docs/DELETE-RECOVERY.md says needs explicit recovery

vars == <<profile, sub, ep, mu, pc, loc, co, faults, excused>>

PCs == {"idle", "findName", "findPVC", "adoptList", "select", "selectLegacy", "list",
        "getOrCreate", "create", "validate", "persist", "verify", "rollback",
        "rollbackDelete", "endpoint", "reply", "lookup", "own", "findEndpoint",
        "deleteEndpoint", "deleteSub", "deleted"}

(* req: the request served.  name: the selected subvolume.  seen: the      *)
(* subvolume as last read, perhaps stale by now.  uuid: the UUID in        *)
(* volumeIdentityDecision.properties.  created: createdByRequest.          *)
(* cap: RequiredBytes, which cloning may raise.  cloning: the destination  *)
(* of a clone is being prepared, before createVolumeByProtocol.  exposed:  *)
(* an endpoint was found.  live: the context is not cancelled.             *)
LocalType ==
    [req : Requests \union {None}, name : Names \union {None}, seen : SubType \union {None},
     uuid : UUIDs \union {None}, cap : Nat,
     created : BOOLEAN, cloning : BOOLEAN, exposed : BOOLEAN, live : BOOLEAN]
NoLocals == [req |-> None, name |-> None, seen |-> None, uuid |-> None, cap |-> 0,
             created |-> FALSE, cloning |-> FALSE, exposed |-> FALSE, live |-> FALSE]
Locals(r) == [NoLocals EXCEPT !.req = r, !.cap = profile[r].cap, !.live = TRUE]

Init ==
    /\ \E w \in Worlds : profile = w.profile /\ sub = w.subs
    /\ ep = [n \in Names |-> None]
    /\ mu = None
    /\ pc = [h \in Handlers |-> "idle"]
    /\ loc = [h \in Handlers |-> NoLocals]
    /\ co = [r \in Requests |-> [phase |-> "wanted", handle |-> None]]
    /\ faults = 0
    /\ excused = {n \in Names : sub[n] # None /\ ~sub[n].managed}

(* In the world w, request r may come to the subvolume n: its own name or  *)
(* one it may adopt without a question, or one whose properties say so     *)
(* from the start.                                                         *)
Claim(w, r, n) ==
    LET p == w.profile[r]
        s == w.subs[n]
    IN  \/ n = p.backend \/ n = p.name \/ (p.adoptExisting /\ n = p.legacy)
        \/ s # None /\ s.csi # None /\ s.csi = p.name
        \/ s # None /\ s.pvc # 0 /\ s.pvc = p.pvc
        \/ s # None /\ s.request = r

(* No subvolume is claimed by two requests, and no two requests are for    *)
(* the same PVC.                                                           *)
SoleClaimant(w) ==
    \A r, q \in Requests : r # q =>
        /\ \A n \in Names : ~(Claim(w, r, n) /\ Claim(w, q, n))
        /\ w.profile[r].pvc # 0 => w.profile[r].pvc # w.profile[q].pvc

-----------------------------------------------------------------------------
(* The outcomes of an API call, and where the handler goes next.           *)

P(h) == profile[loc[h].req]
Subvol(h) == sub[loc[h].name]
Fault == faults < MaxFaults /\ faults' = faults + 1

Ok(h) == loc[h].live /\ UNCHANGED faults              \* answered
Err(h) == IF loc[h].live THEN Fault ELSE UNCHANGED faults   \* failed, no effect
Lost == Fault                                         \* took effect, error seen

Goto(h, p) == pc' = [pc EXCEPT ![h] = p]
Move(h, p) == Goto(h, p) /\ UNCHANGED loc
Backend == <<sub, ep, excused>>

(* The RPC ends, with an error or with its answer.                         *)
Return(h) == Goto(h, "idle") /\ loc' = [loc EXCEPT ![h] = NoLocals]

(* A failed call that ends the RPC.                                        *)
Fail(h) == Err(h) /\ Return(h) /\ UNCHANGED <<Backend, mu, co>>

(* The backend's record of n becomes s.                                    *)
Write(n, s) ==
    /\ sub' = [sub EXCEPT ![n] = s]
    /\ excused' = IF s # None => s.managed THEN excused \ {n} ELSE excused

-----------------------------------------------------------------------------
(* Volume identity.                                                        *)

V2(s) == s.managed /\ s.request # None

(* For the subvolume s called n.                                           *)
hasCompleteV2Identity(n, s) == V2(s) /\ s.uuid # None /\ s.proto # None /\ s.csi = n

(* newVolumeUUID: a value nobody has.                                      *)
newVolumeUUID(u) ==
    /\ \A n \in Names : sub[n] # None => sub[n].uuid # u
    /\ \A h \in Handlers : loc[h].uuid # u

(* identityProperties keeps the UUID in the properties it is given, and    *)
(* generates one otherwise.                                                *)
identityProperties(s, u) == IF s.uuid # None THEN u = s.uuid ELSE newVolumeUUID(u)

(* What SetSubvolumeProperties leaves on s: the identity merged with the   *)
(* protocol's base properties, of which a clone writes the capacity only.  *)
(* A flag that is off is not written.                                      *)
Identified(h, s) ==
    LET own == [s EXCEPT !.managed = TRUE, !.request = loc[h].req, !.uuid = loc[h].uuid,
                         !.csi = loc[h].name, !.proto = P(h).proto, !.cap = loc[h].cap]
    IN  IF loc[h].cloning THEN own
        ELSE [own EXCEPT !.pvc = IF P(h).pvc = 0 THEN @ ELSE P(h).pvc,
                         !.adoptable = @ \/ P(h).markAdoptable, !.strategy = P(h).strategy]

(* Mutant: any managed subvolume counts as identified.                     *)
ContainsOwner(h, s) == s.managed

propertiesContain(h, s) == Identified(h, s) = s

(* For a managed subvolume s.                                              *)
legacyPVCIdentityMatches(r, s) ==
    \/ s.csi # None /\ s.csi = profile[r].name
    \/ profile[r].pvc # 0 /\ s.pvc = profile[r].pvc

(* May request r take the existing subvolume s?                            *)
decideExistingVolumeIdentity(r, s) ==
    IF V2(s) THEN s.request = r /\ s.proto = profile[r].proto
    ELSE \/ profile[r].adoptExisting
         \/ s.managed /\ s.proto = profile[r].proto /\ legacyPVCIdentityMatches(r, s)

IsVolumeAdoptable(s) == s.managed /\ s.proto \in Protocols

BlankSubvolume(size) ==
    [managed |-> FALSE, request |-> None, uuid |-> None, csi |-> None, proto |-> None, pvc |-> 0,
     adoptable |-> FALSE, strategy |-> None, cap |-> 0, size |-> size]

(* The handler settles on the existing subvolume n and goes on to p.       *)
Select(h, n, p) ==
    \E u \in UUIDs :
        /\ identityProperties(sub[n], u)
        /\ loc' = [loc EXCEPT ![h].name = n, ![h].seen = sub[n], ![h].uuid = u]
        /\ Goto(h, p)

(* The same, if the ownership test allows it.                              *)
Take(h, n, p) ==
    IF decideExistingVolumeIdentity(loc[h].req, sub[n]) THEN Select(h, n, p) ELSE Return(h)

-----------------------------------------------------------------------------
(* CreateVolume: adoption of an orphaned volume.                           *)

Serving(r) == \E h \in Handlers : loc[h].req = r /\ loc[h].live

CreateVolume(h, r) ==
    /\ pc[h] = "idle" /\ co[r].phase = "wanted" /\ ~Serving(r)
    /\ Goto(h, "findName")
    /\ loc' = [loc EXCEPT ![h] = Locals(r)]
    /\ UNCHANGED <<profile, Backend, mu, co, faults>>

(* checkAndAdoptVolume, once the search has found n.                       *)
Adoption(h, n) ==
    IF ~IsVolumeAdoptable(sub[n]) \/ ~(sub[n].adoptable \/ P(h).adoptExisting)
    THEN Move(h, "select")
    ELSE IF sub[n].proto # P(h).proto THEN Return(h) ELSE Select(h, n, "adoptList")

(* FindSubvolumeByCSIVolumeName returns some subvolume with the property;  *)
(* an error of the search counts as not found.                             *)
checkAndAdoptVolume(h) ==
    LET found == {n \in Names : sub[n] # None /\ sub[n].csi # None /\ sub[n].csi = P(h).name}
    IN  /\ pc[h] = "findName"
        /\ \/ Ok(h) /\ \E n \in found : Adoption(h, n)
           \/ Ok(h) /\ found = {} /\ Move(h, "findPVC")
           \/ Err(h) /\ Move(h, "findPVC")
        /\ UNCHANGED <<Backend, mu, co>>

(* An unmanaged subvolume carries no PVC properties.                       *)
PVCMatches(h) == {n \in Names : sub[n] # None /\ sub[n].managed /\ sub[n].pvc = P(h).pvc}

findSubvolumeByPVCIdentity(h) ==
    /\ pc[h] = "findPVC"
    /\ \/ /\ P(h).pvc = 0
          /\ Move(h, "select") /\ UNCHANGED <<Backend, mu, co, faults>>
       \/ /\ P(h).pvc # 0 /\ Ok(h)
          /\ CASE Cardinality(PVCMatches(h)) = 0 -> Move(h, "select")
               [] Cardinality(PVCMatches(h)) = 1 -> \E n \in PVCMatches(h) : Adoption(h, n)
               [] OTHER -> Return(h)
          /\ UNCHANGED <<Backend, mu, co>>
       \/ P(h).pvc # 0 /\ Fail(h)

(* adopt<Protocol>Volume up to persistVolumeIdentity: look for the endpoint *)
AdoptFindsEndpoint(h, proto) ==
    /\ pc[h] = "adoptList" /\ P(h).proto = proto
    /\ \/ /\ Ok(h) /\ Goto(h, "persist")
          /\ loc' = [loc EXCEPT ![h].exposed = ep[loc[h].name] # None]
          /\ UNCHANGED <<Backend, mu, co>>
       \/ Fail(h)

adoptNFSVolume(h) == AdoptFindsEndpoint(h, "nfs")
adoptSMBVolume(h) == AdoptFindsEndpoint(h, "smb")
adoptISCSIVolume(h) == AdoptFindsEndpoint(h, "iscsi")
adoptNVMeOFVolume(h) == AdoptFindsEndpoint(h, "nvmeof")

-----------------------------------------------------------------------------
(* CreateVolume: an existing or a new subvolume.                           *)

(* newVolumeIdentityDecision; NFS creates at once, the others look again.  *)
NewVolume(h) ==
    \E u \in UUIDs :
        /\ newVolumeUUID(u)
        /\ loc' = [loc EXCEPT ![h].name = P(h).backend, ![h].seen = None, ![h].uuid = u]
        /\ Goto(h, IF P(h).proto = "nfs" THEN "create" ELSE "getOrCreate")

selectExistingCreateSubvolume(h) ==
    \/ /\ pc[h] = "select" /\ Ok(h)
       /\ IF sub[P(h).backend] # None THEN Take(h, P(h).backend, "list")
          ELSE IF P(h).legacy # P(h).backend THEN Move(h, "selectLegacy")
          ELSE NewVolume(h)
       /\ UNCHANGED <<Backend, mu, co>>
    \/ /\ pc[h] = "selectLegacy" /\ Ok(h)
       /\ IF sub[P(h).legacy] # None THEN Take(h, P(h).legacy, "list") ELSE NewVolume(h)
       /\ UNCHANGED <<Backend, mu, co>>
    \/ pc[h] \in {"select", "selectLegacy"} /\ Fail(h)

(* Share protocols compare the capacity in the share's comment.            *)
HandleExistingShare(h, proto) ==
    LET found == ep[loc[h].name] # None
    IN  /\ pc[h] = "list" /\ P(h).proto = proto
        /\ \/ /\ Ok(h)
              /\ IF found /\ ep[loc[h].name] \notin {0, loc[h].cap} THEN Return(h)
                 ELSE Goto(h, "persist") /\ loc' = [loc EXCEPT ![h].exposed = found]
              /\ UNCHANGED <<Backend, mu, co>>
           \/ Fail(h)

(* Block protocols compare the recorded capacity before they look for the  *)
(* endpoint, and read the subvolume again when there is none.              *)
HandleExistingBlock(h, proto) ==
    /\ pc[h] = "list" /\ P(h).proto = proto
    /\ \/ /\ loc[h].seen.cap \notin {0, loc[h].cap}
          /\ Return(h) /\ UNCHANGED <<Backend, mu, co, faults>>
       \/ /\ loc[h].seen.cap \in {0, loc[h].cap} /\ Ok(h)
          /\ IF ep[loc[h].name] # None
             THEN Goto(h, "persist") /\ loc' = [loc EXCEPT ![h].exposed = TRUE]
             ELSE Move(h, "getOrCreate")
          /\ UNCHANGED <<Backend, mu, co>>
       \/ loc[h].seen.cap \in {0, loc[h].cap} /\ Fail(h)

handleExistingNFSSubvolume(h) == HandleExistingShare(h, "nfs")
handleExistingSMBSubvolume(h) == HandleExistingShare(h, "smb")
handleExistingISCSISubvolume(h) == HandleExistingBlock(h, "iscsi")
handleExistingNVMeOFSubvolume(h) == HandleExistingBlock(h, "nvmeof")

(* Mutant: a share is exposed before its metadata is written.              *)
ExposeFirst(h) == IF P(h).proto \in Block THEN "validate" ELSE "endpoint"

AfterStorage(h) == IF P(h).proto \in Block THEN "validate" ELSE "persist"

(* getOrCreateSubvolume, its first call.                                   *)
getOrCreateSubvolume(h) ==
    /\ pc[h] = "getOrCreate"
    /\ \/ /\ Ok(h)
          /\ IF Subvol(h) # None THEN Take(h, loc[h].name, AfterStorage(h)) ELSE Move(h, "create")
          /\ UNCHANGED <<Backend, mu, co>>
       \/ Fail(h)

(* CreateSubvolume creates or, with Created false, returns what is there.  *)
(* A block volume whose subvolume vanished meanwhile takes a new identity. *)
CreateSubvolume(h, proto) ==
    LET new == BlankSubvolume(loc[h].cap)
    IN  /\ pc[h] = "create" /\ P(h).proto = proto
        /\ \/ /\ Ok(h) /\ Subvol(h) = None /\ Write(loc[h].name, new)
              /\ \E u \in UUIDs :
                    /\ IF loc[h].seen = None THEN u = loc[h].uuid ELSE newVolumeUUID(u)
                    /\ loc' = [loc EXCEPT ![h].seen = new, ![h].uuid = u, ![h].created = TRUE]
              /\ Goto(h, AfterStorage(h)) /\ UNCHANGED <<ep, mu, co>>
           \/ /\ Ok(h) /\ Subvol(h) # None
              /\ Take(h, loc[h].name, AfterStorage(h)) /\ UNCHANGED <<Backend, mu, co>>
           \/ /\ Lost /\ Subvol(h) = None /\ sub' = [sub EXCEPT ![loc[h].name] = new]
              /\ excused' = excused \union {loc[h].name}
              /\ Return(h) /\ UNCHANGED <<ep, mu, co>>
           \/ Fail(h)

createNFSVolume(h) == CreateSubvolume(h, "nfs")
createSMBVolume(h) == CreateSubvolume(h, "smb")
createISCSIVolume(h) == CreateSubvolume(h, "iscsi")
createNVMeOFVolume(h) == CreateSubvolume(h, "nvmeof")

(* The block device and its filesystem are what the request asked for, or  *)
(* the RPC fails and a subvolume it created is rolled back.                *)
validateInitializedBlockFilesystem(h) ==
    /\ pc[h] = "validate"
    /\ \/ Move(h, "persist") /\ UNCHANGED faults
       \/ Fault /\ loc[h].created /\ Move(h, "rollback")
       \/ Fault /\ ~loc[h].created /\ Return(h)
    /\ UNCHANGED <<Backend, mu, co>>

-----------------------------------------------------------------------------
(* CreateVolume: ownership metadata, then exposure.                        *)

(* A clone goes on to createVolumeByProtocol, which begins at the          *)
(* beginning and finds it.                                                 *)
AfterPersist(h) ==
    IF loc[h].cloning
    THEN Goto(h, "select") /\ loc' = [loc EXCEPT ![h] = [Locals(@.req) EXCEPT !.cap = loc[h].cap, !.live = loc[h].live]]
    ELSE Move(h, IF loc[h].exposed THEN "reply" ELSE "endpoint")

(* The write is skipped when the subvolume as last read has the intended   *)
(* properties; it is not read again before the write.  A failed write is   *)
(* verified with identityMu still held.                                    *)
persistVolumeIdentity(h) ==
    LET n == loc[h].name
    IN  /\ pc[h] = "persist" /\ mu = None
        /\ \/ /\ propertiesContain(h, loc[h].seen)
              /\ AfterPersist(h) /\ UNCHANGED <<Backend, mu, faults>>
           \/ /\ ~propertiesContain(h, loc[h].seen) /\ Ok(h) /\ sub[n] # None
              /\ Write(n, Identified(h, sub[n]))
              /\ AfterPersist(h) /\ UNCHANGED <<ep, mu>>
           \/ /\ ~propertiesContain(h, loc[h].seen)
              /\ IF sub[n] = None THEN UNCHANGED faults ELSE Err(h)
              /\ Move(h, "verify") /\ mu' = h /\ UNCHANGED Backend
           \/ /\ ~propertiesContain(h, loc[h].seen) /\ Lost /\ sub[n] # None
              /\ Write(n, Identified(h, sub[n]))
              /\ Move(h, "verify") /\ mu' = h /\ UNCHANGED ep
        /\ UNCHANGED co

(* Mutant: the subvolume of a failed identity write is left behind.        *)
VerifyWithoutRollback(h) ==
    /\ pc[h] = "verify" /\ mu = h /\ mu' = None
    /\ Ok(h) \/ Err(h)
    /\ Return(h) /\ UNCHANGED <<sub, ep, co, excused>>

(* Mutant: the early return keeps identityMu.                              *)
VerifyWithoutUnlock(h) ==
    /\ pc[h] = "verify" /\ mu = h
    /\ Ok(h) \/ Err(h)
    /\ Return(h) /\ UNCHANGED <<sub, ep, co, excused, mu>>

(* Aborted when the write may have committed: never rolled back.           *)
verifyIdentityWrite(h) ==
    LET n == loc[h].name
    IN  /\ pc[h] = "verify" /\ mu = h /\ mu' = None
        /\ \/ /\ Ok(h) /\ sub[n] # None /\ ~propertiesContain(h, sub[n])
              /\ IF loc[h].created THEN Move(h, "rollback") ELSE Return(h)
              /\ UNCHANGED excused
           \/ /\ Ok(h) /\ (sub[n] # None => propertiesContain(h, sub[n]))
              /\ Return(h) /\ UNCHANGED excused
           \/ /\ Err(h) /\ Return(h)
              /\ excused' = IF loc[h].created THEN excused \union {n} ELSE excused
        /\ UNCHANGED <<sub, ep, co>>

(* Mutant: the rollback does not look at the current identity.             *)
BlindRollback(h) ==
    /\ pc[h] = "rollback" /\ mu = None
    /\ Write(loc[h].name, None) /\ Return(h) /\ UNCHANGED <<ep, co, mu, faults>>

(* rollbackCreatedSubvolume runs on a context of its own, so cancellation  *)
(* does not stop it.  The deletion is under the same lock as the read.     *)
rollbackCreatedSubvolume(h) ==
    LET n == loc[h].name
    IN  \/ /\ pc[h] = "rollback" /\ mu = None
           /\ \/ /\ sub[n] = None \/ (sub[n] # None /\ hasCompleteV2Identity(n, sub[n]))
                 /\ Return(h) /\ UNCHANGED <<faults, mu, excused>>
              \/ /\ sub[n] # None /\ ~hasCompleteV2Identity(n, sub[n])
                 /\ Move(h, "rollbackDelete") /\ mu' = h /\ UNCHANGED <<faults, excused>>
              \/ Fault /\ Return(h) /\ excused' = excused \union {n} /\ UNCHANGED mu
           /\ UNCHANGED <<sub, ep, co>>
        \/ /\ pc[h] = "rollbackDelete" /\ mu = h /\ mu' = None
           /\ \/ Write(n, None) /\ (UNCHANGED faults \/ Lost)
              \/ Fault /\ excused' = excused \union {n} /\ UNCHANGED sub
           /\ Return(h) /\ UNCHANGED <<ep, co>>

(* The backend exposes a subvolume that exists.  It may refuse a second    *)
(* endpoint for the same one.                                              *)
CreateEndpoint(h, protos) ==
    LET n == loc[h].name
        new == IF P(h).proto \in Share THEN loc[h].cap ELSE 0
    IN  /\ pc[h] = "endpoint" /\ P(h).proto \in protos
        /\ \/ Ok(h) /\ sub[n] # None /\ ep' = [ep EXCEPT ![n] = new] /\ Move(h, "reply")
           \/ Ok(h) /\ (sub[n] = None \/ ep[n] # None) /\ Return(h) /\ UNCHANGED ep
           \/ Lost /\ sub[n] # None /\ ep' = [ep EXCEPT ![n] = new] /\ Return(h)
           \/ Err(h) /\ Return(h) /\ UNCHANGED ep
        /\ UNCHANGED <<sub, mu, co, excused>>

createNFSShareForSubvolume(h) == CreateEndpoint(h, {"nfs"})
createSMBShareForSubvolume(h) == CreateEndpoint(h, {"smb"})
CreateBlockEndpoint(h) == CreateEndpoint(h, Block)

(* The response names the subvolume; nobody hears it after a cancellation. *)
CreateVolumeResponse(h) ==
    /\ pc[h] = "reply"
    /\ \/ Ok(h) /\ co' = [co EXCEPT ![loc[h].req] = [phase |-> "bound", handle |-> loc[h].name]]
       \/ Err(h) /\ UNCHANGED co
    /\ Return(h) /\ UNCHANGED <<Backend, mu>>

-----------------------------------------------------------------------------
(* DeleteVolume.                                                           *)

DeleteVolume(h, r) ==
    /\ pc[h] = "idle" /\ co[r].phase \in {"bound", "deleting"} /\ ~Serving(r)
    /\ co' = [co EXCEPT ![r].phase = "deleting"]
    /\ Goto(h, "lookup")
    /\ loc' = [loc EXCEPT ![h] = [Locals(r) EXCEPT !.name = co[r].handle]]
    /\ UNCHANGED <<profile, Backend, mu, faults>>

(* Mutant: a volume that is gone already is an error.                      *)
LookupMustFind(h) ==
    /\ pc[h] = "lookup"
    /\ \/ /\ Ok(h)
          /\ IF Subvol(h) # None
             THEN Goto(h, "own") /\ loc' = [loc EXCEPT ![h].seen = Subvol(h)]
             ELSE Return(h)
          /\ UNCHANGED <<Backend, mu, co>>
       \/ Fail(h)

(* Absence is success; what is there must be managed, under its own name   *)
(* and with a known protocol.                                              *)
lookupDeletionVolume(h) ==
    /\ pc[h] = "lookup"
    /\ \/ /\ Ok(h)
          /\ IF Subvol(h) = None THEN Move(h, "deleted")
             ELSE IF IsVolumeAdoptable(Subvol(h)) /\ Subvol(h).csi \in {None, loc[h].name}
             THEN Goto(h, "own") /\ loc' = [loc EXCEPT ![h].seen = Subvol(h)]
             ELSE Return(h)
          /\ UNCHANGED <<Backend, mu, co>>
       \/ Fail(h)

(* The deletion handler reads the subvolume again and validates it.        *)
validateDeletionOwnership(h) ==
    Subvol(h).managed /\ Subvol(h).proto = loc[h].seen.proto /\ Subvol(h).csi \in {None, loc[h].name}

(* Mutant: the delete strategy is not read.                                *)
OwnershipOnly(h) ==
    /\ pc[h] = "own"
    /\ \/ /\ Ok(h)
          /\ IF Subvol(h) = None THEN Move(h, "deleted") ELSE Move(h, "findEndpoint")
          /\ UNCHANGED <<Backend, mu, co>>
       \/ Fail(h)

VerifyOwnership(h) ==
    /\ pc[h] = "own"
    /\ \/ /\ Ok(h)
          /\ IF Subvol(h) = None THEN Move(h, "deleted")
             ELSE IF ~validateDeletionOwnership(h) THEN Return(h)
             ELSE IF Subvol(h).strategy = "retain" THEN Move(h, "deleted")
             ELSE Move(h, "findEndpoint")
          /\ UNCHANGED <<Backend, mu, co>>
       \/ Fail(h)

(* The endpoint goes first; a failure leaves the storage for a retry.      *)
FindEndpoint(h) ==
    /\ pc[h] = "findEndpoint"
    /\ \/ /\ Ok(h) /\ Move(h, IF ep[loc[h].name] = None THEN "deleteSub" ELSE "deleteEndpoint")
          /\ UNCHANGED <<Backend, mu, co>>
       \/ Fail(h)

DeleteEndpoint(h) ==
    /\ pc[h] = "deleteEndpoint"
    /\ \/ /\ Ok(h) /\ ep' = [ep EXCEPT ![loc[h].name] = None] /\ Move(h, "deleteSub")
          /\ UNCHANGED <<sub, mu, co, excused>>
       \/ /\ Lost /\ ep' = [ep EXCEPT ![loc[h].name] = None] /\ Return(h)
          /\ UNCHANGED <<sub, mu, co, excused>>
       \/ Fail(h)

(* The backend refuses to delete a block subvolume that is still exposed.  *)
(* SMB gives up at once; the others repeat a call that failed without      *)
(* effect, and none repeats one whose outcome is uncertain.                *)
DeleteSubvolume(h) ==
    LET n == loc[h].name
        refused == loc[h].seen.proto \in Block /\ ep[n] # None
    IN  /\ pc[h] = "deleteSub"
        /\ \/ /\ Ok(h) /\ (sub[n] = None \/ ~refused) /\ Write(n, None)
              /\ Move(h, "deleted") /\ UNCHANGED <<ep, mu, co>>
           \/ /\ Ok(h) /\ sub[n] # None /\ refused
              /\ Return(h) /\ UNCHANGED <<Backend, mu, co>>
           \/ /\ Lost /\ ~refused /\ Write(n, None) /\ Return(h) /\ UNCHANGED <<ep, mu, co>>
           \/ /\ loc[h].seen.proto # "smb" /\ loc[h].live /\ Fault
              /\ UNCHANGED <<pc, loc, Backend, mu, co>>
           \/ Fail(h)

Deletion(h, proto) ==
    /\ loc[h].seen # None /\ loc[h].seen.proto = proto
    /\ VerifyOwnership(h) \/ FindEndpoint(h) \/ DeleteEndpoint(h) \/ DeleteSubvolume(h)

deleteNFSVolume(h) == Deletion(h, "nfs")
deleteSMBVolume(h) == Deletion(h, "smb")
deleteISCSIVolume(h) == Deletion(h, "iscsi")
deleteNVMeOFVolume(h) == Deletion(h, "nvmeof")

DeleteVolumeResponse(h) ==
    /\ pc[h] = "deleted"
    /\ \/ Ok(h) /\ co' = [co EXCEPT ![loc[h].req].phase = "gone"]
       \/ Err(h) /\ UNCHANGED co
    /\ Return(h) /\ UNCHANGED <<Backend, mu>>

-----------------------------------------------------------------------------
(* The environment.                                                        *)

(* The CO's deadline passes.                                               *)
Cancel(h) ==
    /\ pc[h] # "idle" /\ loc[h].live /\ Fault
    /\ loc' = [loc EXCEPT ![h].live = FALSE]
    /\ UNCHANGED <<profile, Backend, mu, pc, co>>

(* The controller dies and restarts; what a handler created and had not    *)
(* yet identified is left behind.                                          *)
Crash ==
    /\ Fault /\ \E h \in Handlers : pc[h] # "idle"
    /\ pc' = [h \in Handlers |-> "idle"]
    /\ loc' = [h \in Handlers |-> NoLocals]
    /\ mu' = None
    /\ excused' = excused \union {loc[h].name : h \in {g \in Handlers : loc[g].created}}
    /\ UNCHANGED <<profile, sub, ep, co>>

CreateStep(h) ==
  /\ UNCHANGED profile
  /\ \/ checkAndAdoptVolume(h) \/ findSubvolumeByPVCIdentity(h)
     \/ adoptNFSVolume(h) \/ adoptSMBVolume(h) \/ adoptISCSIVolume(h) \/ adoptNVMeOFVolume(h)
     \/ selectExistingCreateSubvolume(h)
     \/ handleExistingNFSSubvolume(h) \/ handleExistingSMBSubvolume(h)
     \/ handleExistingISCSISubvolume(h) \/ handleExistingNVMeOFSubvolume(h)
     \/ getOrCreateSubvolume(h)
     \/ createNFSVolume(h) \/ createSMBVolume(h) \/ createISCSIVolume(h) \/ createNVMeOFVolume(h)
     \/ validateInitializedBlockFilesystem(h)
     \/ persistVolumeIdentity(h) \/ verifyIdentityWrite(h) \/ rollbackCreatedSubvolume(h)
     \/ createNFSShareForSubvolume(h) \/ createSMBShareForSubvolume(h) \/ CreateBlockEndpoint(h)
     \/ CreateVolumeResponse(h)

DeleteStep(h) ==
  /\ UNCHANGED profile
  /\ \/ lookupDeletionVolume(h)
     \/ deleteNFSVolume(h) \/ deleteSMBVolume(h) \/ deleteISCSIVolume(h) \/ deleteNVMeOFVolume(h)
     \/ DeleteVolumeResponse(h)

Next ==
    \/ \E h \in Handlers, r \in Requests : CreateVolume(h, r) \/ DeleteVolume(h, r)
    \/ \E h \in Handlers : CreateStep(h) \/ DeleteStep(h) \/ Cancel(h)
    \/ Crash

Spec == Init /\ [][Next]_vars

(* The CO need not ask for a deletion; once it has, it repeats it until it *)
(* is answered.                                                            *)
Redelete(h, r) == co[r].phase = "deleting" /\ DeleteVolume(h, r)

-----------------------------------------------------------------------------
(* Properties.                                                             *)

(* Every variable has the shape its declaration promises.                  *)
TypeOK ==
    /\ profile \in [Requests -> ProfileType]
    /\ sub \in [Names -> SubType \union {None}]
    /\ ep \in [Names -> Nat \union {None}]
    /\ mu \in Handlers \union {None}
    /\ pc \in [Handlers -> PCs]
    /\ loc \in [Handlers -> LocalType]
    /\ co \in [Requests -> [phase : {"wanted", "bound", "deleting", "gone"},
                            handle : Names \union {None}]]
    /\ faults \in 0 .. MaxFaults
    /\ excused \subseteq Names

(* "belongs to CSI request": no two requests are told that they own the    *)
(* same backend subvolume.  decideExistingVolumeIdentity answers           *)
(* FailedPrecondition to the second one, but judges the properties that    *)
(* were read before persistVolumeIdentity took the lock.                   *)
ExclusiveOwnership ==
    \A r, q \in Requests :
        r # q /\ co[r].phase = "bound" /\ co[q].phase = "bound" => co[r].handle # co[q].handle

(* A volume the CO was given exists, records that very request and         *)
(* protocol, and is exposed, until the CO asks for its deletion: no        *)
(* rollback, retry, late write or deletion of another handler takes that   *)
(* away, when no subvolume can be claimed by two requests (SoleClaimant).  *)
BoundVolumeUsable ==
    \A r \in Requests : co[r].phase = "bound" =>
        LET n == co[r].handle
        IN  /\ sub[n] # None /\ ep[n] # None
            /\ hasCompleteV2Identity(n, sub[n])
            /\ sub[n].request = r /\ sub[n].proto = profile[r].proto

(* A subvolume without ownership metadata was there before, belongs to a   *)
(* handler that is still working on it, or was left by a failure that      *)
(* docs/DELETE-RECOVERY.md names (a crash, an uncertain create, a rollback *)
(* that failed).  Every other error path of createXVolume cleans up.       *)
NoSilentOrphan ==
    \A n \in Names : sub[n] # None /\ ~sub[n].managed =>
        \/ n \in excused
        \/ \E h \in Handlers : loc[h].created /\ loc[h].name = n

(* Storage with a complete identity is removed only by DeleteVolume for    *)
(* the request it records: rollbackCreatedSubvolume, however late and      *)
(* however stale what it knows, never removes it, and neither does the     *)
(* deletion of another request, when no subvolume can be claimed by two    *)
(* (SoleClaimant; AdoptedDataPreserved is about those that can).           *)
OwnedStorageRemovedByOwner ==
    [][\A n \in Names :
          sub[n] # None /\ sub'[n] = None =>
              \/ ~hasCompleteV2Identity(n, sub[n])
              \/ \E h \in Handlers : pc[h] = "deleteSub" /\ loc[h].name = n
                                     /\ sub[n].request = loc[h].req]_vars

(* "Expose the subvolume only after its complete ownership metadata is     *)
(* durable" (createNFSVolume): whoever creates an endpoint, the subvolume  *)
(* under it records that handler's request at that moment.  Once the CO    *)
(* has asked for the deletion, a call of an attempt it gave up before may  *)
(* meet what another such call has left.                                   *)
ExposedAfterOwned ==
    [][\A n \in Names :
          ep[n] = None /\ ep'[n] # None =>
              \E h \in Handlers :
                  /\ pc[h] = "endpoint" /\ loc[h].name = n
                  /\ \/ hasCompleteV2Identity(n, sub[n]) /\ sub[n].request = loc[h].req
                     \/ co[loc[h].req].phase \in {"deleting", "gone"}]_vars

(* A volume with deleteStrategy=retain is neither removed nor hidden by    *)
(* any handler.                                                            *)
RetainedIsKept ==
    [][\A n \in Names :
          sub[n] # None /\ sub[n].strategy = "retain" =>
              sub'[n] # None /\ (ep[n] # None => ep'[n] # None)]_vars

(* docs/FEATURES.md, adoption process: "Volume is returned as if newly     *)
(* created, but data is preserved": no step removes the storage of a       *)
(* volume the CO has and did not ask to delete.                            *)
AdoptedDataPreserved ==
    [][\A r \in Requests :
          /\ co[r].phase = "bound" /\ sub[co[r].handle] # None
          /\ sub[co[r].handle].request = r
          => sub'[co[r].handle] # None]_vars

(* docs/FEATURES.md, capacity handling: a larger request expands the       *)
(* adopted volume, so a volume the CO has is as large as it asked for.     *)
AdoptedVolumeLargeEnough ==
    \A r \in Requests : co[r].phase = "bound" =>
        sub[co[r].handle].size >= profile[r].cap

(* A request that may adopt is served in the end, whatever a bounded       *)
(* number of crashes, cancellations and failed or uncertain calls left     *)
(* behind.                                                                 *)
AdoptingRequestServed ==
    \A r \in Requests : profile[r].adoptExisting => <>(co[r].phase # "wanted")

(* A deletion that the CO keeps asking for completes.                      *)
DeletionCompletes ==
    \A r \in Requests : co[r].phase = "deleting" ~> co[r].phase = "gone"
=============================================================================
