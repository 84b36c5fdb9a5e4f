-------------------------- MODULE NodeStagingProof --------------------------
(***************************************************************************)
(* Proofs about NodeStaging for any volumes, targets and devices, any      *)
(* capacity of the semaphore and any number of failures and crashes.       *)
(*                                                                         *)
(* BaseInv and PublishInv hold whatever shares the node; OwnInv needs raw  *)
(* block volumes to be alone with their protocol (RawAlone).  Every action *)
(* of a volume is shown to have the Effects, and most to be Quiet towards  *)
(* the targets; the invariants are shown to survive those.                 *)
(*                                                                         *)
(* The last part is about NodeRecovery, with both scans beside the RPCs.   *)
(* There a staging path may be unmounted under a volume that is staged and *)
(* published, so that WriterInv, about targets and sessions only, takes    *)
(* the place of PublishInv.                                                *)
(***************************************************************************)
EXTENDS NodeRecovery, FiniteSetTheorems, TLAPS

(* The device names a volume's session can have.                           *)
DevicesOf(v) ==
    CASE P(v).proto = "iscsi" -> SCSIDevices
      [] P(v).proto = "nvmeof" -> NVMeDevices
      [] OTHER -> {}

(* A raw block volume shares its protocol with no other volume.  The       *)
(* symlink at its staging path names a device, and does not keep the       *)
(* kernel from giving that name to another session.                        *)
Alone(v) == P(v).block => \A u \in Volumes \ {v} : P(u).proto # P(v).proto
RawAlone == \A w \in Worlds, v \in Volumes :
                w[v].block => \A u \in Volumes \ {v} : w[u].proto # w[v].proto

(* No IQN is the beginning of another's, as with names of equal length.    *)
NoPrefixes == IQNPrefixes = {}

-----------------------------------------------------------------------------
(* What one volume's session, path and RPC body say of each other.         *)

Unstaged(v) == path[v].kind \in {"absent", "dir"}
StagedKind(v) == IF P(v).block THEN "link" ELSE "mount"
AtStage(v) == rpc[v].at \in {"kill", "acquire", "connect", "wait", "logout", "device"}

KindsOK(v) ==
    /\ session[v] # None => session[v].dev \in DevicesOf(v) \union {None}
    /\ rpc[v].dev \in DevicesOf(v) \union {None}
    /\ rpc[v].at = "device" => rpc[v].dev # None
    /\ path[v].dev \in DevicesOf(v) \union (IF Block(v) THEN {None} ELSE {None, "share"})
    /\ ~Unstaged(v) => path[v].kind = StagedKind(v)

(* A stage in which the teardown was allowed has nothing staged; from then *)
(* on the iSCSI retry loop runs over an empty path.                        *)
StageOK(v) ==
    /\ AtStage(v) => rpc[v].op = "stage" /\ Block(v)
    /\ rpc[v].at = "acquire" => P(v).proto = "nvmeof"
    /\ rpc[v].at = "kill" => Unstaged(v)
    /\ rpc[v].at \in {"connect", "wait", "logout"} => rpc[v].tries > 0
    /\ P(v).proto = "iscsi" /\ AtStage(v) /\ rpc[v].tries > 0 => Unstaged(v)

(* What the kubelet has been told, or is about to be told.                 *)
KnownStaged(v) == staged[v] = "yes" \/ (rpc[v].op = "stage" /\ rpc[v].at = "reply")

KubeletOK(v) ==
    /\ staged[v] = "yes" => rpc[v].op \notin {"stage", "unstage"}
    /\ rpc[v].op = "publish" => staged[v] = "yes"

VolumeOK(v) == KindsOK(v) /\ StageOK(v) /\ KubeletOK(v)
BaseInv == TypeOK /\ profile \in Worlds /\ \A v \in Volumes : VolumeOK(v)

(* What is known to be staged is on the path, while no monitor unmounts it. *)
KnownOK(v) == KnownStaged(v) => path[v].kind = StagedKind(v)
KnownInv == \A v \in Volumes : KnownOK(v)

-----------------------------------------------------------------------------
(* What is bound to the targets of one volume.                             *)
Shown(v, t) == pub[v][t] \notin {None, "dead"}

ShownOK(v, t) ==
    /\ t \in published[v] /\ rpc[v].op # "unstage"
    /\ rpc[v].op = "unpublish" /\ rpc[v].at = "reply" => t # rpc[v].target
    /\ ~P(v).block => path[v] = Path("mount", pub[v][t])
    /\ P(v).block /\ Alone(v) => session[v] # None /\ session[v].dev = pub[v][t]

PublishOK(v) ==
    /\ rpc[v].op = "publish" => rpc[v].target \in published[v]
    /\ rpc[v].op = "unstage" => published[v] = {}
    /\ rpc[v].at = "bind" => rpc[v].op = "publish"
    /\ \A t \in Targets : Shown(v, t) => ShownOK(v, t)
    /\ P(v).single /\ Alone(v) =>
          /\ \A s, t \in Targets : Shown(v, s) /\ Shown(v, t) => s = t
          /\ rpc[v].at = "bind" => \A t \in Targets : Shown(v, t) => t = rpc[v].target

PublishInv == \A v \in Volumes : PublishOK(v)

-----------------------------------------------------------------------------
(* Which devices belong to whom.                                           *)
Apart(u, v) ==
    session[u] # None /\ session[u].dev # None =>
        /\ session[v] # None => session[v].dev # session[u].dev
        /\ path[v].kind = "mount" => path[v].dev # session[u].dev
        /\ rpc[v].at = "device" => rpc[v].dev # session[u].dev

OwnOK(v) ==
    /\ rpc[v].owner \in {None, v}
    /\ P(v).proto = "iscsi" =>
          /\ rpc[v].at = "device" => session[v] # None /\ session[v].dev = rpc[v].dev
          /\ session[v] # None /\ path[v].dev # None => session[v].dev = path[v].dev
          /\ KnownStaged(v) => session[v] # None /\ session[v].dev = path[v].dev

ApartInv == \A u, v \in Volumes : u # v => Apart(u, v)

OwnInv ==
    /\ ApartInv
    /\ \A v \in Volumes : OwnOK(v)

-----------------------------------------------------------------------------
(* The moves of an RPC body, as field facts.                               *)

RpcMoved(v) ==
    /\ rpc' \in [Volumes -> RpcType]
    /\ \A u \in Volumes \ {v} : rpc'[u] = rpc[u]

Pcs == {"start", "kill", "acquire", "connect", "wait", "logout", "device", "nfs", "smb",
        "iscsi", "nvmeof", "disconnect", "bind", "reply"}

LEMMA GotoMoves ==
  ASSUME TypeOK, NEW v \in Volumes, NEW pc \in Pcs, Goto(v, pc)
  PROVE  /\ RpcMoved(v) /\ rpc'[v].at = pc
         /\ rpc'[v].op = rpc[v].op /\ rpc'[v].target = rpc[v].target /\ rpc'[v].dev = rpc[v].dev
         /\ rpc'[v].owner = rpc[v].owner /\ rpc'[v].tries = rpc[v].tries
<1>1. rpc \in [Volumes -> RpcType] /\ rpc[v] \in RpcType
  BY DEF TypeOK
<1>. DEFINE r == [rpc[v] EXCEPT !.at = pc]
<1>2. r \in RpcType
  BY <1>1 DEF RpcType, Pcs
<1>3. /\ r.at = pc /\ r.op = rpc[v].op /\ r.target = rpc[v].target
      /\ r.dev = rpc[v].dev /\ r.owner = rpc[v].owner /\ r.tries = rpc[v].tries
  BY <1>1 DEF RpcType
<1>4. rpc' = [rpc EXCEPT ![v] = r]
  BY <1>1 DEF Goto, RpcType
<1>. HIDE DEF r
<1>5. rpc'[v] = r /\ rpc' \in [Volumes -> RpcType] /\ \A u \in Volumes \ {v} : rpc'[u] = rpc[u]
  BY <1>1, <1>2, <1>4
<1>. QED
  BY <1>3, <1>5 DEF RpcMoved

LEMMA IdleType == Idle \in RpcType
  BY DEF Idle, RpcType

LEMMA EndMoves ==
  ASSUME TypeOK, NEW v \in Volumes, rpc' = [rpc EXCEPT ![v] = Idle]
  PROVE  RpcMoved(v) /\ rpc'[v] = Idle
  BY IdleType DEF TypeOK, RpcMoved

LEMMA UseDeviceMoves ==
  ASSUME TypeOK, NEW v \in Volumes, NEW d \in Devices, NEW n \in Nat, UseDevice(v, d, n)
  PROVE  /\ RpcMoved(v) /\ rpc'[v].at = "device" /\ rpc'[v].dev = d /\ rpc'[v].tries = n
         /\ rpc'[v].op = rpc[v].op /\ rpc'[v].target = rpc[v].target /\ rpc'[v].owner = rpc[v].owner
<1> DEFINE r == [rpc[v] EXCEPT !.at = "device", !.dev = d, !.tries = n]
<1>2. rpc \in [Volumes -> RpcType] /\ rpc[v] \in RpcType
  BY DEF TypeOK
<1>3. /\ r \in RpcType /\ r.at = "device" /\ r.dev = d /\ r.tries = n
      /\ r.op = rpc[v].op /\ r.target = rpc[v].target /\ r.owner = rpc[v].owner
  BY <1>2 DEF RpcType
<1>4. rpc' = [rpc EXCEPT ![v] = r]
  BY <1>2 DEF UseDevice, RpcType
<1> HIDE DEF r
<1>. QED
  BY <1>2, <1>3, <1>4 DEF RpcMoved

LEMMA ConnectMoves ==
  ASSUME TypeOK, NEW v \in Volumes, Connect(v)
  PROVE  /\ RpcMoved(v) /\ rpc'[v].at = "connect" /\ rpc'[v].tries = 1 /\ rpc'[v].dev = rpc[v].dev
         /\ rpc'[v].op = rpc[v].op /\ rpc'[v].target = rpc[v].target /\ rpc'[v].owner = rpc[v].owner
<1>1. rpc \in [Volumes -> RpcType] /\ rpc[v] \in RpcType
  BY DEF TypeOK
<1>. DEFINE r == [rpc[v] EXCEPT !.at = "connect", !.tries = 1]
<1>2. r \in RpcType
  BY <1>1 DEF RpcType
<1>3. /\ r.at = "connect" /\ r.op = rpc[v].op /\ r.target = rpc[v].target
      /\ r.dev = rpc[v].dev /\ r.owner = rpc[v].owner /\ r.tries = 1
  BY <1>1 DEF RpcType
<1>4. rpc' = [rpc EXCEPT ![v] = r]
  BY <1>1 DEF Connect, RpcType
<1>. HIDE DEF r
<1>5. rpc'[v] = r /\ rpc' \in [Volumes -> RpcType] /\ \A u \in Volumes \ {v} : rpc'[u] = rpc[u]
  BY <1>1, <1>2, <1>4
<1>. QED
  BY <1>3, <1>5 DEF RpcMoved

LEMMA CallMoves ==
  ASSUME TypeOK, NEW v \in Volumes, NEW t \in Targets \union {None},
         NEW op \in {"stage", "unstage", "publish", "unpublish"}, Call(v, op, t)
  PROVE  /\ RpcMoved(v) /\ rpc'[v].at = "start" /\ rpc'[v].tries = 0 /\ rpc'[v].dev = None
         /\ rpc'[v].op = op /\ rpc'[v].target = t /\ rpc'[v].owner = None
  BY IdleType DEF TypeOK, Call, Idle, RpcMoved, RpcType

(* The retry loop stays within its attempts.                               *)
LEMMA AgainMoves ==
  ASSUME TypeOK, NEW v \in Volumes, Again(v), UNCHANGED profile
  PROVE  /\ RpcMoved(v) /\ UNCHANGED Kubelet
         /\ \/ rpc'[v] = Idle
            \/ /\ rpc'[v].at = "connect" /\ rpc'[v].tries = rpc[v].tries + 1
               /\ rpc'[v].tries <= MaxTries(v)
               /\ rpc'[v].op = rpc[v].op /\ rpc'[v].target = rpc[v].target
               /\ rpc'[v].dev = rpc[v].dev /\ rpc'[v].owner = rpc[v].owner
<1>1. rpc[v].tries \in Nat /\ MaxTries(v) \in Nat
  BY DEF TypeOK, RpcType, MaxTries
<1>2. CASE rpc[v].tries < MaxTries(v)
  <2> DEFINE r == [rpc[v] EXCEPT !.at = "connect", !.tries = rpc[v].tries + 1]
  <2>1. rpc \in [Volumes -> RpcType] /\ rpc[v] \in RpcType
    BY DEF TypeOK
  <2>0. PICK n \in Nat : n = rpc[v].tries + 1 /\ n <= MaxTries(v)
    BY <1>1, <1>2
  <2>2. /\ r \in RpcType /\ r.at = "connect" /\ r.tries = n
        /\ r.op = rpc[v].op /\ r.target = rpc[v].target /\ r.dev = rpc[v].dev /\ r.owner = rpc[v].owner
    BY <2>0, <2>1 DEF RpcType
  <2>3. rpc' = [rpc EXCEPT ![v] = r] /\ UNCHANGED Kubelet
    BY <1>2, <2>1 DEF Again, RpcType
  <2> HIDE DEF r
  <2>. QED
    BY <2>0, <2>1, <2>2, <2>3 DEF RpcMoved
<1>3. CASE ~(rpc[v].tries < MaxTries(v))
  BY <1>3, EndMoves DEF Again, Fails
<1>. QED
  BY <1>2, <1>3

(* A session ends, and raw devices that were bound are dead.               *)
SessionsType == [Volumes -> SessionType \union {None}]
PubType == [Volumes -> [Targets -> Devices \union {None, "share", "bare", "dead"}]]

(* At the targets of volume u, devices can only die.                       *)
PubKept(u) == \A t \in Targets : pub'[u][t] = pub[u][t] \/ (P(u).block /\ pub'[u][t] = "dead")

LEMMA DisconnectMoves ==
  ASSUME TypeOK, NEW w \in Volumes, Disconnect(w)
  PROVE  /\ session' \in SessionsType /\ pub' \in PubType
         /\ session'[w] = None
         /\ \A u \in Volumes \ {w} : session'[u] = session[u]
         /\ \A u \in Volumes : PubKept(u)
         /\ session[w] # None /\ session[w].dev # None =>
               \A u \in Volumes, t \in Targets :
                   P(u).block /\ pub[u][t] = session[w].dev => pub'[u][t] = "dead"
<1>1. session' \in SessionsType /\ session'[w] = None /\ \A u \in Volumes \ {w} : session'[u] = session[u]
  BY DEF TypeOK, Disconnect, SessionsType
<1>2. CASE session[w] = None
  BY <1>1, <1>2 DEF TypeOK, Disconnect, PubType, PubKept
<1>3. CASE session[w] # None
  <2>1. pub' = Gone(session[w].dev)
    BY <1>3 DEF Disconnect
  <2>2. pub' \in PubType
    BY <2>1 DEF Gone, TypeOK, PubType
  <2>. QED
    BY <1>1, <1>3, <2>1, <2>2 DEF Gone, PubKept
<1>. QED
  BY <1>2, <1>3

LEMMA PathFacts ==
  /\ Path("absent", None) \in PathType /\ Path("dir", None) \in PathType
  /\ Path("mount", "share") \in PathType
  /\ \A d \in Devices : Path("link", d) \in PathType /\ Path("mount", d) \in PathType
  BY NamesAssumption DEF Path, PathType

LEMMA PathMoves ==
  ASSUME TypeOK, NEW v \in Volumes, NEW k, NEW d, Path(k, d) \in PathType,
         path' = [path EXCEPT ![v] = Path(k, d)]
  PROVE  /\ path' \in [Volumes -> PathType] /\ path'[v].kind = k /\ path'[v].dev = d
         /\ path'[v] = Path(k, d)
         /\ \A u \in Volumes \ {v} : path'[u] = path[u]
  BY DEF TypeOK, Path

LEMMA FaultsCounted ==
  ASSUME TypeOK, Fault \/ Works
  PROVE  faults' \in 0..MaxFaults
  BY BoundsAssumption DEF TypeOK, Fault, Works

-----------------------------------------------------------------------------
(* The effects of a step of volume v, which every action is shown to have  *)
(* and the three invariants are shown to survive.                          *)

Frame(v) ==
    /\ UNCHANGED profile
    /\ RpcMoved(v) /\ rpc'[v].tries <= MaxTries(v)
    /\ path' \in [Volumes -> PathType] /\ \A u \in Volumes \ {v} : path'[u] = path[u]
    /\ session' \in SessionsType
    /\ pub' \in PubType
    /\ staged' \in [Volumes -> {"no", "yes", "maybe"}] /\ \A u \in Volumes \ {v} : staged'[u] = staged[u]
    /\ published' \in [Volumes -> SUBSET Targets]
    /\ \A u \in Volumes \ {v} : published'[u] = published[u]
    /\ faults' \in 0..MaxFaults

(* A session keeps its device until it ends: in a stage whose teardown was *)
(* allowed, in the unstage that has identified it, or by the kernel.  A    *)
(* new one gets a free device.                                             *)
SessionMove(v, u) ==
    \/ session'[u] = session[u]
    \/ session[u] # None /\ session'[u] # None /\ session'[u].dev = session[u].dev
    \/ session'[u] = None /\ u = v /\ (rpc[v].at \in {"kill", "logout"} \/ (P(v).proto = "nvmeof" /\ UNCHANGED rpc))
    \/ session'[u] = None /\ u = rpc[v].owner /\ rpc[v].op = "unstage"
    \/ /\ u = v /\ rpc[v].at = "connect" /\ session[u] = None
       /\ session'[u] # None /\ session'[u].dev \in FreeDevices(v) \union {None}

PathMove(v) ==
    \/ path'[v] = path[v]
    \/ path'[v].kind \in {"absent", "dir"} /\ (Unstaged(v) \/ rpc[v].op = "unstage")
    \/ path'[v] = Path("mount", "share") /\ ~Block(v) /\ rpc[v].op = "stage"
    \/ /\ path'[v] = Path(StagedKind(v), rpc[v].dev) /\ path[v].kind # "mount"
       /\ rpc[v].at = "device" /\ Exists(rpc[v].dev)

(* Session w has device d, and a lookup for v's target takes it for v's.   *)
Found(v, w, d) ==
    /\ w = v \/ (<<v, w>> \in IQNPrefixes /\ P(w).proto = P(v).proto)
    /\ session[w] # None /\ d = session[w].dev /\ d # None

RpcMove(v) ==
    \/ rpc'[v] = rpc[v]
    \/ rpc'[v].at = "start" /\ rpc'[v].dev = None /\ rpc'[v].owner = None
    \/ /\ rpc'[v].at # "device" /\ rpc'[v].dev = rpc[v].dev
       /\ rpc'[v].owner \in {None, rpc[v].owner} \union Owners(path[v].dev)
    \/ /\ rpc'[v].at = "device" /\ rpc'[v].owner = rpc[v].owner /\ session'[v] = session[v]
       /\ \E w \in Volumes : Found(v, w, rpc'[v].dev)

(* The kubelet learns of a stage that has put the device on the path.      *)
KnownMove(v) ==
    KnownStaged(v)' =>
        \/ KnownStaged(v) /\ (path[v].kind = StagedKind(v) => path'[v] = path[v])
        \/ path'[v].kind = StagedKind(v) /\ (P(v).proto = "iscsi" => rpc[v].at = "device")

Effects(v) ==
    /\ Frame(v)
    /\ \A u \in Volumes : SessionMove(v, u)
    /\ PathMove(v) /\ RpcMove(v) /\ KnownMove(v)
    /\ StageOK(v)'
    /\ (staged[v] = "yes" => rpc[v].op \notin {"stage", "unstage"})'
    /\ (rpc[v].op = "publish" => staged[v] = "yes")'

LEMMA EffectsKinds ==
  ASSUME BaseInv, NEW v \in Volumes, Effects(v)
  PROVE  VolumeOK(v)'
<1>1. /\ VolumeOK(v) /\ profile' = profile /\ SessionMove(v, v) /\ PathMove(v) /\ RpcMove(v)
      /\ path[v] \in PathType /\ path'[v] \in PathType /\ rpc[v] \in RpcType
      /\ profile[v] \in Requests
  BY DEF BaseInv, Effects, Frame, TypeOK
<1>2. /\ P(v)' = P(v) /\ Block(v)' = Block(v) /\ DevicesOf(v)' = DevicesOf(v)
      /\ StagedKind(v)' = StagedKind(v)
  BY <1>1 DEF P, Block, DevicesOf, StagedKind
<1>3. session'[v] # None => session'[v].dev \in DevicesOf(v) \union {None}
  BY <1>1 DEF SessionMove, VolumeOK, KindsOK, StageOK, AtStage, FreeDevices, DevicesOf, Block
<1>4. rpc'[v].dev \in DevicesOf(v) \union {None} /\ (rpc'[v].at = "device" => rpc'[v].dev # None)
  <2>1. ASSUME NEW w \in Volumes, NEW d, Found(v, w, d) PROVE d \in DevicesOf(v) /\ d # None
    BY <2>1 DEF BaseInv, VolumeOK, KindsOK, Found, DevicesOf
  <2>. QED
    BY <1>1, <2>1 DEF RpcMove, VolumeOK, KindsOK
<1>5. /\ path'[v].dev \in DevicesOf(v) \union (IF Block(v) THEN {None} ELSE {None, "share"})
      /\ path'[v].kind \notin {"absent", "dir"} => path'[v].kind = StagedKind(v)
  BY <1>1 DEF PathMove, VolumeOK, KindsOK, StageOK, AtStage, PathType, Path, StagedKind, Unstaged, Block, Requests, P
<1>6. KindsOK(v)'
  BY <1>2, <1>3, <1>4, <1>5 DEF KindsOK, Unstaged
<1>7. KubeletOK(v)'
  BY <1>1, <1>2 DEF KubeletOK, VolumeOK, Effects, KnownMove
<1>. QED
  BY <1>6, <1>7 DEF VolumeOK, Effects

LEMMA EffectsBase ==
  ASSUME BaseInv, NEW v \in Volumes, Effects(v)
  PROVE  BaseInv'
<1>1. TypeOK'
  <2>1. ASSUME NEW u \in Volumes PROVE rpc'[u].tries <= MaxTries(u)'
    BY <2>1 DEF BaseInv, TypeOK, Effects, Frame, RpcMoved, MaxTries, P
  <2>. QED
    BY <2>1 DEF BaseInv, TypeOK, Effects, Frame, RpcMoved, SessionsType, PubType
<1>2. ASSUME NEW u \in Volumes, u # v PROVE VolumeOK(u)'
  <2>1. /\ rpc'[u] = rpc[u] /\ path'[u] = path[u] /\ staged'[u] = staged[u] /\ profile'[u] = profile[u]
        /\ session'[u] # None => session[u] # None /\ session'[u].dev = session[u].dev
    BY <1>2 DEF Effects, Frame, RpcMoved, SessionMove
  <2>2. VolumeOK(u)
    BY DEF BaseInv
  <2>. QED
    BY <2>1, <2>2 DEF VolumeOK, KindsOK, StageOK, KubeletOK, KnownStaged, AtStage, Unstaged,
                      StagedKind, DevicesOf, Block, P
<1>. QED
  BY <1>1, <1>2, EffectsKinds DEF BaseInv, Effects, Frame

LEMMA EffectsKnown ==
  ASSUME BaseInv, KnownInv, NEW v \in Volumes, Effects(v)
  PROVE  KnownInv'
<1>1. UNCHANGED profile /\ KnownMove(v)
      /\ \A u \in Volumes \ {v} : rpc'[u] = rpc[u] /\ path'[u] = path[u] /\ staged'[u] = staged[u]
  BY DEF Effects, Frame, RpcMoved
<1>2. \A u \in Volumes : StagedKind(u)' = StagedKind(u) /\ KnownOK(u)
  BY <1>1 DEF StagedKind, P, KnownInv
<1>3. KnownOK(v)'
  BY <1>1, <1>2 DEF KnownOK, KnownMove
<1>4. ASSUME NEW u \in Volumes, u # v PROVE KnownOK(u)'
  BY <1>1, <1>2, <1>4 DEF KnownOK, KnownStaged
<1>. QED
  BY <1>3, <1>4 DEF KnownInv

(* The device names of two volumes meet only when they have one protocol.  *)
LEMMA DevicesApart ==
  ASSUME TypeOK, NEW u \in Volumes, NEW v \in Volumes, NEW d, d \in DevicesOf(u), d \in DevicesOf(v)
  PROVE  P(u).proto = P(v).proto /\ d \in Devices /\ d # None /\ d \notin {"share", "bare", "dead"}
  BY NamesAssumption DEF DevicesOf, Devices

(* The link of a raw volume that shares its protocol with no other leads   *)
(* to its own session, or nowhere.                                         *)
LEMMA LinkedOwn ==
  ASSUME BaseInv, NEW v \in Volumes, Alone(v), path[v].kind = "link", NEW w \in Owners(path[v].dev)
  PROVE  w = v
<1> SUFFICES ASSUME w # v PROVE FALSE
  OBVIOUS
<1>1. w \in Volumes /\ session[w] # None /\ session[w].dev = path[v].dev /\ path[v].dev # None
  BY DEF Owners
<1>2. KindsOK(v) /\ KindsOK(w) /\ TypeOK
  BY <1>1 DEF BaseInv, VolumeOK
<1>3. P(v).block
  BY <1>2 DEF KindsOK, Unstaged, StagedKind
<1>4. P(w).proto # P(v).proto
  BY <1>1, <1>3 DEF Alone
<1>5. Block(v)
  BY <1>2, <1>3 DEF TypeOK, Requests, Block, P
<1>6. path[v].dev \in DevicesOf(v) /\ path[v].dev \in DevicesOf(w)
  BY <1>1, <1>2, <1>5 DEF KindsOK
<1>. QED
  BY <1>1, <1>2, <1>4, <1>6, DevicesApart

(* A staging path that leads to a session leads to the volume's own one.   *)
LEMMA OwnersOwn ==
  ASSUME BaseInv, OwnInv, NEW v \in Volumes, Alone(v), NEW w \in Owners(path[v].dev)
  PROVE  w = v
<1>1. w \in Volumes /\ session[w] # None /\ session[w].dev = path[v].dev /\ path[v].dev # None
  BY DEF Owners
<1>2. path[v] \in PathType
  BY DEF BaseInv, TypeOK
<1>3. CASE path[v].kind = "mount"
  BY <1>1, <1>3 DEF OwnInv, ApartInv, Apart
<1>. QED
  BY <1>1, <1>2, <1>3, LinkedOwn DEF PathType

(* The devices of two volumes stay apart, whoever ends a session.          *)
LEMMA EffectsApart ==
  ASSUME NoPrefixes, BaseInv, ApartInv, NEW v \in Volumes, Effects(v)
  PROVE  ApartInv'
<1>1. /\ TypeOK /\ PathMove(v) /\ RpcMove(v) /\ \A u \in Volumes : SessionMove(v, u)
      /\ \A u \in Volumes \ {v} : rpc'[u] = rpc[u] /\ path'[u] = path[u]
  BY DEF BaseInv, Effects, Frame, RpcMoved
<1>2. ASSUME NEW u \in Volumes, u # v
      PROVE  \/ session'[u] = session[u] \/ session'[u] = None
             \/ session[u] # None /\ session'[u] # None /\ session'[u].dev = session[u].dev
  BY <1>1, <1>2 DEF SessionMove
<1>3. ASSUME NEW u \in Volumes, NEW x \in Volumes, u # x PROVE Apart(u, x)'
  <2>1. Apart(u, x) /\ Apart(x, u)
    BY <1>3 DEF ApartInv
  <2>3. CASE u # v /\ x # v
    BY <1>1, <1>2, <2>1, <2>3 DEF Apart
  <2>4. CASE u = v
    <3>1. CASE session[v] # None
      BY <1>1, <1>2, <1>3, <2>1, <2>4, <3>1 DEF Apart, SessionMove
    <3>2. CASE session[v] = None /\ session'[v] # None /\ session'[v].dev # None
      <4>1. PICK d \in FreeDevices(v) : d = session'[v].dev /\ d # None
        BY <1>1, <3>2 DEF SessionMove
      <4>2. session[x] # None => session[x].dev # d
        BY <4>1 DEF FreeDevices, Exists, Owners
      <4>3. path[x].kind = "mount" => path[x].dev # d
        <5>1. path[x] = Path("mount", d) => FALSE
          BY <4>1 DEF FreeDevices, IsSourceMounted
        <5>2. path[x] \in PathType
          BY <1>1 DEF TypeOK
        <5>. QED
          BY <5>1, <5>2 DEF PathType, Path
      <4>4. rpc[x].at = "device" => rpc[x].dev # d
        BY <4>1 DEF FreeDevices
      <4>. QED
        BY <1>1, <1>2, <1>3, <2>4, <4>1, <4>2, <4>3, <4>4 DEF Apart
    <3>. QED
      BY <2>4, <3>1, <3>2 DEF Apart
  <2>5. CASE x = v
    <3> SUFFICES ASSUME session'[u] # None, session'[u].dev # None PROVE Apart(u, x)'
      BY DEF Apart
    <3>1. session[u] # None /\ session'[u].dev = session[u].dev
      BY <1>2, <1>3, <2>5
    <3>2. session'[v] # None => session'[v].dev # session[u].dev
      BY <1>1, <2>1, <2>5, <3>1 DEF SessionMove, FreeDevices, Exists, Owners, Apart
    <3>3. session[u].dev # "share"
      BY <1>1, <3>1, NamesAssumption DEF TypeOK, SessionType
    <3>4. path'[v].kind = "mount" => path'[v].dev # session[u].dev
      BY <1>1, <2>1, <2>5, <3>1, <3>3 DEF PathMove, Apart, Path
    <3>5. rpc'[v].at = "device" => rpc'[v].dev # session[u].dev
      BY <1>1, <2>1, <2>5, <3>1 DEF NoPrefixes, Found, RpcMove, Apart
    <3>. QED
      BY <2>5, <3>1, <3>2, <3>4, <3>5 DEF Apart
  <2>. QED
    BY <2>3, <2>4, <2>5
<1>. QED
  BY <1>3 DEF ApartInv

LEMMA EffectsOwn ==
  ASSUME NoPrefixes, BaseInv, KnownInv, OwnInv, NEW v \in Volumes, \A u \in Volumes : Alone(u), Effects(v)
  PROVE  OwnInv'
<1>1. /\ TypeOK /\ VolumeOK(v) /\ OwnOK(v) /\ profile' = profile /\ PathMove(v) /\ RpcMove(v)
      /\ path[v] \in PathType /\ path'[v] \in PathType /\ rpc[v] \in RpcType
      /\ profile[v] \in Requests
      /\ \A u \in Volumes : SessionMove(v, u)
      /\ \A u \in Volumes \ {v} : rpc'[u] = rpc[u] /\ path'[u] = path[u] /\ staged'[u] = staged[u]
  BY DEF BaseInv, OwnInv, Effects, Frame, TypeOK, RpcMoved
<1>2. rpc'[v].owner \in {None, v}
  BY <1>1, OwnersOwn DEF RpcMove, OwnOK
<1>3. ASSUME NEW u \in Volumes, u # v
      PROVE  session'[u] = session[u] \/ (session[u] # None /\ session'[u] # None /\ session'[u].dev = session[u].dev)
  BY <1>1, <1>3, NamesAssumption DEF SessionMove, OwnOK
<1>4. ASSUME P(v).proto = "iscsi"
      PROVE  /\ rpc'[v].at = "device" => session'[v] # None /\ session'[v].dev = rpc'[v].dev
             /\ session'[v] # None /\ path'[v].dev # None => session'[v].dev = path'[v].dev
             /\ KnownStaged(v)' => session'[v] # None /\ session'[v].dev = path'[v].dev
  <2>1. rpc'[v].at = "device" => session'[v] # None /\ session'[v].dev = rpc'[v].dev
    BY <1>1, <1>4, NamesAssumption DEF NoPrefixes, Found, RpcMove, SessionMove, OwnOK, RpcType, VolumeOK, StageOK, AtStage
  <2>2. session'[v] # None /\ path'[v].dev # None => session'[v].dev = path'[v].dev
    BY <1>1, <1>4, NamesAssumption DEF PathMove, SessionMove, OwnOK, PathType, Path, Unstaged, StageOK, AtStage, VolumeOK, Block
  <2>3. KnownStaged(v)' => session'[v] # None /\ session'[v].dev = path'[v].dev
    <3>1. SUFFICES ASSUME KnownStaged(v)' PROVE session'[v] # None /\ session'[v].dev = path'[v].dev
      OBVIOUS
    <3>2. CASE KnownStaged(v) /\ (path[v].kind = StagedKind(v) => path'[v] = path[v])
      BY <1>1, <1>4, <3>2 DEF KnownInv, KnownOK, OwnOK, SessionMove, KnownStaged, VolumeOK, KubeletOK, StageOK, AtStage
    <3>3. CASE path'[v].kind = StagedKind(v) /\ rpc[v].at = "device"
      <4>1. session[v] # None /\ session'[v] # None /\ session'[v].dev = session[v].dev
        BY <1>1, <1>4, <3>3 DEF OwnOK, SessionMove, VolumeOK, StageOK, AtStage
      <4>2. path'[v].dev # None
        BY <1>1, <3>3 DEF PathType, StagedKind
      <4>. QED
        BY <2>2, <4>1, <4>2
    <3>. QED
      BY <1>4, <3>1, <3>2, <3>3 DEF Effects, KnownMove
  <2>. QED
    BY <2>1, <2>2, <2>3
<1>5. ASSUME NEW u \in Volumes PROVE OwnOK(u)'
  <2>1. CASE u = v
    BY <1>1, <1>2, <1>4, <2>1 DEF OwnOK, P
  <2>2. CASE u # v
    <3>1. OwnOK(u) /\ rpc'[u] = rpc[u] /\ path'[u] = path[u] /\ staged'[u] = staged[u] /\ P(u)' = P(u)
      BY <1>1, <2>2 DEF OwnInv, P
    <3>. QED
      BY <1>3, <2>2, <3>1 DEF OwnOK, KnownStaged
  <2>. QED
    BY <2>1, <2>2
<1>6. ApartInv'
  BY EffectsApart DEF OwnInv
<1>. QED
  BY <1>5, <1>6 DEF OwnInv

-----------------------------------------------------------------------------
(* A step that binds nothing: what is bound stays, or dies with the        *)
(* session of its volume.                                                  *)
DeadWithSession(u) ==
    session[u] # None /\ session[u].dev # None /\ session'[u] = None =>
        \A t \in Targets : P(u).block /\ pub[u][t] = session[u].dev => pub'[u][t] = "dead"

Quiet(v) ==
    /\ Effects(v)
    /\ published'[v] = published[v]
    /\ \A u \in Volumes : PubKept(u) /\ DeadWithSession(u)
    /\ \/ rpc'[v] = rpc[v]
       \/ rpc'[v] = Idle
       \/ /\ rpc'[v].op = rpc[v].op /\ rpc'[v].target = rpc[v].target /\ rpc'[v].at # "bind"
          /\ rpc[v].op = "unpublish" => rpc'[v].at # "reply"

LEMMA QuietShown ==
  ASSUME BaseInv, PublishInv, NEW v \in Volumes, Effects(v),
         NEW u \in Volumes, NEW t \in Targets, pub'[u][t] = pub[u][t], Shown(u, t), DeadWithSession(u)
  PROVE  /\ ~P(u).block => path'[u] = Path("mount", pub'[u][t])
         /\ P(u).block /\ Alone(u) => session'[u] # None /\ session'[u].dev = pub'[u][t]
<1>1. /\ ShownOK(u, t) /\ VolumeOK(u) /\ SessionMove(v, u) /\ PathMove(v) /\ path[u] \in PathType
      /\ u # v => path'[u] = path[u]
  BY DEF PublishInv, PublishOK, BaseInv, Effects, Frame, TypeOK
<1>2. ~P(u).block => path'[u] = Path("mount", pub[u][t])
  <2>1. SUFFICES ASSUME ~P(u).block, u = v PROVE path'[u] = path[u]
    BY <1>1 DEF ShownOK
  <2>2. path[u].kind = "mount" /\ path[u].dev = pub[u][t] /\ path[u] = Path("mount", path[u].dev)
    BY <1>1, <2>1 DEF ShownOK, Path
  <2>3. ~Block(u) => path[u].dev = "share"
    BY <1>1, <2>2, NamesAssumption DEF VolumeOK, KindsOK, DevicesOf, Block, PathType
  <2>. QED
    BY <1>1, <2>1, <2>2, <2>3 DEF PathMove, ShownOK, Unstaged
<1>3. P(u).block /\ Alone(u) => session'[u] # None /\ session'[u].dev = pub[u][t]
  BY <1>1 DEF ShownOK, SessionMove, DeadWithSession, Shown
<1>. QED
  BY <1>2, <1>3

LEMMA QuietPublish ==
  ASSUME BaseInv, PublishInv, NEW v \in Volumes, Quiet(v)
  PROVE  PublishInv'
<1>1. /\ UNCHANGED profile /\ Effects(v) /\ \A u \in Volumes : published'[u] = published[u]
      /\ \A u \in Volumes \ {v} : rpc'[u] = rpc[u]
  BY DEF Quiet, Effects, Frame, RpcMoved, BaseInv, TypeOK
<1>2. ASSUME NEW u \in Volumes PROVE PublishOK(u)'
  <2>1. PublishOK(u) /\ P(u)' = P(u) /\ Alone(u)' = Alone(u)
    BY <1>1 DEF PublishInv, P, Alone
  <2>2. \/ rpc'[u] = rpc[u]
        \/ rpc'[u].op = "none" /\ rpc'[u].at = "start"
        \/ /\ rpc'[u].op = rpc[u].op /\ rpc'[u].target = rpc[u].target /\ rpc'[u].at # "bind"
           /\ rpc[u].op = "unpublish" => rpc'[u].at # "reply"
    BY <1>1 DEF Quiet, Idle
  <2>3. ASSUME NEW t \in Targets, Shown(u, t)'
        PROVE  /\ Shown(u, t) /\ ShownOK(u, t) /\ pub'[u][t] = pub[u][t]
               /\ ~P(u).block => path'[u] = Path("mount", pub'[u][t])
               /\ P(u).block /\ Alone(u) => session'[u] # None /\ session'[u].dev = pub'[u][t]
    <3>1. pub'[u][t] = pub[u][t] /\ Shown(u, t)
      BY <2>3 DEF Quiet, PubKept, Shown
    <3>. QED
      BY <1>1, <2>1, <3>1, QuietShown DEF Quiet, PublishOK
  <2>4. ASSUME NEW t \in Targets, Shown(u, t)' PROVE ShownOK(u, t)'
    BY <1>1, <2>1, <2>2, <2>3, <2>4 DEF ShownOK
  <2>. QED
    BY <1>1, <2>1, <2>2, <2>3, <2>4 DEF PublishOK
<1>. QED
  BY <1>2 DEF PublishInv

-----------------------------------------------------------------------------
(* The parts of a quiet step.                                              *)
SessionsMoved(v) ==
    /\ session' \in SessionsType /\ pub' \in PubType
    /\ \A u \in Volumes : SessionMove(v, u) /\ PubKept(u) /\ DeadWithSession(u)

PathMoved(v) ==
    /\ path' \in [Volumes -> PathType] /\ \A u \in Volumes \ {v} : path'[u] = path[u]
    /\ PathMove(v)

LEMMA SessionsUnchanged ==
  ASSUME TypeOK, NEW v \in Volumes, UNCHANGED <<session, pub>>
  PROVE  SessionsMoved(v)
  BY DEF TypeOK, SessionsMoved, SessionsType, PubType, SessionMove, PubKept, DeadWithSession

LEMMA SessionsDisconnect ==
  ASSUME TypeOK, NEW v \in Volumes, NEW w \in Volumes, Disconnect(w),
         \/ w = v /\ (rpc[v].at \in {"kill", "logout"} \/ (P(v).proto = "nvmeof" /\ UNCHANGED rpc))
         \/ w = rpc[v].owner /\ rpc[v].op = "unstage"
  PROVE  SessionsMoved(v)
<1>1. /\ session' \in SessionsType /\ pub' \in PubType /\ session'[w] = None
      /\ \A u \in Volumes \ {w} : session'[u] = session[u]
      /\ \A u \in Volumes : PubKept(u)
  BY DisconnectMoves
<1>2. DeadWithSession(w)
  BY DisconnectMoves DEF DeadWithSession
<1>3. ASSUME NEW u \in Volumes, u # w PROVE DeadWithSession(u)
  BY <1>1, <1>3 DEF DeadWithSession
<1>. QED
  BY <1>1, <1>2, <1>3 DEF SessionsMoved, SessionMove

LEMMA PathUnchanged ==
  ASSUME TypeOK, NEW v \in Volumes, UNCHANGED path
  PROVE  PathMoved(v)
  BY DEF TypeOK, PathMoved, PathMove

(* A command that fails on the way to a mount may leave a directory.       *)
LEMMA PathLeavesDir ==
  ASSUME TypeOK, NEW v \in Volumes,
         path' = [path EXCEPT ![v] = IF @.kind = "absent" THEN Path("dir", None) ELSE @]
  PROVE  PathMoved(v)
<1>1. CASE path[v].kind = "absent"
  BY <1>1, PathFacts, PathMoves DEF PathMoved, PathMove, Unstaged
<1>2. CASE path[v].kind # "absent"
  BY <1>2 DEF TypeOK, PathMoved, PathMove
<1>. QED
  BY <1>1, <1>2

(* While the answer is not a stage's success, the kubelet knows what it    *)
(* knew.                                                                   *)
LEMMA NotKnown ==
  ASSUME BaseInv, NEW v \in Volumes, UNCHANGED Kubelet, PathMove(v),
         rpc'[v].op # "stage" \/ rpc'[v].at # "reply"
  PROVE  /\ KnownMove(v)
         /\ rpc'[v].op \in {rpc[v].op, "none"} =>
               /\ (staged[v] = "yes" => rpc[v].op \notin {"stage", "unstage"})'
               /\ (rpc[v].op = "publish" => staged[v] = "yes")'
<1>1. staged' = staged /\ KubeletOK(v) /\ StageOK(v)
  BY DEF Kubelet, BaseInv, VolumeOK
<1>2. ASSUME staged[v] = "yes", path[v].kind = StagedKind(v) PROVE path'[v] = path[v]
  BY <1>1, <1>2 DEF KubeletOK, PathMove, StagedKind, Unstaged, StageOK, AtStage
<1>. QED
  BY <1>1, <1>2 DEF KnownMove, KnownStaged, KubeletOK

LEMMA QuietEnd ==
  ASSUME BaseInv, NEW v \in Volumes, UNCHANGED profile, Fails(v), Fault \/ Works,
         SessionsMoved(v), PathMoved(v)
  PROVE  Quiet(v)
<1>1. TypeOK /\ RpcMoved(v) /\ rpc'[v] = Idle /\ UNCHANGED Kubelet
  BY EndMoves DEF BaseInv, Fails
<1>2. /\ rpc'[v].op = "none" /\ rpc'[v].at = "start" /\ rpc'[v].dev = None /\ rpc'[v].owner = None
      /\ rpc'[v].tries = 0
  BY <1>1 DEF Idle
<1>3. rpc'[v].tries <= MaxTries(v) /\ faults' \in 0..MaxFaults
  BY <1>1, <1>2, FaultsCounted DEF MaxTries
<1>4. Frame(v)
  BY <1>1, <1>3 DEF Frame, SessionsMoved, PathMoved, Kubelet, TypeOK
<1>5. StageOK(v)'
  BY <1>2 DEF StageOK, AtStage
<1>. QED
  BY <1>1, <1>2, <1>4, <1>5, NotKnown DEF Quiet, Effects, SessionsMoved, PathMoved, RpcMove, Kubelet

(* The body goes on.                                                       *)
LEMMA QuietMove ==
  ASSUME BaseInv, NEW v \in Volumes, UNCHANGED profile, UNCHANGED Kubelet, Fault \/ Works,
         SessionsMoved(v), PathMoved(v), RpcMoved(v), RpcMove(v), rpc'[v].tries <= MaxTries(v),
         rpc'[v].op = rpc[v].op, rpc'[v].target = rpc[v].target, rpc'[v].at # "bind",
         rpc[v].op = "unpublish" => rpc'[v].at # "reply",
         rpc'[v].op # "stage" \/ rpc'[v].at # "reply" \/ (KnownMove(v) /\ staged[v] # "yes"),
         StageOK(v)'
  PROVE  Quiet(v)
<1>1. TypeOK /\ faults' \in 0..MaxFaults /\ PathMove(v)
  BY FaultsCounted DEF BaseInv, PathMoved
<1>2. Frame(v)
  BY <1>1 DEF Frame, SessionsMoved, PathMoved, Kubelet, TypeOK
<1>3. /\ KnownMove(v)
      /\ (staged[v] = "yes" => rpc[v].op \notin {"stage", "unstage"})'
      /\ (rpc[v].op = "publish" => staged[v] = "yes")'
  <2>1. CASE rpc'[v].op # "stage" \/ rpc'[v].at # "reply"
    BY <1>1, <2>1, NotKnown
  <2>2. CASE rpc'[v].op = "stage" /\ KnownMove(v) /\ staged[v] # "yes"
    BY <2>2 DEF Kubelet
  <2>. QED
    BY <2>1, <2>2
<1>. QED
  BY <1>1, <1>2, <1>3 DEF Quiet, Effects, SessionsMoved, PathMoved, Kubelet

LEMMA QuietGoto ==
  ASSUME BaseInv, NEW v \in Volumes, NEW pc \in Pcs \ {"device", "bind"}, Goto(v, pc),
         UNCHANGED profile, UNCHANGED Kubelet, Fault \/ Works, SessionsMoved(v), PathMoved(v),
         rpc[v].op = "unpublish" => pc # "reply",
         rpc[v].op = "stage" /\ pc = "reply" =>
            path'[v].kind = StagedKind(v) /\ (P(v).proto = "iscsi" => rpc[v].at = "device"),
         pc \in {"kill", "acquire", "connect", "wait", "logout"} => rpc[v].op = "stage" /\ Block(v),
         pc = "acquire" => P(v).proto = "nvmeof",
         pc = "kill" => path'[v].kind \in {"absent", "dir"},
         pc \in {"connect", "wait", "logout"} => rpc[v].tries > 0,
         P(v).proto = "iscsi" /\ pc \in {"kill", "acquire", "connect", "wait", "logout"} /\ rpc[v].tries > 0
            => path'[v].kind \in {"absent", "dir"}
  PROVE  Quiet(v)
<1>1. TypeOK /\ KubeletOK(v) /\ rpc[v].tries <= MaxTries(v) /\ P(v)' = P(v) /\ Block(v)' = Block(v)
  BY DEF BaseInv, VolumeOK, TypeOK, P, Block
<1>2. /\ RpcMoved(v) /\ rpc'[v].at = pc
      /\ rpc'[v].op = rpc[v].op /\ rpc'[v].target = rpc[v].target /\ rpc'[v].dev = rpc[v].dev
      /\ rpc'[v].owner = rpc[v].owner /\ rpc'[v].tries = rpc[v].tries
  BY <1>1, GotoMoves
<1>3. StageOK(v)'
  BY <1>1, <1>2 DEF StageOK, AtStage, Unstaged
<1>4. RpcMove(v)
  BY <1>2 DEF RpcMove
<1>5. rpc'[v].op # "stage" \/ rpc'[v].at # "reply" \/ (KnownMove(v) /\ staged[v] # "yes")
  <2>1. SUFFICES ASSUME rpc[v].op = "stage", pc = "reply" PROVE KnownMove(v) /\ staged[v] # "yes"
    BY <1>2
  <2>. QED
    BY <1>1, <2>1 DEF KnownMove, KubeletOK
<1>. QED
  BY <1>1, <1>2, <1>3, <1>4, <1>5, QuietMove

(* A session's device is used.                                             *)
LEMMA QuietUseDevice ==
  ASSUME BaseInv, NEW v \in Volumes, NEW w \in Volumes, NEW d, Found(v, w, d),
         NEW n \in Nat, n <= MaxTries(v), UseDevice(v, d, n),
         UNCHANGED profile, UNCHANGED Kubelet, Fault \/ Works, UNCHANGED <<session, pub>>, UNCHANGED path,
         rpc[v].op = "stage", Block(v),
         P(v).proto = "iscsi" /\ n > 0 => Unstaged(v)
  PROVE  Quiet(v)
<1>1. TypeOK /\ P(v)' = P(v) /\ Block(v)' = Block(v) /\ Unstaged(v)' = Unstaged(v)
  BY DEF BaseInv, P, Block, Unstaged
<1>2. /\ RpcMoved(v) /\ rpc'[v].at = "device" /\ rpc'[v].dev = d /\ rpc'[v].tries = n
      /\ rpc'[v].op = rpc[v].op /\ rpc'[v].target = rpc[v].target /\ rpc'[v].owner = rpc[v].owner
  <2>1. d \in Devices
    BY <1>1, NamesAssumption DEF TypeOK, SessionType, Found
  <2>. QED
    BY <1>1, <2>1, UseDeviceMoves
<1>3. StageOK(v)' /\ RpcMove(v)
  BY <1>1, <1>2 DEF StageOK, AtStage, RpcMove
<1>. QED
  <2>1. SessionsMoved(v) /\ PathMoved(v)
    BY <1>1, SessionsUnchanged, PathUnchanged
  <2>2. rpc'[v].tries <= MaxTries(v) /\ rpc'[v].at # "bind" /\ rpc'[v].at # "reply"
    BY <1>2
  <2>. QED
    BY <1>2, <1>3, <2>1, <2>2, QuietMove

(* The retry loop starts, or goes on.                                      *)
LEMMA QuietConnect ==
  ASSUME BaseInv, NEW v \in Volumes, (Connect(v) /\ UNCHANGED Kubelet) \/ Again(v),
         UNCHANGED profile, Fault \/ Works, SessionsMoved(v), UNCHANGED path,
         rpc[v].op = "stage", Block(v), P(v).proto = "iscsi" => Unstaged(v)
  PROVE  Quiet(v)
<1>1. /\ TypeOK /\ P(v)' = P(v) /\ Block(v)' = Block(v) /\ Unstaged(v)' = Unstaged(v)
      /\ rpc[v].tries \in Nat /\ 1 <= MaxTries(v)
  BY DEF BaseInv, P, Block, Unstaged, MaxTries, TypeOK, RpcType
<1>2. CASE rpc' = [rpc EXCEPT ![v] = Idle] /\ UNCHANGED Kubelet
  BY <1>1, <1>2, QuietEnd, PathUnchanged DEF Fails
<1>3. CASE /\ RpcMoved(v) /\ rpc'[v].at = "connect" /\ UNCHANGED Kubelet
           /\ rpc'[v].tries > 0 /\ rpc'[v].tries <= MaxTries(v)
           /\ rpc'[v].op = rpc[v].op /\ rpc'[v].target = rpc[v].target
           /\ rpc'[v].dev = rpc[v].dev /\ rpc'[v].owner = rpc[v].owner
  <2>1. StageOK(v)' /\ RpcMove(v)
    BY <1>1, <1>3 DEF StageOK, AtStage, RpcMove
  <2>2. PathMoved(v) /\ rpc'[v].at # "bind" /\ rpc'[v].at # "reply"
    BY <1>1, <1>3, PathUnchanged
  <2>. QED
    BY <1>1, <1>3, <2>1, <2>2, QuietMove
<1>4. CASE Connect(v) /\ UNCHANGED Kubelet
  BY <1>1, <1>3, <1>4, ConnectMoves
<1>5. CASE Again(v)
  <2>1. CASE rpc[v].tries < MaxTries(v)
    <3>1. rpc'[v].tries = rpc[v].tries + 1 => rpc'[v].tries > 0
      BY <1>1
    <3>2. rpc'[v].at = "connect"
      BY <1>1, <1>5, <2>1 DEF Again, TypeOK, RpcType
    <3>. QED
      BY <1>1, <1>3, <1>5, <3>1, <3>2, AgainMoves DEF Idle
  <2>2. CASE ~(rpc[v].tries < MaxTries(v))
    BY <1>2, <1>5, <2>2 DEF Again, Fails
  <2>. QED
    BY <2>1, <2>2
<1>. QED
  BY <1>4, <1>5

-----------------------------------------------------------------------------
(* The actions of a stage.                                                 *)

LEMMA MountShareQuiet ==
  ASSUME BaseInv, NEW v \in Volumes, NEW proto \in {"nfs", "smb"}, MountShare(v, proto)
  PROVE  Quiet(v)
<1>1. /\ TypeOK /\ UNCHANGED profile /\ UNCHANGED <<session, pub>> /\ SessionsMoved(v)
      /\ rpc[v].op = "stage" /\ rpc[v].at = "start"
  BY SessionsUnchanged DEF BaseInv, MountShare, At
<1>2. ~P(v).block /\ ~Block(v) /\ P(v).proto # "iscsi"
  BY <1>1 DEF TypeOK, Requests, P, Block, MountShare
<1>3. CASE Works /\ Succeeds(v) /\ path' = [path EXCEPT ![v] = Path("mount", "share")]
  <2>1. PathMoved(v) /\ path'[v].kind = StagedKind(v)
    BY <1>1, <1>2, <1>3, PathFacts, PathMoves, ZenonT(60) DEF PathMoved, PathMove, StagedKind
  <2>. QED
    BY <1>1, <1>2, <1>3, <2>1, QuietGoto DEF Succeeds, Pcs
<1>4. CASE Fault /\ Fails(v) /\ path' = [path EXCEPT ![v] = IF @.kind = "absent" THEN Path("dir", None) ELSE @]
  BY <1>1, <1>4, PathLeavesDir, QuietEnd
<1>. QED
  BY <1>3, <1>4 DEF MountShare

LEMMA TearDownQuiet ==
  ASSUME BaseInv, NEW v \in Volumes, UNCHANGED profile, UNCHANGED Node, Fault \/ Works, TearDown(v),
         rpc[v].op = "stage", Block(v)
  PROVE  Quiet(v)
<1>1. TypeOK /\ SessionsMoved(v) /\ PathMoved(v) /\ path[v] \in PathType /\ path' = path
  BY SessionsUnchanged, PathUnchanged DEF BaseInv, Node, TypeOK
<1>2. CASE refuseTeardownWhileStaged(v)
  BY <1>1, <1>2, QuietEnd DEF TearDown
<1>3. CASE ~refuseTeardownWhileStaged(v)
  <2>1. path'[v].kind \in {"absent", "dir"}
    BY <1>1, <1>3 DEF refuseTeardownWhileStaged, PathType
  <2>. QED
    BY <1>1, <1>3, <2>1, QuietGoto DEF TearDown, Pcs
<1>. QED
  BY <1>2, <1>3

(* What findISCSIDevice returns.                                           *)
LEMMA FoundISCSI ==
  ASSUME NEW v \in Volumes, P(v).proto = "iscsi", NEW d \in findISCSIDevice(v)
  PROVE  \E w \in Volumes : Found(v, w, d)
  BY DEF findISCSIDevice, SameIQN, Found

LEMMA StartQuiet ==
  ASSUME BaseInv, NEW v \in Volumes, stageISCSIVolume(v) \/ tryReuseExistingConnection(v)
  PROVE  Quiet(v)
<1>1. /\ TypeOK /\ UNCHANGED profile /\ UNCHANGED <<session, pub>> /\ UNCHANGED path /\ UNCHANGED Node
      /\ SessionsMoved(v) /\ PathMoved(v)
      /\ rpc[v].op = "stage" /\ rpc[v].at = "start" /\ Block(v)
  BY SessionsUnchanged, PathUnchanged
     DEF BaseInv, stageISCSIVolume, tryReuseExistingConnection, At, Node, Block
<1>2. ASSUME NEW w \in Volumes, NEW d, Found(v, w, d), Fault \/ Works, UseDevice(v, d, 0), UNCHANGED Kubelet
      PROVE  Quiet(v)
  BY <1>1, <1>2, QuietUseDevice DEF MaxTries
<1>3. CASE (Fault \/ Works) /\ TearDown(v)
  BY <1>1, <1>3, TearDownQuiet
<1>4. CASE P(v).proto = "nvmeof" /\ Works /\ Goto(v, "acquire") /\ UNCHANGED Kubelet
  BY <1>1, <1>4, QuietGoto DEF Pcs
<1>5. CASE stageISCSIVolume(v)
  <2>1. ASSUME NEW d \in findISCSIDevice(v) PROVE \E w \in Volumes : Found(v, w, d)
    BY <1>5, <2>1, FoundISCSI DEF stageISCSIVolume
  <2>2. CASE (Fault \/ Works) /\ TearDown(v)
    BY <1>3, <2>2
  <2>3. ASSUME NEW d \in findISCSIDevice(v), Fault \/ Works, UseDevice(v, d, 0), UNCHANGED Kubelet
        PROVE  Quiet(v)
    BY <1>2, <2>1, <2>3
  <2>. QED
    BY <1>5, <2>2, <2>3 DEF stageISCSIVolume
<1>6. CASE tryReuseExistingConnection(v)
  <2>1. Healthy(v) => Found(v, v, session[v].dev)
    BY DEF Healthy, Found
  <2>. QED
    BY <1>2, <1>3, <1>4, <1>6, <2>1 DEF tryReuseExistingConnection
<1>. QED
  BY <1>5, <1>6

LEMMA KillQuiet ==
  ASSUME BaseInv, NEW v \in Volumes, forceKillISCSISession(v) \/ DisconnectStale(v)
  PROVE  Quiet(v)
<1>1. /\ TypeOK /\ UNCHANGED profile /\ UNCHANGED Kubelet /\ UNCHANGED path /\ PathMoved(v)
      /\ rpc[v].op = "stage" /\ rpc[v].at = "kill" /\ Block(v) /\ Unstaged(v) /\ (Fault \/ Works)
  BY PathUnchanged DEF BaseInv, VolumeOK, StageOK, forceKillISCSISession, DisconnectStale, At, Block
<1>2. SessionsMoved(v)
  BY <1>1, SessionsUnchanged, SessionsDisconnect DEF forceKillISCSISession, DisconnectStale
<1>3. CASE Connect(v)
  BY <1>1, <1>2, <1>3, QuietConnect
<1>4. CASE Goto(v, "acquire") /\ P(v).proto = "nvmeof"
  BY <1>1, <1>2, <1>4, QuietGoto DEF Pcs
<1>. QED
  BY <1>3, <1>4 DEF forceKillISCSISession, DisconnectStale

LEMMA AcquireQuiet ==
  ASSUME BaseInv, NEW v \in Volumes, stageNVMeOFVolume(v)
  PROVE  Quiet(v)
<1>1. /\ TypeOK /\ UNCHANGED profile /\ UNCHANGED path /\ UNCHANGED <<session, pub>>
      /\ rpc[v].op = "stage" /\ Block(v) /\ P(v).proto = "nvmeof" /\ (Fault \/ Works)
  BY DEF BaseInv, VolumeOK, StageOK, AtStage, stageNVMeOFVolume, At, Node
<1>2. SessionsMoved(v) /\ PathMoved(v)
  BY <1>1, SessionsUnchanged, PathUnchanged
<1>. QED
  BY <1>1, <1>2, QuietConnect, QuietEnd DEF stageNVMeOFVolume

LEMMA LoginQuiet ==
  ASSUME BaseInv, NEW v \in Volumes, NEW proto \in {"iscsi", "nvmeof"}, Login(v, proto)
  PROVE  Quiet(v)
<1>1. /\ TypeOK /\ UNCHANGED profile /\ UNCHANGED path /\ UNCHANGED pub /\ PathMoved(v)
      /\ rpc[v].op = "stage" /\ rpc[v].at = "connect" /\ Block(v) /\ rpc[v].tries > 0
      /\ P(v).proto = "iscsi" => Unstaged(v)
      /\ Fault \/ Works
  BY PathUnchanged DEF BaseInv, VolumeOK, StageOK, AtStage, Login, At
<1>2. CASE UNCHANGED session /\ Goto(v, "wait") /\ UNCHANGED Kubelet
  BY <1>1, <1>2, SessionsUnchanged, QuietGoto DEF Pcs, Unstaged
<1>3. CASE UNCHANGED session /\ Again(v)
  BY <1>1, <1>3, SessionsUnchanged, QuietConnect
<1>4. CASE UNCHANGED session /\ Fails(v)
  BY <1>1, <1>4, SessionsUnchanged, QuietEnd
<1>5. ASSUME NEW d \in FreeDevices(v) \union {None}, session[v] = None,
             session' = [session EXCEPT ![v] = [dev |-> d, state |-> "live"]]
      PROVE  SessionsMoved(v)
  <2>1. d \in Devices \union {None}
    BY DEF FreeDevices, Devices
  <2>2. session' \in SessionsType /\ session'[v] = [dev |-> d, state |-> "live"]
    BY <1>1, <1>5, <2>1 DEF TypeOK, SessionsType, SessionType, LinkStates
  <2>3. /\ session'[v].dev = d /\ session'[v] # None
        /\ \A u \in Volumes \ {v} : session'[u] = session[u]
    BY <1>1, <1>5, <2>1, <2>2, NamesAssumption DEF TypeOK, SessionType, LinkStates
  <2>. QED
    BY <1>1, <1>5, <2>2, <2>3
       DEF SessionsMoved, SessionMove, PubKept, DeadWithSession, TypeOK, PubType
<1>6. CASE Goto(v, "wait") /\ UNCHANGED Kubelet /\ SessionsMoved(v)
  BY <1>1, <1>6, QuietGoto DEF Pcs, Unstaged
<1>. QED
  BY <1>2, <1>3, <1>4, <1>5, <1>6 DEF Login

LEMMA WaitQuiet ==
  ASSUME BaseInv, NEW v \in Volumes, waitForISCSIDevice(v) \/ waitForNVMeDevice(v)
  PROVE  Quiet(v)
<1>1. /\ TypeOK /\ UNCHANGED profile /\ UNCHANGED path /\ UNCHANGED <<session, pub>> /\ UNCHANGED Kubelet
      /\ rpc[v].op = "stage" /\ Block(v) /\ rpc[v].tries > 0 /\ rpc[v].tries \in Nat
      /\ rpc[v].tries <= MaxTries(v)
      /\ P(v).proto = "iscsi" => Unstaged(v)
      /\ Fault \/ Works
  BY DEF BaseInv, VolumeOK, StageOK, AtStage, waitForISCSIDevice, waitForNVMeDevice, At, Node, TypeOK, RpcType
<1>2. SessionsMoved(v) /\ PathMoved(v)
  BY <1>1, SessionsUnchanged, PathUnchanged
<1>3. ASSUME NEW w \in Volumes, NEW d, Found(v, w, d), UseDevice(v, d, rpc[v].tries) PROVE Quiet(v)
  BY <1>1, <1>3, QuietUseDevice
<1>4. CASE Goto(v, "logout")
  BY <1>1, <1>2, <1>4, QuietGoto DEF Pcs, Unstaged
<1>5. CASE waitForISCSIDevice(v)
  <2>1. ASSUME NEW d \in findISCSIDevice(v), UseDevice(v, d, rpc[v].tries) PROVE Quiet(v)
    BY <1>3, <1>5, <2>1, FoundISCSI DEF waitForISCSIDevice
  <2>. QED
    BY <1>4, <1>5, <2>1 DEF waitForISCSIDevice
<1>6. CASE waitForNVMeDevice(v)
  <2>1. Healthy(v) => Found(v, v, session[v].dev)
    BY DEF Healthy, Found
  <2>. QED
    BY <1>3, <1>4, <1>6, <2>1 DEF waitForNVMeDevice
<1>. QED
  BY <1>5, <1>6

LEMMA LogoutQuiet ==
  ASSUME BaseInv, NEW v \in Volumes, LogoutAndRetry(v)
  PROVE  Quiet(v)
<1>1. /\ TypeOK /\ UNCHANGED profile /\ UNCHANGED path
      /\ rpc[v].op = "stage" /\ rpc[v].at = "logout" /\ Block(v)
      /\ P(v).proto = "iscsi" => Unstaged(v)
      /\ Fault \/ Works
  BY DEF BaseInv, VolumeOK, StageOK, AtStage, LogoutAndRetry, At
<1>2. SessionsMoved(v)
  BY <1>1, SessionsUnchanged, SessionsDisconnect DEF LogoutAndRetry
<1>. QED
  BY <1>1, <1>2, QuietConnect DEF LogoutAndRetry

(* A body that waits for its device leaves the loop or goes on in it.      *)
LEMMA UnavailableQuiet ==
  ASSUME BaseInv, NEW v \in Volumes, Unavailable(v), UNCHANGED profile, Fault \/ Works,
         UNCHANGED <<session, pub>>, PathMoved(v), rpc[v].op = "stage", rpc[v].at = "device", Block(v),
         Unstaged(v) => path'[v].kind \in {"absent", "dir"}
  PROVE  Quiet(v)
<1>1. TypeOK /\ SessionsMoved(v) /\ rpc[v].tries \in Nat
  BY SessionsUnchanged DEF BaseInv, TypeOK, RpcType
<1>2. CASE rpc[v].tries > 0
  <2>1. P(v).proto = "iscsi" => path'[v].kind \in {"absent", "dir"}
    BY <1>2 DEF BaseInv, VolumeOK, StageOK, AtStage
  <2>. QED
    BY <1>1, <1>2, <2>1, QuietGoto DEF Unavailable, Pcs
<1>3. CASE ~(rpc[v].tries > 0)
  BY <1>1, <1>3, QuietEnd DEF Unavailable
<1>. QED
  BY <1>2, <1>3

LEMMA StageDeviceQuiet ==
  ASSUME BaseInv, NEW v \in Volumes, NEW proto \in {"iscsi", "nvmeof"}, StageDevice(v, proto)
  PROVE  Quiet(v)
<1>1. /\ TypeOK /\ UNCHANGED profile /\ UNCHANGED <<session, pub>> /\ SessionsMoved(v)
      /\ rpc[v].op = "stage" /\ rpc[v].at = "device" /\ Block(v) /\ VolumeOK(v)
  BY SessionsUnchanged DEF BaseInv, VolumeOK, StageOK, AtStage, StageDevice, At
<1>2. rpc[v].dev \in Devices
  BY <1>1 DEF VolumeOK, KindsOK, TypeOK, RpcType
<1>3. CASE /\ Works /\ Succeeds(v) /\ Exists(rpc[v].dev) /\ path[v].kind # "mount"
           /\ path' = [path EXCEPT ![v] = Path(StagedKind(v), rpc[v].dev)]
  <2>1. Path(StagedKind(v), rpc[v].dev) \in PathType
    BY <1>2, PathFacts DEF StagedKind
  <2>2. PathMoved(v) /\ path'[v].kind = StagedKind(v)
    BY <1>1, <1>3, <2>1, PathMoves DEF PathMoved, PathMove
  <2>. QED
    BY <1>1, <1>3, <2>2, QuietGoto DEF Succeeds, Pcs
<1>4. CASE Works /\ Succeeds(v) /\ UNCHANGED path /\ path[v].kind = "mount" /\ ~P(v).block
  BY <1>1, <1>4, PathUnchanged, QuietGoto DEF Succeeds, Pcs, StagedKind
<1>5. CASE (Fault \/ Works) /\ Fails(v) /\ UNCHANGED path
  BY <1>1, <1>5, PathUnchanged, QuietEnd
<1>6. CASE (Fault \/ Works) /\ Unavailable(v) /\ UNCHANGED path
  BY <1>1, <1>6, PathUnchanged, UnavailableQuiet DEF Unstaged
<1>7. CASE /\ Fault \/ Works
           /\ Fails(v) \/ Unavailable(v)
           /\ path' = [path EXCEPT ![v] = IF @.kind = "absent" THEN Path("dir", None) ELSE @]
  <2>1. PathMoved(v)
    BY <1>1, <1>7, PathLeavesDir
  <2>2. Unstaged(v) => path'[v].kind \in {"absent", "dir"}
    BY <1>1, <1>7 DEF Unstaged, TypeOK, Path
  <2>. QED
    BY <1>1, <1>7, <2>1, <2>2, QuietEnd, UnavailableQuiet
<1>8. CASE Exists(rpc[v].dev) /\ P(v).block /\ stageBlockDevice(v)
  <2>1. path[v].kind # "mount"
    BY <1>1, <1>8 DEF VolumeOK, KindsOK, Unstaged, StagedKind
  <2>. QED
    BY <1>3, <1>5, <1>8, <2>1 DEF stageBlockDevice, StagedKind
<1>9. CASE Exists(rpc[v].dev) /\ ~P(v).block /\ FormatAndMount(v)
  BY <1>3, <1>4, <1>7, <1>9 DEF FormatAndMount, StagedKind
<1>. QED
  BY <1>5, <1>6, <1>8, <1>9 DEF StageDevice

LEMMA StageStepQuiet ==
  ASSUME BaseInv, NEW v \in Volumes, StageStep(v)
  PROVE  Quiet(v)
  BY MountShareQuiet, StartQuiet, KillQuiet, AcquireQuiet, LoginQuiet, WaitQuiet, LogoutQuiet, StageDeviceQuiet
     DEF StageStep, stageNFSVolume, stageSMBVolume, loginISCSITarget, connectNVMeOFTarget,
         stageISCSIDevice, stageNVMeDevice

-----------------------------------------------------------------------------
(* The actions of an unstage.                                              *)

LEMMA DispatchQuiet ==
  ASSUME BaseInv, NEW v \in Volumes, Dispatch(v)
  PROVE  Quiet(v)
<1>1. /\ TypeOK /\ UNCHANGED profile /\ UNCHANGED path /\ UNCHANGED <<session, pub>> /\ UNCHANGED Kubelet
      /\ rpc[v].op = "unstage" /\ (Fault \/ Works)
  BY DEF BaseInv, Dispatch, At, Node
<1>2. SessionsMoved(v) /\ PathMoved(v)
  BY <1>1, SessionsUnchanged, PathUnchanged
<1>3. PICK pc \in {"nfs", "smb", "iscsi", "nvmeof"} : Goto(v, pc)
  BY <1>1 DEF Dispatch, detectProtocolFromStagingPath, TypeOK, Requests, Protocols, P
<1>. QED
  BY <1>1, <1>2, <1>3, QuietGoto DEF Pcs

LEMMA UnmountShareQuiet ==
  ASSUME BaseInv, NEW v \in Volumes, unstageNFSVolume(v) \/ unstageSMBVolume(v)
  PROVE  Quiet(v)
<1>1. TypeOK /\ UNCHANGED profile /\ UNCHANGED <<session, pub>> /\ rpc[v].op = "unstage" /\ UnmountAndRemove(v)
  BY DEF BaseInv, unstageNFSVolume, unstageSMBVolume, At, UnmountAndRemove
<1>2. SessionsMoved(v)
  BY <1>1, SessionsUnchanged
<1>3. CASE Works /\ path' = [path EXCEPT ![v] = Absent] /\ Succeeds(v)
  <2>1. PathMoved(v)
    BY <1>1, <1>3, PathFacts, PathMoves DEF Absent, PathMoved, PathMove
  <2>. QED
    BY <1>1, <1>2, <1>3, <2>1, QuietGoto DEF Succeeds, Pcs
<1>4. CASE Fault /\ Fails(v) /\ UNCHANGED path
  BY <1>1, <1>2, <1>4, PathUnchanged, QuietEnd
<1>5. CASE Fault /\ Fails(v) /\ path' = [path EXCEPT ![v] = Path("dir", None)]
  <2>1. PathMoved(v)
    BY <1>1, <1>5, PathFacts, PathMoves DEF PathMoved, PathMove
  <2>. QED
    BY <1>1, <1>2, <1>5, <2>1, QuietEnd
<1>. QED
  BY <1>1, <1>3, <1>4, <1>5 DEF UnmountAndRemove

LEMMA KnownMoves ==
  ASSUME TypeOK, NEW v \in Volumes, NEW w \in Volumes \union {None},
         rpc' = [rpc EXCEPT ![v].at = "disconnect", ![v].owner = w]
  PROVE  /\ RpcMoved(v) /\ rpc'[v].at = "disconnect" /\ rpc'[v].owner = w
         /\ rpc'[v].op = rpc[v].op /\ rpc'[v].target = rpc[v].target /\ rpc'[v].dev = rpc[v].dev
         /\ rpc'[v].tries = rpc[v].tries
<1> DEFINE r == [rpc[v] EXCEPT !.at = "disconnect", !.owner = w]
<1>1. rpc \in [Volumes -> RpcType] /\ rpc[v] \in RpcType
  BY DEF TypeOK
<1>2. /\ r \in RpcType /\ r.at = "disconnect" /\ r.owner = w
      /\ r.op = rpc[v].op /\ r.target = rpc[v].target /\ r.dev = rpc[v].dev /\ r.tries = rpc[v].tries
  BY <1>1 DEF RpcType
<1>3. rpc' = [rpc EXCEPT ![v] = r]
  BY <1>1 DEF RpcType
<1> HIDE DEF r
<1>. QED
  BY <1>1, <1>2, <1>3 DEF RpcMoved

LEMMA UnmountDeviceQuiet ==
  ASSUME BaseInv, NEW v \in Volumes, unstageISCSIVolume(v) \/ unstageNVMeOFVolume(v)
  PROVE  Quiet(v)
<1>1. /\ TypeOK /\ UNCHANGED profile /\ UNCHANGED <<session, pub>> /\ UNCHANGED Kubelet
      /\ rpc[v].op = "unstage" /\ UnmountDevice(v) /\ (Fault \/ Works)
      /\ rpc[v].tries <= MaxTries(v)
  BY DEF BaseInv, TypeOK, unstageISCSIVolume, unstageNVMeOFVolume, At, UnmountDevice
<1>2. SessionsMoved(v)
  BY <1>1, SessionsUnchanged
<1>3. CASE Fails(v) /\ UNCHANGED path
  BY <1>1, <1>2, <1>3, PathUnchanged, QuietEnd
<1>4. CASE /\ path' = path \/ path' = [path EXCEPT ![v] = Path("dir", None)]
           /\ \E w \in Owners(path[v].dev) \union {None} :
                 rpc' = [rpc EXCEPT ![v].at = "disconnect", ![v].owner = w]
  <2>1. PathMoved(v)
    BY <1>1, <1>4, PathUnchanged, PathFacts, PathMoves DEF PathMoved, PathMove
  <2>2. PICK w \in Owners(path[v].dev) \union {None} :
            rpc' = [rpc EXCEPT ![v].at = "disconnect", ![v].owner = w]
    BY <1>4
  <2>3. w \in Volumes \union {None}
    BY DEF Owners
  <2>4. /\ RpcMoved(v) /\ rpc'[v].at = "disconnect" /\ rpc'[v].owner = w
        /\ rpc'[v].op = rpc[v].op /\ rpc'[v].target = rpc[v].target /\ rpc'[v].dev = rpc[v].dev
        /\ rpc'[v].tries = rpc[v].tries
    BY <1>1, <2>2, <2>3, KnownMoves
  <2>5. RpcMove(v) /\ StageOK(v)'
    BY <2>2, <2>4 DEF RpcMove, StageOK, AtStage
  <2>6. rpc'[v].tries <= MaxTries(v) /\ rpc'[v].at # "bind" /\ rpc'[v].at # "reply"
    BY <1>1, <2>4
  <2>. QED
    BY <1>1, <1>2, <2>1, <2>4, <2>5, <2>6, QuietMove
<1>5. StagedSession(v) \subseteq Owners(path[v].dev)
  BY DEF StagedSession
<1>. QED
  BY <1>1, <1>3, <1>4, <1>5 DEF UnmountDevice

LEMMA DisconnectOwnerQuiet ==
  ASSUME BaseInv, NEW v \in Volumes, DisconnectOwner(v)
  PROVE  Quiet(v)
<1>1. /\ TypeOK /\ UNCHANGED profile /\ UNCHANGED path /\ UNCHANGED Kubelet /\ Goto(v, "reply")
      /\ rpc[v].op = "unstage" /\ rpc[v].owner \in Volumes \union {None} /\ (Fault \/ Works)
  BY DEF BaseInv, TypeOK, RpcType, DisconnectOwner, At, Succeeds
<1>2. SessionsMoved(v)
  BY <1>1, SessionsUnchanged, SessionsDisconnect DEF DisconnectOwner
<1>3. PathMoved(v)
  BY <1>1, PathUnchanged
<1>. QED
  BY <1>1, <1>2, <1>3, QuietGoto DEF Pcs

-----------------------------------------------------------------------------
(* The kernel's steps.                                                     *)
LEMMA KernelQuiet ==
  ASSUME BaseInv, NEW v \in Volumes, Kernel(v)
  PROVE  Quiet(v)
<1>1. /\ TypeOK /\ UNCHANGED profile /\ UNCHANGED path /\ UNCHANGED rpc /\ UNCHANGED Kubelet
      /\ Fault \/ Works
  BY DEF BaseInv, Kernel, TransportDown, TransportUp, TransportFailed, ControllerLost
<1>2. SessionsMoved(v)
  <2>1. ASSUME NEW s \in LinkStates, session[v] # None, session' = [session EXCEPT ![v].state = s], UNCHANGED pub
        PROVE  SessionsMoved(v)
    <3>1. /\ session' \in SessionsType /\ session'[v] = [session[v] EXCEPT !.state = s]
          /\ \A u \in Volumes \ {v} : session'[u] = session[u]
      BY <1>1, <2>1 DEF TypeOK, SessionsType, SessionType
    <3>2. session'[v].dev = session[v].dev /\ session'[v] \in SessionType
      <4>1. session[v] \in SessionType
        BY <1>1, <2>1 DEF TypeOK
      <4>2. s \in LinkStates
        OBVIOUS
      <4>3. [session[v] EXCEPT !.state = s].dev = session[v].dev
        BY <4>1 DEF SessionType
      <4>4. [session[v] EXCEPT !.state = s] \in SessionType
        BY <4>1, <4>2 DEF SessionType
      <4>. QED
        BY <3>1, <4>3, <4>4
    <3>3. session'[v] # None
      BY <3>2, NamesAssumption
    <3>. QED
      BY <1>1, <2>1, <3>1, <3>2, <3>3
         DEF SessionsMoved, SessionMove, PubKept, DeadWithSession, TypeOK, PubType
  <2>2. CASE ControllerLost(v)
    BY <1>1, <2>2, SessionsDisconnect DEF ControllerLost
  <2>. QED
    BY <2>1, <2>2 DEF Kernel, TransportDown, TransportUp, TransportFailed, LinkStates
<1>3. PathMoved(v) /\ RpcMoved(v) /\ RpcMove(v) /\ rpc'[v] = rpc[v] /\ rpc[v].tries <= MaxTries(v)
  BY <1>1, PathUnchanged DEF TypeOK, RpcMoved, RpcMove
<1>4. Frame(v)
  BY <1>1, <1>2, <1>3, FaultsCounted DEF Frame, SessionsMoved, PathMoved, TypeOK, Kubelet
<1>5. StageOK(v)' /\ KubeletOK(v)' /\ (KnownStaged(v)' => KnownStaged(v))
  <2>1. StageOK(v) /\ KubeletOK(v)
    BY DEF BaseInv, VolumeOK
  <2>. QED
    BY <1>1, <2>1 DEF StageOK, KubeletOK, KnownStaged, StagedKind, AtStage, Unstaged, Block, P, Kubelet
<1>. QED
  BY <1>1, <1>2, <1>3, <1>4, <1>5
     DEF Quiet, Effects, SessionsMoved, PathMoved, KnownMove, KubeletOK, Kubelet

-----------------------------------------------------------------------------
(* Publishing.  The other volumes see nothing of it.                       *)
LEMMA OthersPublish ==
  ASSUME PublishInv, NEW v \in Volumes, UNCHANGED <<profile, session>>,
         \A u \in Volumes \ {v} : /\ rpc'[u] = rpc[u] /\ path'[u] = path[u]
                                  /\ published'[u] = published[u] /\ pub'[u] = pub[u],
         PublishOK(v)'
  PROVE  PublishInv'
<1>1. ASSUME NEW u \in Volumes, u # v PROVE PublishOK(u)'
  <2>1. /\ PublishOK(u) /\ rpc'[u] = rpc[u] /\ path'[u] = path[u] /\ published'[u] = published[u]
        /\ pub'[u] = pub[u] /\ session'[u] = session[u] /\ P(u)' = P(u) /\ Alone(u)' = Alone(u)
    BY <1>1 DEF PublishInv, P, Alone
  <2>. QED
    BY <2>1 DEF PublishOK, ShownOK, Shown
<1>. QED
  BY <1>1 DEF PublishInv

LEMMA PublishEffects ==
  ASSUME BaseInv, NEW v \in Volumes, UNCHANGED <<profile, session>>, UNCHANGED path, UNCHANGED Kubelet,
         pub' \in PubType, Fault \/ Works, NEW pc \in {"bind", "reply"}, Goto(v, pc),
         rpc[v].op \in {"publish", "unpublish"}
  PROVE  /\ Effects(v) /\ RpcMoved(v)
         /\ rpc'[v].at = pc /\ rpc'[v].op = rpc[v].op /\ rpc'[v].target = rpc[v].target
<1>1. TypeOK /\ faults' \in 0..MaxFaults /\ rpc[v].tries <= MaxTries(v)
  BY FaultsCounted DEF BaseInv, TypeOK
<1>2. /\ RpcMoved(v) /\ rpc'[v].at = pc
      /\ rpc'[v].op = rpc[v].op /\ rpc'[v].target = rpc[v].target /\ rpc'[v].dev = rpc[v].dev
      /\ rpc'[v].owner = rpc[v].owner /\ rpc'[v].tries = rpc[v].tries
  BY <1>1, GotoMoves DEF Pcs
<1>3. PathMove(v) /\ RpcMove(v) /\ StageOK(v)' /\ \A u \in Volumes : SessionMove(v, u)
  BY <1>2 DEF PathMove, RpcMove, StageOK, AtStage, SessionMove
<1>4. Frame(v)
  BY <1>1, <1>2 DEF Frame, TypeOK, SessionsType, Kubelet
<1>. QED
  BY <1>2, <1>3, <1>4, NotKnown DEF Effects

(* What the staging path of a volume that is being published shows.        *)
LEMMA SourceShown ==
  ASSUME BaseInv, KnownInv, NEW v \in Volumes, rpc[v].op = "publish",
         P(v).block => Exists(path[v].dev)
  PROVE  /\ ~P(v).block => path[v] = Path("mount", Source(v))
         /\ P(v).block /\ Alone(v) => session[v] # None /\ session[v].dev = Source(v)
<1>1. path[v].kind = StagedKind(v) /\ path[v] \in PathType
  BY DEF BaseInv, VolumeOK, KubeletOK, KnownInv, KnownOK, KnownStaged, TypeOK
<1>2. Source(v) = path[v].dev
  BY <1>1 DEF Source, StagedKind
<1>3. ASSUME P(v).block, Alone(v) PROVE session[v] # None /\ session[v].dev = path[v].dev
  <2>1. PICK w \in Owners(path[v].dev) : TRUE
    BY <1>3 DEF Exists
  <2>2. w = v
    BY <1>1, <1>3, LinkedOwn DEF StagedKind
  <2>. QED
    BY <2>1, <2>2 DEF Owners
<1>. QED
  BY <1>1, <1>2, <1>3 DEF StagedKind, PathType, Path

(* A single writer that may be bound is bound nowhere else.                *)
LEMMA CheckSteps ==
  ASSUME BaseInv, KnownInv, PublishInv, NEW v \in Volumes, checkSingleWriterPublication(v)
  PROVE  Effects(v) /\ PublishInv'
<1>1. /\ TypeOK /\ UNCHANGED profile /\ UNCHANGED path /\ UNCHANGED <<session, pub>>
      /\ rpc[v].op = "publish" /\ (Fault \/ Works) /\ PublishOK(v)
  BY DEF BaseInv, PublishInv, checkSingleWriterPublication, At, Node
<1>2. SessionsMoved(v) /\ PathMoved(v)
  BY <1>1, SessionsUnchanged, PathUnchanged
<1>3. CASE Fails(v)
  BY <1>1, <1>2, <1>3, QuietEnd, QuietPublish DEF Quiet
<1>4. CASE /\ Goto(v, "bind") /\ UNCHANGED Kubelet
           /\ ~P(v).single \/ /\ path[v].kind = "link" => Exists(path[v].dev)
                              /\ GetBindMountRefs(v) \subseteq {<<v, rpc[v].target>>}
  <2>1. /\ Effects(v) /\ RpcMoved(v) /\ UNCHANGED published
        /\ rpc'[v].at = "bind" /\ rpc'[v].op = rpc[v].op /\ rpc'[v].target = rpc[v].target
    BY <1>1, <1>4, PublishEffects DEF TypeOK, PubType, Kubelet
  <2>2. ASSUME NEW t \in Targets, Shown(v, t), P(v).single, Alone(v) PROVE t = rpc[v].target
    <3>1. ShownOK(v, t)
      BY <1>1, <2>2 DEF PublishOK
    <3>2. P(v).block => path[v].kind = "link"
      BY <1>1 DEF BaseInv, VolumeOK, KubeletOK, KnownInv, KnownOK, KnownStaged, StagedKind
    <3>3. /\ ~P(v).block => path[v] = Path("mount", Source(v))
          /\ P(v).block => session[v] # None /\ session[v].dev = Source(v)
      BY <1>1, <1>4, <2>2, <3>2, SourceShown
    <3>4. pub[v][t] = Source(v)
      BY <2>2, <3>1, <3>3 DEF ShownOK, Path
    <3>5. <<v, t>> \in GetBindMountRefs(v)
      BY <3>4 DEF GetBindMountRefs
    <3>. QED
      BY <1>4, <2>2, <3>5
  <2>3. P(v)' = P(v) /\ Alone(v)' = Alone(v)
    BY <1>1 DEF P, Alone
  <2>4. PublishOK(v)'
    BY <1>1, <2>1, <2>2, <2>3 DEF PublishOK, ShownOK, Shown
  <2>5. \A u \in Volumes \ {v} : /\ rpc'[u] = rpc[u] /\ path'[u] = path[u]
                                 /\ published'[u] = published[u] /\ pub'[u] = pub[u]
    BY <1>1, <2>1 DEF RpcMoved
  <2>. QED
    BY <1>1, <2>1, <2>4, <2>5, OthersPublish
<1>. QED
  BY <1>3, <1>4 DEF checkSingleWriterPublication

LEMMA BindSteps ==
  ASSUME BaseInv, KnownInv, PublishInv, NEW v \in Volumes, NEW usable \in BOOLEAN, BindMount(v, usable),
         usable => (P(v).block => Exists(path[v].dev))
  PROVE  Effects(v) /\ PublishInv'
<1>1. /\ TypeOK /\ UNCHANGED profile /\ UNCHANGED path /\ UNCHANGED session
      /\ rpc[v].op = "publish" /\ rpc[v].at = "bind" /\ (Fault \/ Works) /\ PublishOK(v)
  BY DEF BaseInv, PublishInv, BindMount, At
<1> DEFINE t == rpc[v].target
<1>2. t \in Targets /\ t \in published[v]
  BY <1>1 DEF PublishOK, TypeOK
<1>3. CASE Fails(v) /\ UNCHANGED pub
  BY <1>1, <1>3, SessionsUnchanged, PathUnchanged, QuietEnd, QuietPublish DEF Quiet
<1>4. CASE usable /\ Goto(v, "reply") /\ UNCHANGED Kubelet /\ UNCHANGED pub
  <2>1. SessionsMoved(v) /\ PathMoved(v)
    BY <1>1, <1>4, SessionsUnchanged, PathUnchanged
  <2>. QED
    BY <1>1, <1>4, <2>1, QuietGoto, QuietPublish DEF Quiet, Pcs
<1>5. CASE usable /\ Goto(v, "reply") /\ UNCHANGED Kubelet /\ pub' = [pub EXCEPT ![v][t] = Source(v)]
  <2>1. Source(v) \in Devices \union {None, "share", "bare", "dead"}
    BY <1>1 DEF Source, TypeOK, PathType
  <2>2. /\ pub' \in PubType /\ pub'[v][t] = Source(v)
        /\ \A s \in Targets \ {t} : pub'[v][s] = pub[v][s]
        /\ \A u \in Volumes \ {v} : pub'[u] = pub[u]
    BY <1>1, <1>2, <1>5, <2>1 DEF TypeOK, PubType
  <2>3. /\ Effects(v) /\ RpcMoved(v) /\ UNCHANGED published
        /\ rpc'[v].at = "reply" /\ rpc'[v].op = rpc[v].op /\ rpc'[v].target = rpc[v].target
    BY <1>1, <1>5, <2>2, PublishEffects DEF Kubelet
  <2>4. P(v)' = P(v) /\ Alone(v)' = Alone(v)
    BY <1>1 DEF P, Alone
  <2>5. ShownOK(v, t)'
    BY <1>1, <1>2, <1>5, <2>2, <2>3, <2>4, SourceShown DEF ShownOK
  <2>6. ASSUME NEW s \in Targets, s # t, Shown(v, s)' PROVE Shown(v, s) /\ ShownOK(v, s)'
    BY <1>1, <2>2, <2>3, <2>4, <2>6 DEF Shown, ShownOK, PublishOK
  <2>7. PublishOK(v)'
    BY <1>1, <2>3, <2>4, <2>5, <2>6 DEF PublishOK
  <2>8. \A u \in Volumes \ {v} : /\ rpc'[u] = rpc[u] /\ path'[u] = path[u]
                                 /\ published'[u] = published[u] /\ pub'[u] = pub[u]
    BY <1>1, <2>2, <2>3 DEF RpcMoved
  <2>. QED
    BY <1>1, <2>3, <2>7, <2>8, OthersPublish
<1>. QED
  BY <1>3, <1>4, <1>5 DEF BindMount, Succeeds

LEMMA UnmountTargetSteps ==
  ASSUME BaseInv, PublishInv, NEW v \in Volumes, UnmountTarget(v)
  PROVE  Effects(v) /\ PublishInv'
<1>1. /\ TypeOK /\ UNCHANGED profile /\ UNCHANGED path /\ UNCHANGED session
      /\ rpc[v].op = "unpublish" /\ (Fault \/ Works) /\ PublishOK(v)
  BY DEF BaseInv, PublishInv, UnmountTarget, At
<1> DEFINE t == rpc[v].target
<1>2. CASE Fails(v) /\ UNCHANGED pub
  BY <1>1, <1>2, SessionsUnchanged, PathUnchanged, QuietEnd, QuietPublish DEF Quiet
<1>3. CASE Goto(v, "reply") /\ UNCHANGED Kubelet /\ pub' = [pub EXCEPT ![v][t] = None]
  <2>1. /\ pub' \in PubType
        /\ \A s \in Targets : pub'[v][s] = IF s = t THEN None ELSE pub[v][s]
        /\ \A u \in Volumes \ {v} : pub'[u] = pub[u]
    BY <1>1, <1>3 DEF TypeOK, PubType
  <2>2. /\ Effects(v) /\ RpcMoved(v) /\ UNCHANGED published
        /\ rpc'[v].at = "reply" /\ rpc'[v].op = rpc[v].op /\ rpc'[v].target = rpc[v].target
    BY <1>1, <1>3, <2>1, PublishEffects DEF Kubelet
  <2>3. P(v)' = P(v) /\ Alone(v)' = Alone(v)
    BY <1>1 DEF P, Alone
  <2>4. ASSUME NEW s \in Targets, Shown(v, s)' PROVE s # t /\ Shown(v, s) /\ ShownOK(v, s)'
    BY <1>1, <2>1, <2>2, <2>3, <2>4 DEF Shown, ShownOK, PublishOK
  <2>5. PublishOK(v)'
    BY <1>1, <2>2, <2>3, <2>4 DEF PublishOK
  <2>6. \A u \in Volumes \ {v} : /\ rpc'[u] = rpc[u] /\ path'[u] = path[u]
                                 /\ published'[u] = published[u] /\ pub'[u] = pub[u]
    BY <1>1, <2>1, <2>2 DEF RpcMoved
  <2>. QED
    BY <1>1, <2>2, <2>5, <2>6, OthersPublish
<1>. QED
  BY <1>2, <1>3 DEF UnmountTarget, Succeeds

-----------------------------------------------------------------------------
(* The kubelet calls and is answered.                                      *)

(* The kubelet's own step: nothing on the node changes but the path that   *)
(* it removes after an unstage.                                            *)
LEMMA KubeletEffects ==
  ASSUME BaseInv, NEW v \in Volumes, UNCHANGED <<profile, session, pub>>, PathMoved(v), RpcMoved(v),
         rpc'[v].at = "start", rpc'[v].dev = None, rpc'[v].owner = None, rpc'[v].tries = 0,
         NEW g \in {"no", "yes", "maybe"}, staged' = [staged EXCEPT ![v] = g],
         NEW q \in SUBSET Targets, published' = [published EXCEPT ![v] = q],
         faults' \in 0..MaxFaults,
         g = "yes" => rpc'[v].op \notin {"stage", "unstage"} /\ KnownStaged(v) /\ path'[v] = path[v],
         rpc'[v].op = "publish" => g = "yes"
  PROVE  Effects(v) /\ published'[v] = q
<1>1. TypeOK /\ staged'[v] = g /\ published'[v] = q
  BY DEF BaseInv, TypeOK
<1>2. Frame(v)
  BY <1>1 DEF Frame, TypeOK, SessionsType, PubType, PathMoved, MaxTries
<1>3. KnownMove(v) /\ RpcMove(v) /\ StageOK(v)' /\ \A u \in Volumes : SessionMove(v, u)
  BY <1>1 DEF KnownMove, KnownStaged, RpcMove, StageOK, AtStage, SessionMove
<1>. QED
  BY <1>1, <1>2, <1>3 DEF Effects, PathMoved

LEMMA CallSteps ==
  ASSUME BaseInv, NEW v \in Volumes,
         \/ NodeStageVolume(v) \/ NodeUnstageVolume(v)
         \/ \E t \in Targets : NodePublishVolume(v, t) \/ NodeUnpublishVolume(v, t)
  PROVE  Effects(v) /\ UNCHANGED pub /\ rpc'[v].at = "start" /\ (PublishInv => PublishInv')
<1>1. PICK t \in Targets \union {None}, op \in {"stage", "unstage", "publish", "unpublish"} :
         /\ Call(v, op, t)
         /\ \/ op = "stage" /\ NodeStageVolume(v)
            \/ op = "unstage" /\ NodeUnstageVolume(v)
            \/ op = "publish" /\ t \in Targets /\ NodePublishVolume(v, t)
            \/ op = "unpublish" /\ NodeUnpublishVolume(v, t)
  BY DEF NodeStageVolume, NodeUnstageVolume, NodePublishVolume, NodeUnpublishVolume
<1>2. /\ TypeOK /\ UNCHANGED <<profile, session, pub>> /\ UNCHANGED path /\ UNCHANGED faults
      /\ PathMoved(v)
  BY <1>1, PathUnchanged DEF BaseInv, Call, Node
<1>3. /\ RpcMoved(v) /\ rpc'[v].at = "start" /\ rpc'[v].tries = 0 /\ rpc'[v].dev = None
      /\ rpc'[v].op = op /\ rpc'[v].target = t /\ rpc'[v].owner = None
  BY <1>1, <1>2, CallMoves
<1>4. PICK g \in {"no", "yes", "maybe"}, q \in SUBSET Targets :
         /\ staged' = [staged EXCEPT ![v] = g] /\ published' = [published EXCEPT ![v] = q]
         /\ g = IF op \in {"stage", "unstage"} THEN "maybe" ELSE staged[v]
         /\ q = IF op = "publish" THEN published[v] \union {t} ELSE published[v]
         /\ op = "publish" => staged[v] = "yes"
         /\ op = "unstage" => published[v] = {}
  <2>1. staged \in [Volumes -> {"no", "yes", "maybe"}] /\ published \in [Volumes -> SUBSET Targets]
    BY <1>2 DEF TypeOK
  <2>2. staged = [staged EXCEPT ![v] = staged[v]] /\ published = [published EXCEPT ![v] = published[v]]
    BY <2>1
  <2>3. CASE op = "publish"
    <3>1. published[v] \union {t} \in SUBSET Targets /\ staged[v] \in {"no", "yes", "maybe"}
      BY <1>1, <2>1, <2>3
    <3>2. staged' = [staged EXCEPT ![v] = staged[v]] /\ published' = [published EXCEPT ![v] = published[v] \union {t}]
      BY <1>1, <2>2, <2>3 DEF NodePublishVolume
    <3>. QED
      BY <1>1, <2>3, <3>1, <3>2 DEF NodePublishVolume
  <2>4. CASE op \in {"stage", "unstage"}
    BY <1>1, <2>1, <2>2, <2>4 DEF NodeStageVolume, NodeUnstageVolume
  <2>5. CASE op = "unpublish"
    BY <1>1, <2>1, <2>2, <2>5 DEF NodeUnpublishVolume, Kubelet
  <2>. QED
    BY <2>3, <2>4, <2>5
<1>5. Effects(v) /\ published'[v] = q
  <2>1. g = "yes" => rpc'[v].op \notin {"stage", "unstage"} /\ KnownStaged(v) /\ path'[v] = path[v]
    BY <1>2, <1>3, <1>4 DEF KnownStaged
  <2>2. faults' \in 0..MaxFaults /\ (rpc'[v].op = "publish" => g = "yes")
    BY <1>2, <1>3, <1>4 DEF TypeOK
  <2>3. /\ staged' = [staged EXCEPT ![v] = g] /\ published' = [published EXCEPT ![v] = q]
        /\ g \in {"no", "yes", "maybe"} /\ q \in SUBSET Targets
    BY <1>4
  <2>4. UNCHANGED <<profile, session, pub>> /\ PathMoved(v)
    BY <1>2
  <2>. QED
    BY <1>3, <2>1, <2>2, <2>3, <2>4, KubeletEffects
<1>6. P(v)' = P(v) /\ Alone(v)' = Alone(v)
  BY <1>2 DEF P, Alone
<1>7. ASSUME PublishOK(v), NEW s \in Targets, Shown(v, s)' PROVE Shown(v, s) /\ ShownOK(v, s)'
  BY <1>1, <1>2, <1>3, <1>4, <1>5, <1>6, <1>7 DEF Shown, ShownOK, PublishOK
<1>8. PublishOK(v) => PublishOK(v)'
  BY <1>2, <1>3, <1>4, <1>5, <1>6, <1>7 DEF PublishOK
<1>9. \A u \in Volumes \ {v} : /\ rpc'[u] = rpc[u] /\ path'[u] = path[u]
                               /\ published'[u] = published[u] /\ pub'[u] = pub[u]
  BY <1>2, <1>3, <1>5 DEF RpcMoved, Effects, Frame
<1>10. PublishInv => PublishInv'
  BY <1>2, <1>5, <1>8, <1>9, OthersPublish DEF PublishInv
<1>. QED
  BY <1>2, <1>3, <1>5, <1>10

LEMMA ReplySteps ==
  ASSUME BaseInv, NEW v \in Volumes, Reply(v)
  PROVE  Effects(v) /\ UNCHANGED pub /\ rpc'[v].at = "start" /\ (PublishInv => PublishInv')
<1>1. /\ TypeOK /\ UNCHANGED <<profile, session, pub>> /\ (Fault \/ Works) /\ faults' \in 0..MaxFaults
      /\ rpc[v].op # "none" /\ rpc[v].at = "reply"
      /\ RpcMoved(v) /\ rpc'[v] = Idle
  BY EndMoves, FaultsCounted DEF BaseInv, Reply
<1>2. /\ rpc'[v].at = "start" /\ rpc'[v].tries = 0 /\ rpc'[v].dev = None
      /\ rpc'[v].op = "none" /\ rpc'[v].target = None /\ rpc'[v].owner = None
  BY <1>1 DEF Idle
<1> SUFFICES Effects(v) /\ (PublishInv => PublishInv')
  BY <1>1, <1>2
<1>3. CASE UNCHANGED <<Kubelet, path>>
  <2>1. SessionsMoved(v) /\ PathMoved(v) /\ Fails(v)
    BY <1>1, <1>3, SessionsUnchanged, PathUnchanged DEF Fails, Reply
  <2>. QED
    BY <1>1, <2>1, QuietEnd, QuietPublish DEF Quiet
<1>4. ASSUME NEW g \in {"no", "yes", "maybe"}, staged' = [staged EXCEPT ![v] = g],
             NEW q \in SUBSET Targets, published' = [published EXCEPT ![v] = q],
             PathMoved(v), g = "yes" => KnownStaged(v) /\ path'[v] = path[v],
             path'[v] = path[v] \/ rpc[v].op = "unstage",
             q = published[v] \/ (rpc[v].op = "unpublish" /\ q = published[v] \ {rpc[v].target})
      PROVE  Effects(v) /\ (PublishInv => PublishInv')
  <2>1. Effects(v) /\ published'[v] = q
    BY <1>1, <1>2, <1>4, KubeletEffects
  <2>2. P(v)' = P(v) /\ Alone(v)' = Alone(v)
    BY <1>1 DEF P, Alone
  <2>3. ASSUME PublishOK(v), NEW s \in Targets, Shown(v, s)' PROVE Shown(v, s) /\ ShownOK(v, s)'
    BY <1>1, <1>2, <1>4, <2>1, <2>2, <2>3 DEF Shown, ShownOK, PublishOK
  <2>4. PublishOK(v) => PublishOK(v)'
    BY <1>1, <1>2, <2>2, <2>3 DEF PublishOK
  <2>5. \A u \in Volumes \ {v} : /\ rpc'[u] = rpc[u] /\ path'[u] = path[u]
                                 /\ published'[u] = published[u] /\ pub'[u] = pub[u]
    BY <1>1, <2>1 DEF RpcMoved, Effects, Frame
  <2>. QED
    BY <1>1, <2>1, <2>4, <2>5, OthersPublish DEF PublishInv
<1>5. staged \in [Volumes -> {"no", "yes", "maybe"}] /\ published \in [Volumes -> SUBSET Targets]
  BY <1>1 DEF TypeOK
<1>6. staged = [staged EXCEPT ![v] = staged[v]] /\ published = [published EXCEPT ![v] = published[v]]
  BY <1>5
<1>7. CASE rpc[v].op = "stage" /\ staged' = [staged EXCEPT ![v] = "yes"] /\ UNCHANGED <<published, path>>
  BY <1>1, <1>4, <1>5, <1>6, <1>7, PathUnchanged DEF KnownStaged
<1>8. CASE /\ rpc[v].op = "unpublish" /\ published' = [published EXCEPT ![v] = @ \ {rpc[v].target}]
           /\ UNCHANGED <<staged, path>>
  <2>1. published[v] \ {rpc[v].target} \in SUBSET Targets /\ staged[v] \in {"no", "yes", "maybe"}
    BY <1>5
  <2>2. published' = [published EXCEPT ![v] = published[v] \ {rpc[v].target}]
    BY <1>8
  <2>. QED
    BY <1>1, <1>4, <1>6, <1>8, <2>1, <2>2, PathUnchanged DEF KnownStaged
<1>9. CASE /\ rpc[v].op = "unstage" /\ staged' = [staged EXCEPT ![v] = "no"]
           /\ path' = [path EXCEPT ![v] = Absent] /\ UNCHANGED published
  <2>1. PathMoved(v)
    BY <1>1, <1>9, PathFacts, PathMoves DEF Absent, PathMoved, PathMove
  <2>. QED
    BY <1>4, <1>5, <1>6, <1>9, <2>1
<1>. QED
  BY <1>1, <1>3, <1>7, <1>8, <1>9 DEF Reply

-----------------------------------------------------------------------------
(* Every step, and a crash.                                                *)

LEMMA VolumeSteps ==
  ASSUME BaseInv, KnownInv, PublishInv, NEW v \in Volumes, Rpc(v) \/ Kernel(v)
  PROVE  Effects(v) /\ PublishInv'
<1>1. CASE Quiet(v)
  BY <1>1, QuietPublish DEF Quiet
<1>2. CASE StageStep(v)
  BY <1>1, <1>2, StageStepQuiet
<1>3. CASE Kernel(v)
  BY <1>1, <1>3, KernelQuiet
<1>4. CASE OtherStep(v)
  <2>1. CASE publishNFSVolume(v) \/ publishSMBVolume(v)
    <3>1. ~P(v).block
      BY <2>1 DEF publishNFSVolume, publishSMBVolume, PublishShare, BaseInv, TypeOK, Requests, P
    <3>. QED
      BY <2>1, <3>1, BindSteps DEF publishNFSVolume, publishSMBVolume, PublishShare
  <2>2. CASE publishFilesystemVolume(v) \/ publishBlockVolume(v)
    <3>1. PICK usable \in BOOLEAN : BindMount(v, usable) /\ (usable /\ P(v).block => Exists(path[v].dev))
      <4>1. CASE publishFilesystemVolume(v)
        <5>1. (path[v].kind \in {"dir", "mount"}) \in BOOLEAN /\ ~P(v).block
          BY <4>1 DEF publishFilesystemVolume
        <5>. QED
          BY <4>1, <5>1, Zenon DEF publishFilesystemVolume
      <4>2. CASE publishBlockVolume(v)
        <5>1. (path[v].kind = "link" /\ Exists(path[v].dev)) \in BOOLEAN
          OBVIOUS
        <5>. QED
          BY <4>2, <5>1, Zenon DEF publishBlockVolume
      <4>. QED
        BY <2>2, <4>1, <4>2
    <3>. QED
      BY <3>1, BindSteps
  <2>. QED
    BY <1>1, <1>4, <2>1, <2>2, DispatchQuiet, UnmountShareQuiet, UnmountDeviceQuiet, DisconnectOwnerQuiet,
       CheckSteps, UnmountTargetSteps, ReplySteps DEF OtherStep
<1>. QED
  BY <1>2, <1>3, <1>4, CallSteps DEF Rpc

(* The driver dies, in whatever it was doing.                              *)
Dies == Fault /\ rpc' = [v \in Volumes |-> Idle] /\ UNCHANGED <<profile, Node, Kubelet>>

LEMMA DeathKeeps ==
  ASSUME BaseInv, Dies
  PROVE  /\ BaseInv' /\ (KnownInv => KnownInv') /\ (PublishInv => PublishInv') /\ (OwnInv => OwnInv')
         /\ (ApartInv => ApartInv')
<1>1. TypeOK /\ UNCHANGED profile /\ UNCHANGED Node /\ UNCHANGED Kubelet /\ faults' \in 0..MaxFaults
  BY FaultsCounted DEF BaseInv, Dies
<1>2. \A v \in Volumes :
         /\ rpc'[v] = Idle /\ P(v)' = P(v) /\ Alone(v)' = Alone(v)
         /\ session'[v] = session[v] /\ path'[v] = path[v] /\ pub'[v] = pub[v]
         /\ staged'[v] = staged[v] /\ published'[v] = published[v]
  BY <1>1 DEF Dies, Node, Kubelet, P, Alone
<1>3. /\ Idle.op = "none" /\ Idle.at = "start" /\ Idle.dev = None /\ Idle.owner = None /\ Idle.tries = 0
  BY DEF Idle
<1>4. TypeOK'
  <2>1. rpc' \in [Volumes -> RpcType] /\ \A v \in Volumes : rpc'[v].tries <= MaxTries(v)'
    BY <1>2, <1>3, IdleType DEF Dies, MaxTries
  <2>. QED
    BY <1>1, <2>1 DEF TypeOK, Node, Kubelet
<1>5. ASSUME NEW v \in Volumes PROVE VolumeOK(v)'
  BY <1>2, <1>3 DEF BaseInv, VolumeOK, KindsOK, StageOK, KubeletOK, KnownStaged, AtStage, Unstaged,
                    StagedKind, DevicesOf, Block
<1>6. ASSUME PublishInv, NEW v \in Volumes PROVE PublishOK(v)'
  BY <1>2, <1>3, <1>6 DEF PublishInv, PublishOK, ShownOK, Shown
<1>7. ASSUME OwnInv, NEW v \in Volumes PROVE OwnOK(v)'
  BY <1>2, <1>3, <1>7 DEF OwnInv, OwnOK, KnownStaged
<1>8. ASSUME KnownInv, NEW v \in Volumes PROVE KnownOK(v)'
  BY <1>2, <1>3, <1>8 DEF KnownInv, KnownOK, KnownStaged, StagedKind
<1>9. ApartInv => ApartInv'
  BY <1>2, <1>3 DEF ApartInv, Apart
<1>. QED
  BY <1>1, <1>4, <1>5, <1>6, <1>7, <1>8, <1>9 DEF BaseInv, PublishInv, OwnInv, KnownInv

LEMMA InitInv == Init => BaseInv /\ KnownInv /\ PublishInv /\ OwnInv
<1> SUFFICES ASSUME Init PROVE BaseInv /\ KnownInv /\ PublishInv /\ OwnInv
  OBVIOUS
<1>1. /\ Idle.op = "none" /\ Idle.at = "start" /\ Idle.dev = None /\ Idle.owner = None /\ Idle.tries = 0
      /\ Absent.kind = "absent" /\ Absent.dev = None /\ Absent \in PathType
  BY PathFacts DEF Idle, Absent, Path
<1>2. TypeOK
  BY <1>1, IdleType, WorldsAssumption, BoundsAssumption DEF Init, TypeOK, MaxTries
<1>3. ASSUME NEW v \in Volumes PROVE VolumeOK(v) /\ KnownOK(v) /\ PublishOK(v) /\ OwnOK(v)
  BY <1>1 DEF Init, VolumeOK, KnownOK, KindsOK, StageOK, KubeletOK, KnownStaged, AtStage, Unstaged,
              PublishOK, Shown, OwnOK
<1>4. ASSUME NEW u \in Volumes, NEW v \in Volumes PROVE Apart(u, v)
  BY DEF Init, Apart
<1>. QED
  BY <1>2, <1>3, <1>4 DEF Init, BaseInv, KnownInv, PublishInv, OwnInv, ApartInv

LEMMA StepInv ==
  BaseInv /\ KnownInv /\ PublishInv /\ [Next]_vars => BaseInv' /\ KnownInv' /\ PublishInv'
<1> SUFFICES ASSUME BaseInv, KnownInv, PublishInv, [Next]_vars PROVE BaseInv' /\ KnownInv' /\ PublishInv'
  OBVIOUS
<1>1. ASSUME NEW v \in Volumes, Rpc(v) \/ Kernel(v) PROVE BaseInv' /\ KnownInv' /\ PublishInv'
  BY <1>1, VolumeSteps, EffectsBase, EffectsKnown
<1>2. CASE UNCHANGED vars
  BY <1>2 DEF vars, KnownInv, KnownOK, BaseInv, TypeOK, VolumeOK, KindsOK, StageOK, KubeletOK, KnownStaged, AtStage, Unstaged,
              StagedKind, DevicesOf, Block, P, MaxTries, PublishInv, PublishOK, ShownOK, Shown, Alone
<1>. QED
  BY <1>1, <1>2, DeathKeeps DEF Next, Crash, Dies

(* Under RawAlone every volume of the chosen world is alone.               *)
LEMMA AllAlone ==
  ASSUME RawAlone, BaseInv
  PROVE  \A v \in Volumes : Alone(v)
  BY DEF RawAlone, BaseInv, Alone, P

LEMMA OwnStepInv ==
  ASSUME RawAlone, NoPrefixes
  PROVE  BaseInv /\ KnownInv /\ PublishInv /\ OwnInv /\ [Next]_vars => OwnInv'
<1> SUFFICES ASSUME BaseInv, KnownInv, PublishInv, OwnInv, [Next]_vars PROVE OwnInv'
  OBVIOUS
<1>1. ASSUME NEW v \in Volumes, Rpc(v) \/ Kernel(v) PROVE OwnInv'
  BY <1>1, VolumeSteps, EffectsOwn, AllAlone
<1>2. CASE UNCHANGED vars
  BY <1>2 DEF vars, OwnInv, ApartInv, OwnOK, Apart, KnownStaged, P
<1>. QED
  BY <1>1, <1>2, DeathKeeps DEF Next, Crash, Dies

-----------------------------------------------------------------------------
(* The theorems.                                                           *)

(* Types: in particular the retry loops of loginISCSITarget and            *)
(* connectNVMeOFTarget stay within maxRetries and maxConnectRetries.       *)
THEOREM StagingTypeCorrect == Spec => []TypeOK
<1>1. BaseInv => TypeOK
  BY DEF BaseInv
<1>. QED
  BY <1>1, InitInv, StepInv, PTL DEF Spec

(* refuseTeardownWhileStaged does what its comment says, whatever shares   *)
(* the node: no step of a stage takes the session away from under the      *)
(* device on the volume's staging path.                                    *)
THEOREM StagingKeepsSession == Spec => StageKeepsSession
<1> DEFINE A == \A v \in Volumes :
                  /\ rpc[v].op = "stage" /\ rpc'[v] # rpc[v]
                  /\ P(v).proto = "iscsi" \/ rpc[v].tries = 0
                  /\ session[v] # None /\ session[v].dev # None
                  /\ path[v].dev = session[v].dev
                  => session'[v] # None
<1>1. BaseInv /\ KnownInv /\ PublishInv /\ [Next]_vars => [A]_vars
  <2> SUFFICES ASSUME BaseInv, KnownInv, PublishInv, Next, NEW w \in Volumes,
                      rpc[w].op = "stage", rpc'[w] # rpc[w], P(w).proto = "iscsi" \/ rpc[w].tries = 0,
                      session[w] # None, session[w].dev # None, path[w].dev = session[w].dev
               PROVE  session'[w] # None
    BY DEF vars
  <2>1. VolumeOK(w) /\ path[w] \in PathType /\ path[w].dev # None /\ rpc[w] \in RpcType
    BY DEF BaseInv, TypeOK
  <2>2. ~Unstaged(w)
    BY <2>1 DEF PathType, Unstaged
  <2>3. CASE Crash
    BY <2>3 DEF Crash, Node
  <2>4. ASSUME NEW v \in Volumes, Kernel(v) PROVE FALSE
    BY <2>4 DEF Kernel, TransportDown, TransportUp, TransportFailed, ControllerLost
  <2>5. ASSUME NEW v \in Volumes, Rpc(v) PROVE session'[w] # None
    <3>1. Effects(v)
      BY <2>5, VolumeSteps
    <3>2. w = v
      BY <3>1 DEF Effects, Frame, RpcMoved
    <3>3. rpc[w].at \notin {"kill", "logout"}
      BY <2>1, <2>2 DEF VolumeOK, StageOK, AtStage, RpcType
    <3>. QED
      BY <3>1, <3>2, <3>3 DEF Effects, SessionMove
  <2>. QED
    BY <2>3, <2>4, <2>5 DEF Next
<1>. QED
  BY <1>1, InitInv, StepInv, PTL DEF Spec, StageKeepsSession

(* A SINGLE_NODE_SINGLE_WRITER volume that is a filesystem, or that is raw *)
(* and alone with its protocol, is never usable at two targets.            *)
OneWriter ==
    \A v \in Volumes : P(v).single /\ Alone(v) =>
        Cardinality({t \in Targets : pub[v][t] \notin {None, "dead"}}) <= 1

(* checkSingleWriterPublication, which looks before it binds, cannot be    *)
(* overtaken: the RPC body holds the volume, and what it saw of the        *)
(* targets can only become less until it binds.                            *)
THEOREM StagingOneWriter == Spec => []OneWriter
<1>1. PublishInv => OneWriter
  <2> SUFFICES ASSUME PublishInv, NEW v \in Volumes, P(v).single, Alone(v)
               PROVE  Cardinality({t \in Targets : pub[v][t] \notin {None, "dead"}}) <= 1
    BY DEF OneWriter
  <2> DEFINE S == {t \in Targets : pub[v][t] \notin {None, "dead"}}
  <2>1. CASE S = {}
    BY <2>1, FS_EmptySet
  <2>2. CASE S # {}
    <3>1. PICK t \in S : TRUE
      BY <2>2
    <3>2. S = {t}
      BY <3>1 DEF PublishInv, PublishOK, Shown
    <3>3. Cardinality(S) = 1
      BY <3>2, FS_Singleton
    <3>. QED
      BY <3>3
  <2>. QED
    BY <2>1, <2>2
<1>. QED
  BY <1>1, InitInv, StepInv, PTL DEF Spec

(* Where raw volumes are alone with their protocol, no single-writer       *)
(* volume is usable at two targets: checkSingleWriterPublication reads     *)
(* the mount table, which survives what the driver and the kubelet forget. *)
THEOREM StagingSingleWriter == RawAlone => (Spec => []SingleWriterExclusive)
<1> SUFFICES ASSUME RawAlone PROVE Spec => []SingleWriterExclusive
  OBVIOUS
<1>1. BaseInv /\ OneWriter => SingleWriterExclusive
  BY AllAlone DEF OneWriter, SingleWriterExclusive
<1>. QED
  BY <1>1, InitInv, StepInv, StagingOneWriter, PTL DEF Spec

(* Where raw volumes are alone with their protocol and no IQN is the       *)
(* beginning of another's, what the kubelet knows to be staged is on the   *)
(* staging path, and for iSCSI it is the disk of the volume's own session. *)
(* The second hypothesis is what parseISCSISessionDevice, which compares   *)
(* the beginning of a name, needs of the names.                            *)
THEOREM StagingOnOwnSession == RawAlone /\ NoPrefixes => (Spec => []StagedOnOwnSession)
<1> SUFFICES ASSUME RawAlone, NoPrefixes PROVE Spec => []StagedOnOwnSession
  OBVIOUS
<1>1. KnownInv /\ OwnInv => StagedOnOwnSession
  BY DEF KnownInv, KnownOK, KnownStaged, StagedKind, OwnInv, OwnOK, StagedOnOwnSession
<1>. QED
  BY <1>1, InitInv, StepInv, OwnStepInv, PTL DEF Spec

(* Where raw volumes are alone with their protocol and no IQN is the       *)
(* beginning of another's, an unstage ends no session but its own          *)
(* volume's: the IQN or NQN that it reads from the staged device is the    *)
(* volume's own.                                                           *)
THEOREM StagingOwnSessionOnly == RawAlone /\ NoPrefixes => (Spec => OwnSessionOnly)
<1> SUFFICES ASSUME RawAlone, NoPrefixes PROVE Spec => OwnSessionOnly
  OBVIOUS
<1> DEFINE A == \A v, w \in Volumes :
                  v # w /\ session[w] # None /\ session'[w] = None => rpc[v].owner # w
<1>1. OwnInv /\ [Next]_vars => [A]_vars
  BY NamesAssumption DEF OwnInv, OwnOK
<1>. QED
  BY <1>1, InitInv, StepInv, OwnStepInv, PTL DEF Spec, OwnSessionOnly

-----------------------------------------------------------------------------
(* The health monitor beside the RPCs.  It takes staging mounts away, ends *)
(* sessions and makes new ones, so that of the invariants above BaseInv    *)
(* and ApartInv are left; WriterInv takes the place of PublishInv.         *)

Filesystem(v) == Block(v) /\ ~P(v).block

(* No target of v shows the disk of u.                                     *)
ShownApart(u, v) ==
    session[u] # None /\ session[u].dev # None => \A t \in Targets : pub[v][t] # session[u].dev

(* Two targets show two devices, and a bind mount that has been allowed    *)
(* makes no third.                                                         *)
ShownOnce(v) ==
    /\ \A s, t \in Targets : pub[v][s] = pub[v][t] /\ pub[v][s] \in Devices => s = t
    /\ rpc[v].at = "bind" =>
          /\ rpc[v].op = "publish"
          /\ path[v].kind = "mount" => \A t \in Targets : pub[v][t] = path[v].dev => t = rpc[v].target

WriterOK(v) ==
    Filesystem(v) =>
        /\ \A u \in Volumes \ {v} : ShownApart(u, v)
        /\ P(v).single => ShownOnce(v)

WriterInv == \A v \in Volumes : WriterOK(v)

(* A session stays with its device, ends, or appears with a free device.   *)
SessionStep(u) ==
    \/ session'[u] = None
    \/ session[u] # None /\ session'[u].dev = session[u].dev
    \/ session[u] = None /\ Block(u) /\ session'[u].dev \in FreeDevices(u) \union {None}

LEMMA MoveSteps ==
  ASSUME BaseInv, NEW v \in Volumes, NEW u \in Volumes, SessionMove(v, u)
  PROVE  SessionStep(u)
<1>1. VolumeOK(v)
  BY DEF BaseInv
<1>. QED
  BY <1>1 DEF SessionMove, SessionStep, VolumeOK, StageOK, AtStage

(* A device that a new session gets is shown at no target of a filesystem. *)
LEMMA ShownApartKept ==
  ASSUME NEW v \in Volumes, NEW u \in Volumes, ~P(v).block, ShownApart(u, v), SessionStep(u),
         NEW t \in Targets, session'[u] # None, session'[u].dev # None
  PROVE  pub[v][t] # session'[u].dev
<1>1. CASE session[u] # None /\ session'[u].dev = session[u].dev
  BY <1>1 DEF ShownApart
<1>2. CASE session'[u].dev \in FreeDevices(u)
  BY <1>2 DEF FreeDevices, IsSourceMounted
<1>. QED
  BY <1>1, <1>2 DEF SessionStep

(* A step that binds nothing new.                                          *)
LEMMA WriterQuiet ==
  ASSUME BaseInv, WriterInv, NEW v \in Volumes, Effects(v), \A u \in Volumes : PubKept(u),
         rpc'[v] = rpc[v] \/ rpc'[v].at # "bind"
  PROVE  WriterInv'
<1>1. /\ TypeOK /\ UNCHANGED profile /\ PathMove(v) /\ \A u \in Volumes : SessionStep(u)
      /\ \A u \in Volumes \ {v} : rpc'[u] = rpc[u] /\ path'[u] = path[u]
  BY MoveSteps DEF BaseInv, Effects, Frame, RpcMoved
<1>2. ASSUME NEW x \in Volumes, Filesystem(x) PROVE WriterOK(x)'
  <2>1. /\ WriterOK(x) /\ Filesystem(x)' /\ P(x)' = P(x) /\ ~P(x).block /\ Block(x)
        /\ \A t \in Targets : pub'[x][t] = pub[x][t]
    BY <1>1, <1>2 DEF WriterInv, Filesystem, Block, P, PubKept
  <2>2. ASSUME NEW u \in Volumes \ {x} PROVE ShownApart(u, x)'
    <3>1. ShownApart(u, x) /\ SessionStep(u)
      BY <1>1, <1>2, <2>1, <2>2 DEF WriterOK
    <3>. QED
      BY <2>1, <3>1, ShownApartKept DEF ShownApart
  <2>3. ASSUME P(x).single PROVE ShownOnce(x)'
    <3>1. ShownOnce(x)
      BY <1>2, <2>1, <2>3 DEF WriterOK
    <3>2. CASE rpc'[x].at = "bind"
      <4>1. rpc'[x] = rpc[x] /\ rpc[x].op = "publish"
        BY <1>1, <3>1, <3>2 DEF ShownOnce
      <4>2. path'[x].kind = "mount" => path'[x] = path[x]
        BY <1>1, <2>1, <3>2, <4>1 DEF PathMove
      <4>. QED
        BY <2>1, <3>1, <4>1, <4>2 DEF ShownOnce
    <3>. QED
      BY <2>1, <3>1, <3>2 DEF ShownOnce
  <2>. QED
    BY <2>1, <2>2, <2>3 DEF WriterOK
<1>. QED
  BY <1>1, <1>2 DEF WriterInv, WriterOK, Filesystem, Block, P

LEMMA QuietWriter ==
  ASSUME BaseInv, WriterInv, NEW v \in Volumes, Quiet(v)
  PROVE  Effects(v) /\ WriterInv'
<1>1. Effects(v) /\ \A u \in Volumes : PubKept(u)
  BY DEF Quiet
<1>2. rpc'[v] = rpc[v] \/ rpc'[v].at # "bind"
  BY DEF Quiet, Idle
<1>. QED
  BY <1>1, <1>2, WriterQuiet

(* A publication or its end, which the other volumes see nothing of.       *)
LEMMA OthersWriter ==
  ASSUME WriterInv, NEW v \in Volumes, UNCHANGED <<profile, session>>,
         \A u \in Volumes \ {v} : rpc'[u] = rpc[u] /\ path'[u] = path[u] /\ pub'[u] = pub[u],
         WriterOK(v)'
  PROVE  WriterInv'
<1>1. ASSUME NEW u \in Volumes, u # v PROVE WriterOK(u)'
  <2>1. /\ WriterOK(u) /\ rpc'[u] = rpc[u] /\ path'[u] = path[u] /\ pub'[u] = pub[u]
        /\ P(u)' = P(u) /\ Block(u)' = Block(u)
    BY <1>1 DEF WriterInv, P, Block
  <2>. QED
    BY <2>1 DEF WriterOK, Filesystem, ShownApart, ShownOnce
<1>. QED
  BY <1>1 DEF WriterInv

LEMMA WriterCheck ==
  ASSUME BaseInv, WriterInv, NEW v \in Volumes, checkSingleWriterPublication(v)
  PROVE  Effects(v) /\ WriterInv'
<1>1. /\ TypeOK /\ UNCHANGED profile /\ UNCHANGED path /\ UNCHANGED <<session, pub>>
      /\ rpc[v].op = "publish" /\ (Fault \/ Works) /\ WriterOK(v)
  BY DEF BaseInv, WriterInv, checkSingleWriterPublication, At, Node
<1>2. CASE Fails(v)
  BY <1>1, <1>2, SessionsUnchanged, PathUnchanged, QuietEnd, QuietWriter
<1>3. CASE /\ Goto(v, "bind") /\ UNCHANGED Kubelet
           /\ ~P(v).single \/ GetBindMountRefs(v) \subseteq {<<v, rpc[v].target>>}
  <2>1. /\ Effects(v) /\ RpcMoved(v)
        /\ rpc'[v].at = "bind" /\ rpc'[v].op = rpc[v].op /\ rpc'[v].target = rpc[v].target
    BY <1>1, <1>3, PublishEffects DEF TypeOK, PubType, Kubelet
  <2>2. ASSUME NEW t \in Targets, P(v).single, path[v].kind = "mount", pub[v][t] = path[v].dev
        PROVE  t = rpc[v].target
    <3>1. <<v, t>> \in GetBindMountRefs(v)
      BY <2>2 DEF GetBindMountRefs, Source
    <3>. QED
      BY <1>3, <2>2, <3>1
  <2>3. P(v)' = P(v) /\ Block(v)' = Block(v)
    BY <1>1 DEF P, Block
  <2>4. WriterOK(v)'
    BY <1>1, <2>1, <2>2, <2>3 DEF WriterOK, Filesystem, ShownApart, ShownOnce
  <2>5. \A u \in Volumes \ {v} : rpc'[u] = rpc[u] /\ path'[u] = path[u] /\ pub'[u] = pub[u]
    BY <1>1, <2>1 DEF RpcMoved
  <2>. QED
    BY <1>1, <2>1, <2>4, <2>5, OthersWriter
<1>. QED
  BY <1>2, <1>3 DEF checkSingleWriterPublication

(* What is bound is the staged disk, which is no other volume's.           *)
LEMMA WriterBind ==
  ASSUME BaseInv, ApartInv, WriterInv, NEW v \in Volumes, NEW usable \in BOOLEAN, BindMount(v, usable),
         usable /\ Filesystem(v) => path[v].kind \in {"dir", "mount"}
  PROVE  Effects(v) /\ WriterInv'
<1>1. /\ TypeOK /\ UNCHANGED profile /\ UNCHANGED path /\ UNCHANGED session
      /\ rpc[v].op = "publish" /\ rpc[v].at = "bind" /\ (Fault \/ Works) /\ WriterOK(v)
  BY DEF BaseInv, WriterInv, BindMount, At
<1> DEFINE t == rpc[v].target
<1>2. CASE Fails(v) /\ UNCHANGED pub
  BY <1>1, <1>2, SessionsUnchanged, PathUnchanged, QuietEnd, QuietWriter
<1>3. CASE usable /\ Goto(v, "reply") /\ UNCHANGED Kubelet /\ UNCHANGED pub
  <2>1. SessionsMoved(v) /\ PathMoved(v)
    BY <1>1, <1>3, SessionsUnchanged, PathUnchanged
  <2>. QED
    BY <1>1, <1>3, <2>1, QuietGoto, QuietWriter DEF Pcs
<1>4. CASE usable /\ Goto(v, "reply") /\ UNCHANGED Kubelet /\ pub' = [pub EXCEPT ![v][t] = Source(v)]
  <2>1. Source(v) \in Devices \union {None, "share", "bare", "dead"}
    BY <1>1 DEF Source, TypeOK, PathType
  <2>2. /\ pub' \in PubType
        /\ \A s \in Targets : pub'[v][s] = IF s = t THEN Source(v) ELSE pub[v][s]
        /\ \A u \in Volumes \ {v} : pub'[u] = pub[u]
    BY <1>1, <1>4, <2>1 DEF TypeOK, PubType
  <2>3. /\ Effects(v) /\ RpcMoved(v) /\ rpc'[v].at = "reply"
    BY <1>1, <1>4, <2>2, PublishEffects
  <2>4. P(v)' = P(v) /\ Block(v)' = Block(v)
    BY <1>1 DEF P, Block
  <2>5. ASSUME Filesystem(v) PROVE Source(v) = "bare" \/ (path[v].kind = "mount" /\ Source(v) = path[v].dev)
    BY <1>4, <2>5 DEF Source
  <2>6. "bare" \notin Devices
    BY NamesAssumption
  <2>7. ASSUME Filesystem(v), NEW u \in Volumes, u # v PROVE ShownApart(u, v)'
    <3>1. ShownApart(u, v) /\ Apart(u, v) /\ session[u] \in SessionType \union {None}
      BY <1>1, <2>7 DEF WriterOK, ApartInv, TypeOK
    <3>2. session[u] # None /\ session[u].dev # None => session[u].dev \in Devices /\ session[u].dev # Source(v)
      BY <2>5, <2>6, <2>7, <3>1 DEF Apart, SessionType
    <3>. QED
      BY <1>1, <2>2, <3>1, <3>2 DEF ShownApart
  <2>8. ASSUME Filesystem(v), P(v).single PROVE ShownOnce(v)'
    <3>1. ShownOnce(v)
      BY <1>1, <2>8 DEF WriterOK
    <3>2. ASSUME NEW s \in Targets, s # t, Source(v) \in Devices PROVE pub[v][s] # Source(v)
      BY <1>1, <2>5, <2>6, <2>8, <3>1, <3>2 DEF ShownOnce
    <3>3. ASSUME NEW r \in Targets, NEW s \in Targets, pub'[v][r] = pub'[v][s], pub'[v][r] \in Devices PROVE r = s
      BY <2>2, <3>1, <3>2, <3>3 DEF ShownOnce
    <3>. QED
      BY <2>3, <3>3 DEF ShownOnce
  <2>9. WriterOK(v)'
    BY <2>4, <2>7, <2>8 DEF WriterOK, Filesystem
  <2>10. \A u \in Volumes \ {v} : rpc'[u] = rpc[u] /\ path'[u] = path[u] /\ pub'[u] = pub[u]
    BY <1>1, <2>2, <2>3 DEF RpcMoved
  <2>. QED
    BY <1>1, <2>3, <2>9, <2>10, OthersWriter
<1>. QED
  BY <1>2, <1>3, <1>4 DEF BindMount, Succeeds

LEMMA WriterUnmountTarget ==
  ASSUME BaseInv, WriterInv, NEW v \in Volumes, UnmountTarget(v)
  PROVE  Effects(v) /\ WriterInv'
<1>1. /\ TypeOK /\ UNCHANGED profile /\ UNCHANGED path /\ UNCHANGED session
      /\ rpc[v].op = "unpublish" /\ (Fault \/ Works) /\ WriterOK(v)
  BY DEF BaseInv, WriterInv, UnmountTarget, At
<1> DEFINE t == rpc[v].target
<1>2. CASE Fails(v) /\ UNCHANGED pub
  BY <1>1, <1>2, SessionsUnchanged, PathUnchanged, QuietEnd, QuietWriter
<1>3. CASE Goto(v, "reply") /\ UNCHANGED Kubelet /\ pub' = [pub EXCEPT ![v][t] = None]
  <2>1. /\ pub' \in PubType
        /\ \A s \in Targets : pub'[v][s] = IF s = t THEN None ELSE pub[v][s]
        /\ \A u \in Volumes \ {v} : pub'[u] = pub[u]
    BY <1>1, <1>3 DEF TypeOK, PubType
  <2>2. /\ Effects(v) /\ RpcMoved(v) /\ rpc'[v].at = "reply"
    BY <1>1, <1>3, <2>1, PublishEffects
  <2>3. P(v)' = P(v) /\ Block(v)' = Block(v) /\ None \notin Devices
    BY <1>1, NamesAssumption DEF P, Block
  <2>4. WriterOK(v)'
    BY <1>1, <2>1, <2>2, <2>3 DEF WriterOK, Filesystem, ShownApart, ShownOnce
  <2>5. \A u \in Volumes \ {v} : rpc'[u] = rpc[u] /\ path'[u] = path[u] /\ pub'[u] = pub[u]
    BY <1>1, <2>1, <2>2 DEF RpcMoved
  <2>. QED
    BY <1>1, <2>2, <2>4, <2>5, OthersWriter
<1>. QED
  BY <1>2, <1>3 DEF UnmountTarget, Succeeds

LEMMA WriterSteps ==
  ASSUME BaseInv, ApartInv, WriterInv, NEW v \in Volumes, Rpc(v) \/ Kernel(v)
  PROVE  Effects(v) /\ WriterInv'
<1>1. CASE StageStep(v)
  BY <1>1, StageStepQuiet, QuietWriter
<1>2. CASE Kernel(v)
  BY <1>2, KernelQuiet, QuietWriter
<1>3. CASE publishNFSVolume(v) \/ publishSMBVolume(v)
  <2>1. ~Filesystem(v)
    BY <1>3 DEF publishNFSVolume, publishSMBVolume, PublishShare, Filesystem, Block
  <2>2. PICK usable \in BOOLEAN : BindMount(v, usable)
    <3>1. (path[v].kind \in {"dir", "mount"} \/ pub[v][rpc[v].target] # None) \in BOOLEAN
      OBVIOUS
    <3>. QED
      BY <1>3, <3>1, Zenon DEF publishNFSVolume, publishSMBVolume, PublishShare
  <2>. QED
    BY <2>1, <2>2, WriterBind
<1>4. CASE publishFilesystemVolume(v) \/ publishBlockVolume(v)
  <2>1. PICK usable \in BOOLEAN : /\ BindMount(v, usable)
                                  /\ usable /\ Filesystem(v) => path[v].kind \in {"dir", "mount"}
    <3>1. CASE publishFilesystemVolume(v)
      <4>1. (path[v].kind \in {"dir", "mount"}) \in BOOLEAN
        OBVIOUS
      <4>. QED
        BY <3>1, <4>1, Zenon DEF publishFilesystemVolume
    <3>2. CASE publishBlockVolume(v)
      <4>1. (path[v].kind = "link" /\ Exists(path[v].dev)) \in BOOLEAN /\ ~Filesystem(v)
        BY <3>2 DEF publishBlockVolume, Filesystem
      <4>. QED
        BY <3>2, <4>1, Zenon DEF publishBlockVolume
    <3>. QED
      BY <1>4, <3>1, <3>2
  <2>. QED
    BY <2>1, WriterBind
<1>5. CASE \/ Dispatch(v) \/ unstageNFSVolume(v) \/ unstageSMBVolume(v)
           \/ unstageISCSIVolume(v) \/ unstageNVMeOFVolume(v) \/ DisconnectOwner(v)
  BY <1>5, DispatchQuiet, UnmountShareQuiet, UnmountDeviceQuiet, DisconnectOwnerQuiet, QuietWriter
<1>6. ASSUME Effects(v), UNCHANGED pub, rpc'[v].at = "start" PROVE WriterInv'
  <2>1. \A u \in Volumes : PubKept(u)
    BY <1>6 DEF PubKept
  <2>. QED
    BY <1>6, <2>1, WriterQuiet
<1>. QED
  BY <1>1, <1>2, <1>3, <1>4, <1>5, <1>6, CallSteps, ReplySteps, WriterCheck, WriterUnmountTarget
     DEF Rpc, OtherStep

-----------------------------------------------------------------------------
(* A step of a scan: it changes one session at most, and what it does to   *)
(* a staging path is to unmount it.                                        *)
ScanMove(w) ==
    /\ UNCHANGED <<profile, rpc, staged, published>> /\ faults' \in 0..MaxFaults
    /\ session' \in SessionsType /\ \A u \in Volumes \ {w} : session'[u] = session[u]
    /\ w \in Volumes => SessionStep(w)
    /\ pub' \in PubType /\ \A u \in Volumes : PubKept(u)
    /\ path' \in [Volumes -> PathType]
    /\ \A u \in Volumes : path'[u] = path[u] \/ path'[u] = Path("dir", None)

LEMMA ScanBase ==
  ASSUME BaseInv, NEW w, ScanMove(w)
  PROVE  BaseInv'
<1>1. /\ TypeOK /\ UNCHANGED <<profile, rpc, staged, published>> /\ profile \in Worlds
      /\ \A u \in Volumes : VolumeOK(u)
  BY DEF BaseInv, ScanMove
<1>2. TypeOK'
  <2>1. \A u \in Volumes : rpc'[u].tries <= MaxTries(u)'
    BY <1>1 DEF TypeOK, MaxTries, P
  <2>. QED
    BY <1>1, <2>1 DEF TypeOK, ScanMove, SessionsType, PubType
<1>3. ASSUME NEW u \in Volumes PROVE VolumeOK(u)'
  <2>1. /\ P(u)' = P(u) /\ Block(u)' = Block(u) /\ DevicesOf(u)' = DevicesOf(u)
        /\ StagedKind(u)' = StagedKind(u) /\ KindsOK(u) /\ StageOK(u) /\ KubeletOK(u)
    BY <1>1 DEF P, Block, DevicesOf, StagedKind, VolumeOK
  <2>2. session'[u] = session[u] \/ SessionStep(u)
    BY DEF ScanMove
  <2>3. session'[u] # None => session'[u].dev \in DevicesOf(u) \union {None}
    BY <2>1, <2>2 DEF SessionStep, KindsOK, FreeDevices, DevicesOf, Block
  <2>4. path'[u] = path[u] \/ (path'[u].kind = "dir" /\ path'[u].dev = None)
    BY DEF ScanMove, Path
  <2>5. KindsOK(u)'
    BY <1>1, <2>1, <2>3, <2>4 DEF KindsOK, Unstaged
  <2>6. StageOK(u)' /\ KubeletOK(u)'
    BY <1>1, <2>1, <2>4 DEF StageOK, KubeletOK, AtStage, Unstaged
  <2>. QED
    BY <2>5, <2>6 DEF VolumeOK
<1>. QED
  BY <1>1, <1>2, <1>3 DEF BaseInv

LEMMA ScanApart ==
  ASSUME BaseInv, ApartInv, NEW w, ScanMove(w)
  PROVE  ApartInv'
<1>1. SUFFICES ASSUME NEW u \in Volumes, NEW v \in Volumes, u # v, session'[u] # None, session'[u].dev # None
               PROVE  /\ session'[v] # None => session'[v].dev # session'[u].dev
                      /\ path'[v].kind = "mount" => path'[v].dev # session'[u].dev
                      /\ rpc'[v].at = "device" => rpc'[v].dev # session'[u].dev
  BY DEF ApartInv, Apart
<1>2. /\ Apart(u, v) /\ Apart(v, u) /\ rpc' = rpc
      /\ path'[v].kind = "mount" => path'[v] = path[v]
  BY <1>1 DEF ApartInv, ScanMove, Path
<1>3. CASE session'[u] = session[u] /\ session'[v] = session[v]
  BY <1>1, <1>2, <1>3 DEF Apart
<1>4. CASE session'[v] = session[v] /\ SessionStep(u)
  <2>1. CASE session[u] # None /\ session'[u].dev = session[u].dev
    BY <1>1, <1>2, <1>4, <2>1 DEF Apart
  <2>2. CASE session'[u].dev \in FreeDevices(u)
    <3>1. PICK d : d = session'[u].dev /\ d # None /\ d \in FreeDevices(u)
      BY <1>1, <2>2
    <3>2. ~Exists(d) /\ ~IsSourceMounted(d) /\ \A x \in Volumes : rpc[x].at = "device" => rpc[x].dev # d
      BY <3>1 DEF FreeDevices
    <3>3. session[v] # None => session[v].dev # d
      BY <3>1, <3>2 DEF Exists, Owners
    <3>4. path[v].kind = "mount" => path[v].dev # d
      <4>1. path[v] \in PathType
        BY DEF BaseInv, TypeOK
      <4>. QED
        BY <3>2, <4>1 DEF IsSourceMounted, PathType, Path
    <3>. QED
      BY <1>2, <1>4, <3>1, <3>2, <3>3, <3>4
  <2>. QED
    BY <1>1, <1>4, <2>1, <2>2 DEF SessionStep
<1>5. CASE session'[u] = session[u] /\ SessionStep(v)
  <2>1. CASE session'[v] # None /\ session[v] = None /\ session'[v].dev \in FreeDevices(v)
    <3>1. ~Exists(session'[v].dev)
      BY <2>1 DEF FreeDevices
    <3>2. session'[v].dev # session'[u].dev
      BY <1>1, <1>5, <3>1 DEF Exists, Owners
    <3>. QED
      BY <1>1, <1>2, <1>5, <3>2 DEF Apart
  <2>. QED
    BY <1>1, <1>2, <1>5, <2>1 DEF SessionStep, Apart
<1>. QED
  BY <1>1, <1>3, <1>4, <1>5 DEF ScanMove

LEMMA ScanWriter ==
  ASSUME BaseInv, WriterInv, NEW w, ScanMove(w)
  PROVE  WriterInv'
<1>1. UNCHANGED profile /\ UNCHANGED rpc /\ TypeOK
  BY DEF ScanMove, BaseInv
<1>2. ASSUME NEW x \in Volumes, Filesystem(x) PROVE WriterOK(x)'
  <2>1. /\ WriterOK(x) /\ Filesystem(x)' /\ P(x)' = P(x) /\ ~P(x).block
        /\ \A t \in Targets : pub'[x][t] = pub[x][t]
        /\ path'[x].kind = "mount" => path'[x] = path[x]
    BY <1>1, <1>2 DEF WriterInv, Filesystem, Block, P, PubKept, ScanMove, Path
  <2>2. ASSUME NEW u \in Volumes \ {x} PROVE ShownApart(u, x)'
    <3>1. ShownApart(u, x) /\ (session'[u] = session[u] \/ SessionStep(u))
      BY <1>2, <2>1, <2>2 DEF WriterOK, ScanMove
    <3>2. SessionStep(u)
      BY <3>1 DEF SessionStep
    <3>. QED
      BY <2>1, <3>1, <3>2, ShownApartKept DEF ShownApart
  <2>3. ASSUME P(x).single PROVE ShownOnce(x)'
    BY <1>1, <1>2, <2>1, <2>3 DEF WriterOK, ShownOnce
  <2>. QED
    BY <2>1, <2>2, <2>3 DEF WriterOK
<1>. QED
  BY <1>1, <1>2 DEF WriterInv, WriterOK, Filesystem, Block, P

LEMMA FaultOrWorks ==
  ASSUME TypeOK, Fault \/ Works, UNCHANGED <<profile, rpc, Kubelet>>
  PROVE  UNCHANGED <<profile, rpc, staged, published>> /\ faults' \in 0..MaxFaults
  BY FaultsCounted DEF Kubelet

LEMMA ScanStays ==
  ASSUME BaseInv, UNCHANGED <<profile, rpc, Kubelet>>, Fault \/ Works, UNCHANGED Node
  PROVE  \E w : ScanMove(w)
<1>1. TypeOK /\ UNCHANGED <<profile, rpc, staged, published>> /\ faults' \in 0..MaxFaults
      /\ UNCHANGED <<session, path, pub>>
  BY FaultOrWorks DEF BaseInv, Node
<1>2. ScanMove(None)
  BY <1>1 DEF ScanMove, SessionStep, TypeOK, SessionsType, PubType, PubKept
<1>. QED
  BY <1>2

LEMMA SessionTypes ==
  /\ \A d \in Devices \union {None}, s \in LinkStates :
        [dev |-> d, state |-> s] \in SessionType /\ [dev |-> d, state |-> s].dev = d
  /\ \A x \in SessionType : \A s \in LinkStates :
        [x EXCEPT !.state = s] \in SessionType /\ [x EXCEPT !.state = s].dev = x.dev
  /\ \A x \in SessionType : x # None
  BY NamesAssumption DEF SessionType

LEMMA ScanSession ==
  ASSUME BaseInv, UNCHANGED <<profile, rpc, Kubelet>>, Fault \/ Works, UNCHANGED <<path, pub>>,
         NEW w, NEW x, session' = [session EXCEPT ![w] = x],
         w \in Volumes => /\ x \in SessionType
                          /\ \/ session[w] # None /\ x.dev = session[w].dev
                             \/ session[w] = None /\ Block(w) /\ x.dev \in FreeDevices(w)
  PROVE  ScanMove(w)
<1>1. TypeOK /\ UNCHANGED <<profile, rpc, staged, published>> /\ faults' \in 0..MaxFaults
  BY FaultOrWorks DEF BaseInv
<1>2. session' \in SessionsType /\ \A u \in Volumes \ {w} : session'[u] = session[u]
  BY <1>1 DEF TypeOK, SessionsType
<1>3. w \in Volumes => SessionStep(w)
  <2>1. ASSUME w \in Volumes PROVE session'[w] = x
    BY <1>1, <2>1 DEF TypeOK
  <2>. QED
    BY <2>1 DEF SessionStep
<1>. QED
  BY <1>1, <1>2, <1>3 DEF ScanMove, TypeOK, PubType, PubKept

(* A scan changes the state of a session.                                  *)
LEMMA ScanState ==
  ASSUME BaseInv, UNCHANGED <<profile, rpc, Kubelet>>, Fault \/ Works, UNCHANGED <<path, pub>>,
         NEW w, session[w] # None, session' = [session EXCEPT ![w].state = "recovering"]
  PROVE  ScanMove(w)
<1> DEFINE x == [session[w] EXCEPT !.state = "recovering"]
<1>1. session' = [session EXCEPT ![w] = x]
  OBVIOUS
<1>2. ASSUME w \in Volumes PROVE x \in SessionType /\ x.dev = session[w].dev
  <2>1. session[w] \in SessionType /\ "recovering" \in LinkStates
    BY <1>2 DEF BaseInv, TypeOK, LinkStates
  <2>. QED
    BY <2>1, SessionTypes
<1> HIDE DEF x
<1>. QED
  BY <1>1, <1>2, ScanSession

-----------------------------------------------------------------------------
(* Where a scan is.  What it recovers are iSCSI sessions.                  *)

MonPCs == {"idle", "iscsi", "rescan", "check", "logout", "login", "nvme",
           "findRO", "remount", "findmnt", "mounts", "umount"}
Visits == Devices \union Volumes \union (Devices \X Volumes)
MonType == [at : MonPCs, todo : SUBSET Visits, vol : Volumes \union {None}]

Recovers(r) == r.at \in {"rescan", "check", "logout", "login"}
EntryOK(r) ==
    /\ r.at = "iscsi" \/ Recovers(r) => r.todo \subseteq SCSIDevices
    /\ Recovers(r) /\ r.vol # None => P(r.vol).proto = "iscsi"
    /\ r.at \in {"mounts", "umount"} => r.todo \subseteq Devices \X Volumes

MonInv == mon \in [Scans -> MonType] /\ \A m \in Scans : EntryOK(mon[m])

MonMoved(m) == mon' \in [Scans -> MonType] /\ \A n \in Scans \ {m} : mon'[n] = mon[n]

LEMMA MonKept ==
  ASSUME MonInv, UNCHANGED profile, NEW m \in Scans, MonMoved(m), EntryOK(mon'[m])
  PROVE  MonInv'
<1>1. \A n \in Scans : EntryOK(mon'[n])
  BY DEF MonInv, MonMoved
<1>2. \A n \in Scans : EntryOK(mon[n])'
  BY <1>1 DEF EntryOK, Recovers, P
<1>. QED
  BY <1>2 DEF MonInv, MonMoved

LEMMA RecordTyped ==
  ASSUME NEW pc \in MonPCs, NEW S \in SUBSET Visits, NEW v \in Volumes \union {None}
  PROVE  [at |-> pc, todo |-> S, vol |-> v] \in MonType
  BY DEF MonType, MonPCs, Visits

LEMMA EntryMoves ==
  ASSUME MonInv, NEW m \in Scans, NEW x \in MonType, mon' = [mon EXCEPT ![m] = x]
  PROVE  MonMoved(m) /\ mon'[m] = x
  BY DEF MonInv, MonMoved

LEMMA EntryTyped ==
  ASSUME MonInv, NEW m \in Scans
  PROVE  /\ mon[m].at \in MonPCs /\ mon[m].todo \in SUBSET Visits
         /\ mon[m].vol \in Volumes \union {None}
         /\ \A x : mon[m].todo \ {x} \in SUBSET Visits
  BY DEF MonInv, MonType, MonPCs, Visits

LEMMA ToMoves ==
  ASSUME MonInv, NEW m \in Scans, NEW pc \in MonPCs, NEW S \in SUBSET Visits, To(m, pc, S)
  PROVE  MonMoved(m) /\ mon'[m].at = pc /\ mon'[m].todo = S /\ mon'[m].vol = None
<1>. DEFINE x == [at |-> pc, todo |-> S, vol |-> None]
<1>1. x \in MonType /\ x.at = pc /\ x.todo = S /\ x.vol = None
  BY RecordTyped
<1>2. mon' = [mon EXCEPT ![m] = x]
  BY DEF To
<1>. HIDE DEF x
<1>. QED
  BY <1>1, <1>2, EntryMoves

LEMMA BusyMoves ==
  ASSUME MonInv, NEW m \in Scans, NEW pc \in MonPCs, NEW v \in Volumes \union {None}, Busy(m, pc, v)
  PROVE  MonMoved(m) /\ mon'[m].at = pc /\ mon'[m].vol = v /\ mon'[m].todo = mon[m].todo
<1>. DEFINE x == [[mon[m] EXCEPT !.at = pc] EXCEPT !.vol = v]
<1>1. mon[m] \in MonType
  BY DEF MonInv
<1>2. x \in MonType /\ x.at = pc /\ x.vol = v /\ x.todo = mon[m].todo
  BY <1>1 DEF MonType
<1>3. mon' = [mon EXCEPT ![m] = x]
  BY DEF Busy
<1>. HIDE DEF x
<1>. QED
  BY <1>2, <1>3, EntryMoves

LEMMA ResumeMoves ==
  ASSUME MonInv, NEW m \in Scans, NEW pc \in MonPCs, Resume(m, pc)
  PROVE  MonMoved(m) /\ mon'[m].at = pc /\ mon'[m].todo = mon[m].todo /\ mon'[m].vol = None
<1>. DEFINE S == mon[m].todo
<1>1. S \in SUBSET Visits /\ To(m, pc, S)
  BY EntryTyped DEF Resume
<1>. HIDE DEF S
<1>2. MonMoved(m) /\ mon'[m].at = pc /\ mon'[m].todo = S /\ mon'[m].vol = None
  BY <1>1, ToMoves
<1>. QED
  BY <1>2 DEF S

LEMMA VisitedMoves ==
  ASSUME MonInv, NEW m \in Scans, NEW x, Visited(m, x)
  PROVE  /\ MonMoved(m)
         /\ mon'[m].at = mon[m].at /\ mon'[m].todo = mon[m].todo \ {x} /\ mon'[m].vol = None
<1>. DEFINE S == mon[m].todo \ {x}
            pc == mon[m].at
<1>1. S \in SUBSET Visits /\ pc \in MonPCs /\ To(m, pc, S)
  BY EntryTyped DEF Visited
<1>. HIDE DEF S, pc
<1>2. MonMoved(m) /\ mon'[m].at = pc /\ mon'[m].todo = S /\ mon'[m].vol = None
  BY <1>1, ToMoves
<1>. QED
  BY <1>2 DEF S, pc

-----------------------------------------------------------------------------
(* The steps of a scan.                                                    *)

LEMMA ScanStart ==
  ASSUME BaseInv, MonInv, NEW m \in Scans, Start(m)
  PROVE  MonInv' /\ \E w : ScanMove(w)
<1>. DEFINE S == {d \in SCSIDevices : Exists(d)}
<1>1. S \in SUBSET Visits /\ S \subseteq SCSIDevices /\ To(m, "iscsi", S) /\ "iscsi" \in MonPCs
  BY DEF Start, Visits, Devices, MonPCs
<1>. HIDE DEF S
<1>2. MonMoved(m) /\ mon'[m].at = "iscsi" /\ mon'[m].todo = S
  BY <1>1, ToMoves
<1>3. EntryOK(mon'[m])
  BY <1>1, <1>2 DEF EntryOK, Recovers
<1>4. UNCHANGED <<profile, rpc, Kubelet>> /\ Works /\ UNCHANGED Node
  BY DEF Start, Scanning, NodeStays
<1>. QED
  BY <1>2, <1>3, <1>4, MonKept, ScanStays

LEMMA ScanSessions ==
  ASSUME BaseInv, MonInv, NEW m \in Scans, recoverISCSISessions(m)
  PROVE  MonInv' /\ \E w : ScanMove(w)
<1>1. /\ mon[m].at = "iscsi" /\ UNCHANGED <<profile, rpc, Kubelet>> /\ (Fault \/ Works) /\ UNCHANGED Node
      /\ mon[m].todo \subseteq SCSIDevices
  BY DEF recoverISCSISessions, Scanning, NodeStays, MonInv, EntryOK
<1>2. MonMoved(m) /\ EntryOK(mon'[m])
  <2>1. CASE \E d : Visited(m, d)
    BY <1>1, <2>1, VisitedMoves DEF EntryOK, Recovers
  <2>2. CASE \E d \in mon[m].todo : \E v \in getISCSISessionInfo(d) :
               mon' = [mon EXCEPT ![m] = [at |-> "rescan", todo |-> @.todo \ {d}, vol |-> v]]
    <3>1. PICK d, v : /\ d \in mon[m].todo /\ v \in getISCSISessionInfo(d)
                      /\ mon' = [mon EXCEPT ![m] = [at |-> "rescan", todo |-> mon[m].todo \ {d}, vol |-> v]]
      BY <2>2
    <3>2. v \in Volumes /\ session[v] # None /\ session[v].dev = d /\ d # None /\ d \in SCSIDevices
      BY <1>1, <3>1 DEF getISCSISessionInfo, Owners
    <3>3. P(v).proto = "iscsi"
      BY <3>2, NamesAssumption DEF BaseInv, VolumeOK, KindsOK, DevicesOf
    <3>4. PICK S \in SUBSET Visits : S = mon[m].todo \ {d}
      BY EntryTyped
    <3>5. PICK x \in MonType : x = [at |-> "rescan", todo |-> S, vol |-> v]
      BY <3>2, RecordTyped DEF MonPCs
    <3>6. MonMoved(m) /\ mon'[m] = x
      BY <3>1, <3>4, <3>5, EntryMoves
    <3>7. EntryOK(x)
      BY <1>1, <3>3, <3>4, <3>5 DEF EntryOK
    <3>. QED
      BY <3>6, <3>7
  <2>3. CASE To(m, "nvme", {v \in Volumes : P(v).proto = "nvmeof" /\ session[v] # None})
    <3>1. PICK S \in SUBSET Visits : S = {v \in Volumes : P(v).proto = "nvmeof" /\ session[v] # None}
      BY DEF Visits
    <3>2. MonMoved(m) /\ mon'[m].at = "nvme"
      BY <2>3, <3>1, ToMoves DEF MonPCs
    <3>. QED
      BY <3>2 DEF EntryOK, Recovers
  <2>. QED
    BY <2>1, <2>2, <2>3 DEF recoverISCSISessions
<1>. QED
  BY <1>1, <1>2, MonKept, ScanStays

LEMMA BusyKept ==
  ASSUME MonInv, UNCHANGED profile, NEW m \in Scans, Recovers(mon[m]),
         NEW pc \in {"check", "logout", "login"}, Busy(m, pc, mon[m].vol) \/ Resume(m, "iscsi")
  PROVE  MonInv'
<1>1. EntryOK(mon[m])
  BY DEF MonInv
<1>2. CASE Busy(m, pc, mon[m].vol)
  <2>1. MonMoved(m) /\ mon'[m].at = pc /\ mon'[m].vol = mon[m].vol /\ mon'[m].todo = mon[m].todo
    BY <1>2, EntryTyped, BusyMoves DEF MonPCs
  <2>. QED
    BY <1>1, <2>1, MonKept DEF EntryOK, Recovers
<1>3. CASE Resume(m, "iscsi")
  <2>1. MonMoved(m) /\ mon'[m].at = "iscsi" /\ mon'[m].todo = mon[m].todo
    BY <1>3, ResumeMoves DEF MonPCs
  <2>. QED
    BY <1>1, <2>1, MonKept DEF EntryOK, Recovers
<1>. QED
  BY <1>2, <1>3

LEMMA ScanSessionRecovery ==
  ASSUME BaseInv, MonInv, NEW m \in Scans, recoverISCSISession(m)
  PROVE  MonInv' /\ \E w : ScanMove(w)
<1>1. /\ UNCHANGED <<profile, rpc, Kubelet>> /\ (Fault \/ Works) /\ UNCHANGED path /\ Recovers(mon[m])
      /\ \/ Resume(m, "iscsi") \/ Busy(m, "check", mon[m].vol)
         \/ Busy(m, "logout", mon[m].vol) \/ Busy(m, "login", mon[m].vol)
  BY DEF recoverISCSISession, Rescan, CheckRescan, ForceLogout, Relogin, Scanning, NodeStays, Node, Recovers
<1>2. MonInv'
  BY <1>1, BusyKept
<1>3. CASE Rescan(m)
  <2>1. UNCHANGED pub
    BY <1>3 DEF Rescan
  <2>2. CASE UNCHANGED session
    BY <1>1, <1>2, <2>1, <2>2, ScanStays DEF Node
  <2>3. CASE /\ session[mon[m].vol] # None /\ session[mon[m].vol].state = "failed"
             /\ session' = [session EXCEPT ![mon[m].vol].state = "recovering"]
    BY <1>1, <1>2, <2>1, <2>3, ScanState
  <2>. QED
    BY <1>3, <2>2, <2>3, Zenon DEF Rescan
<1>4. CASE CheckRescan(m)
  BY <1>1, <1>2, <1>4, ScanStays DEF CheckRescan, NodeStays
<1>5. CASE ForceLogout(m)
  <2>1. CASE UNCHANGED <<session, pub>>
    BY <1>1, <1>2, <2>1, ScanStays DEF Node
  <2>2. CASE Disconnect(mon[m].vol)
    <3>1. TypeOK /\ UNCHANGED <<profile, rpc, staged, published>> /\ faults' \in 0..MaxFaults
      BY <1>1, FaultOrWorks DEF BaseInv
    <3>2. CASE mon[m].vol \in Volumes
      <4>1. ScanMove(mon[m].vol)
        BY <1>1, <2>2, <3>1, <3>2, DisconnectMoves DEF ScanMove, SessionStep, TypeOK
      <4>. QED
        BY <1>2, <4>1
    <3>3. CASE mon[m].vol \notin Volumes
      <4>1. session' = session
        BY <2>2, <3>1, <3>3 DEF Disconnect, TypeOK
      <4>2. pub' \in PubType /\ \A u \in Volumes : PubKept(u)
        BY <2>2, <3>1 DEF Disconnect, Gone, TypeOK, PubType, PubKept
      <4>3. ScanMove(mon[m].vol)
        BY <1>1, <3>1, <3>3, <4>1, <4>2 DEF ScanMove, TypeOK, SessionsType
      <4>. QED
        BY <1>2, <4>3
    <3>. QED
      BY <3>2, <3>3
  <2>. QED
    BY <1>5, <2>1, <2>2 DEF ForceLogout
<1>6. CASE Relogin(m)
  <2>1. CASE UNCHANGED session
    BY <1>1, <1>2, <1>6, <2>1, ScanStays DEF Relogin, Node
  <2>2. CASE \E d \in FreeDevices(mon[m].vol) :
               /\ mon[m].vol # None /\ session[mon[m].vol] = None
               /\ session' = [session EXCEPT ![mon[m].vol] = [dev |-> d, state |-> "live"]]
    <3>1. PICK v : v = mon[m].vol
      OBVIOUS
    <3>2. PICK d \in FreeDevices(v) :
               v # None /\ session[v] = None /\ session' = [session EXCEPT ![v] = [dev |-> d, state |-> "live"]]
      BY <2>2, <3>1
    <3>3. d \in Devices
      BY <3>2 DEF FreeDevices, Devices
    <3>4. Block(v)
      BY <1>1, <3>1, <3>2 DEF MonInv, EntryOK, Block
    <3>5. PICK x \in SessionType : x = [dev |-> d, state |-> "live"] /\ x.dev = d
      BY <3>3, SessionTypes DEF LinkStates
    <3>6. UNCHANGED <<path, pub>>
      BY <1>6 DEF Relogin
    <3>7. ScanMove(v)
      BY <1>1, <3>2, <3>4, <3>5, <3>6, ScanSession
    <3>. QED
      BY <1>2, <3>7
  <2>. QED
    BY <1>6, <2>1, <2>2 DEF Relogin
<1>. QED
  BY <1>3, <1>4, <1>5, <1>6 DEF recoverISCSISession

LEMMA ElsewhereKept ==
  ASSUME MonInv, UNCHANGED profile, NEW m \in Scans, MonMoved(m),
         mon'[m].at \in {"idle", "nvme", "findRO", "remount", "findmnt"}
  PROVE  MonInv'
  BY MonKept DEF EntryOK, Recovers

LEMMA ScanControllers ==
  ASSUME BaseInv, MonInv, NEW m \in Scans, recoverNVMeOFConnections(m)
  PROVE  MonInv' /\ \E w : ScanMove(w)
<1>1. /\ mon[m].at = "nvme" /\ UNCHANGED <<profile, rpc, Kubelet>> /\ (Fault \/ Works)
      /\ UNCHANGED <<path, pub>>
  BY DEF recoverNVMeOFConnections, Scanning
<1>2. \/ \E v : Visited(m, v)
      \/ To(m, "findRO", {}) \/ To(m, "idle", {})
  BY DEF recoverNVMeOFConnections
<1>3. {} \in SUBSET Visits /\ {"findRO", "idle"} \subseteq MonPCs
  BY DEF MonPCs
<1>4. MonMoved(m) /\ mon'[m].at \in {"nvme", "findRO", "idle"}
  <2>1. CASE \E v : Visited(m, v)
    BY <1>1, <2>1, VisitedMoves
  <2>2. CASE To(m, "findRO", {})
    BY <1>3, <2>2, ToMoves
  <2>3. CASE To(m, "idle", {})
    BY <1>3, <2>3, ToMoves
  <2>. QED
    BY <1>2, <2>1, <2>2, <2>3
<1>5. MonInv'
  BY <1>1, <1>4, ElsewhereKept
<1>6. \/ UNCHANGED session
      \/ \E v : session[v] # None /\ session' = [session EXCEPT ![v].state = "recovering"]
  BY DEF recoverNVMeOFConnections
<1>7. CASE UNCHANGED session
  BY <1>1, <1>5, <1>7, ScanStays DEF Node
<1>. QED
  BY <1>1, <1>5, <1>6, <1>7, ScanState

LEMMA LinesVisited == StagingMounts \in SUBSET Visits /\ StagingMounts \subseteq Devices \X Volumes
  BY DEF StagingMounts, Visits

LEMMA ScanRemount ==
  ASSUME BaseInv, MonInv, NEW m \in Scans, remountReadOnlyVolumes(m)
  PROVE  MonInv' /\ \E w : ScanMove(w)
<1>1. /\ mon[m].at \in {"findRO", "remount"} /\ UNCHANGED <<profile, rpc, Kubelet>> /\ UNCHANGED Node
  BY DEF remountReadOnlyVolumes, Scanning, NodeStays
<1>2. Fault \/ Works
  BY DEF remountReadOnlyVolumes, isDeviceAccessible
<1>3. \/ \E x : Visited(m, x)
      \/ \E S \in SUBSET Visits : To(m, "remount", S)
      \/ To(m, "findmnt", {})
  BY LinesVisited DEF remountReadOnlyVolumes
<1>4. {} \in SUBSET Visits /\ {"remount", "findmnt"} \subseteq MonPCs
  BY DEF MonPCs
<1>5. MonMoved(m) /\ mon'[m].at \in {"findRO", "remount", "findmnt"}
  <2>1. CASE \E x : Visited(m, x)
    BY <1>1, <2>1, VisitedMoves
  <2>2. CASE \E S \in SUBSET Visits : To(m, "remount", S)
    BY <1>4, <2>2, ToMoves
  <2>3. CASE To(m, "findmnt", {})
    BY <1>4, <2>3, ToMoves
  <2>. QED
    BY <1>3, <2>1, <2>2, <2>3
<1>. QED
  BY <1>1, <1>2, <1>5, ElsewhereKept, ScanStays

LEMMA ScanFindMounts ==
  ASSUME BaseInv, MonInv, NEW m \in Scans, FindMounts(m)
  PROVE  MonInv' /\ \E w : ScanMove(w)
<1>1. /\ UNCHANGED <<profile, rpc, Kubelet>> /\ (Fault \/ Works) /\ UNCHANGED Node
      /\ To(m, "mounts", StagingMounts) \/ Resume(m, "idle")
  BY DEF FindMounts, Scanning
<1>2. {"idle", "mounts"} \subseteq MonPCs
  BY DEF MonPCs
<1>3. MonMoved(m) /\ EntryOK(mon'[m])
  <2>1. CASE To(m, "mounts", StagingMounts)
    <3>1. PICK S \in SUBSET Visits : S = StagingMounts /\ S \subseteq Devices \X Volumes
      BY LinesVisited
    <3>2. MonMoved(m) /\ mon'[m].at = "mounts" /\ mon'[m].todo = S
      BY <1>2, <2>1, <3>1, ToMoves
    <3>. QED
      BY <3>1, <3>2 DEF EntryOK, Recovers
  <2>2. CASE Resume(m, "idle")
    <3>1. MonMoved(m) /\ mon'[m].at = "idle"
      BY <1>2, <2>2, ResumeMoves
    <3>. QED
      BY <3>1 DEF EntryOK, Recovers
  <2>. QED
    BY <1>1, <2>1, <2>2
<1>. QED
  BY <1>1, <1>3, MonKept, ScanStays

LEMMA ScanCheckMount ==
  ASSUME BaseInv, MonInv, NEW m \in Scans, CheckMount(m)
  PROVE  MonInv' /\ \E w : ScanMove(w)
<1>1. /\ mon[m].at = "mounts" /\ UNCHANGED <<profile, rpc, Kubelet>> /\ UNCHANGED Node
      /\ mon[m].todo \subseteq Devices \X Volumes
  BY DEF CheckMount, Scanning, NodeStays, MonInv, EntryOK
<1>2. Fault \/ Works
  BY DEF CheckMount, isDeviceAccessible
<1>3. \/ \E x : Visited(m, x)
      \/ Resume(m, "idle")
      \/ \E x \in mon[m].todo :
            mon' = [mon EXCEPT ![m] = [at |-> "umount", todo |-> mon[m].todo \ {x}, vol |-> x[2]]]
  BY Zenon DEF CheckMount
<1>4. MonMoved(m) /\ EntryOK(mon'[m])
  <2>1. CASE \E x : Visited(m, x)
    BY <1>1, <2>1, VisitedMoves DEF EntryOK, Recovers
  <2>2. CASE Resume(m, "idle")
    <3>1. MonMoved(m) /\ mon'[m].at = "idle"
      BY <2>2, ResumeMoves DEF MonPCs
    <3>. QED
      BY <3>1 DEF EntryOK, Recovers
  <2>3. ASSUME NEW x \in mon[m].todo,
               mon' = [mon EXCEPT ![m] = [at |-> "umount", todo |-> mon[m].todo \ {x}, vol |-> x[2]]]
        PROVE  MonMoved(m) /\ EntryOK(mon'[m])
    <3>1. PICK v \in Volumes : v = x[2]
      BY <1>1
    <3>2. PICK S \in SUBSET Visits : S = mon[m].todo \ {x}
      BY EntryTyped
    <3>3. PICK e \in MonType : e = [at |-> "umount", todo |-> S, vol |-> v]
      BY RecordTyped DEF MonPCs
    <3>4. MonMoved(m) /\ mon'[m] = e
      BY <2>3, <3>1, <3>2, <3>3, EntryMoves
    <3>5. S \subseteq Devices \X Volumes
      BY <1>1, <3>2
    <3>6. EntryOK(e)
      BY <3>3, <3>5 DEF EntryOK, Recovers
    <3>. QED
      BY <3>4, <3>6
  <2>. QED
    BY <1>3, <2>1, <2>2, <2>3
<1>. QED
  BY <1>1, <1>2, <1>4, MonKept, ScanStays

LEMMA ScanLazyUnmount ==
  ASSUME BaseInv, MonInv, NEW m \in Scans, LazyUnmount(m)
  PROVE  MonInv' /\ \E w : ScanMove(w)
<1>1. /\ mon[m].at = "umount" /\ UNCHANGED <<profile, rpc, Kubelet>> /\ (Fault \/ Works)
      /\ UNCHANGED <<session, pub>> /\ Resume(m, "mounts")
      /\ mon[m].todo \subseteq Devices \X Volumes
  BY DEF LazyUnmount, Scanning, MonInv, EntryOK
<1>2. MonMoved(m) /\ mon'[m].at = "mounts" /\ mon'[m].todo = mon[m].todo
  BY <1>1, ResumeMoves DEF MonPCs
<1>3. MonInv'
  BY <1>1, <1>2, MonKept DEF EntryOK, Recovers
<1>4. PICK v : v = mon[m].vol
  OBVIOUS
<1>5. path' = path \/ path' = [path EXCEPT ![v] = IF path[v].kind = "mount" THEN Path("dir", None) ELSE path[v]]
  BY <1>4 DEF LazyUnmount
<1>6. TypeOK /\ UNCHANGED <<profile, rpc, staged, published>> /\ faults' \in 0..MaxFaults
  BY <1>1, FaultOrWorks DEF BaseInv
<1>7. Path("dir", None) \in PathType
  BY DEF Path, PathType
<1>8. /\ path' \in [Volumes -> PathType]
      /\ \A u \in Volumes : path'[u] = path[u] \/ path'[u] = Path("dir", None)
  BY <1>5, <1>6, <1>7 DEF TypeOK
<1>9. ScanMove(None)
  BY <1>1, <1>6, <1>8 DEF ScanMove, SessionStep, TypeOK, SessionsType, PubType, PubKept
<1>. QED
  BY <1>3, <1>9

LEMMA ScanSteps ==
  ASSUME BaseInv, MonInv, NEW m \in Scans, Start(m) \/ ScanStep(m)
  PROVE  MonInv' /\ \E w : ScanMove(w)
  BY ScanStart, ScanSessions, ScanSessionRecovery, ScanControllers, ScanRemount,
     ScanFindMounts, ScanCheckMount, ScanLazyUnmount DEF ScanStep, unmountBrokenStagingPaths

-----------------------------------------------------------------------------
(* The other steps, and the theorem.                                       *)

RecoveryInv == BaseInv /\ ApartInv /\ WriterInv /\ MonInv

LEMMA RecoveryInit == RInit => RecoveryInv
<1> SUFFICES ASSUME RInit PROVE RecoveryInv
  OBVIOUS
<1>1. BaseInv /\ ApartInv
  BY InitInv DEF RInit, OwnInv
<1>2. NotScanning \in MonType /\ NotScanning.at = "idle"
  BY DEF NotScanning, MonType, MonPCs
<1>3. MonInv
  BY <1>2 DEF RInit, MonInv, EntryOK, Recovers
<1>4. Idle.at = "start"
  BY DEF Idle
<1>5. WriterInv
  BY <1>4, NamesAssumption DEF RInit, Init, WriterInv, WriterOK, ShownApart, ShownOnce, Devices
<1>. QED
  BY <1>1, <1>3, <1>5 DEF RecoveryInv

(* An RPC may take the node record from under a scan.                      *)
LEMMA RecordGone ==
  ASSUME MonInv, UNCHANGED profile, NEW gone \in [Scans -> BOOLEAN],
         mon' = [m \in Scans |-> IF gone[m] THEN [mon[m] EXCEPT !.vol = None] ELSE mon[m]]
  PROVE  MonInv'
<1>1. ASSUME NEW m \in Scans PROVE mon'[m] \in MonType /\ EntryOK(mon'[m])
  <2>1. mon[m] \in MonType /\ EntryOK(mon[m]) /\ (mon'[m] = mon[m] \/ mon'[m] = [mon[m] EXCEPT !.vol = None])
    BY DEF MonInv
  <2>2. CASE mon'[m] = [mon[m] EXCEPT !.vol = None]
    <3>1. /\ mon'[m] \in MonType /\ mon'[m].at = mon[m].at
          /\ mon'[m].todo = mon[m].todo /\ mon'[m].vol = None
      BY <2>1, <2>2 DEF MonType
    <3>. QED
      BY <2>1, <3>1 DEF EntryOK, Recovers
  <2>. QED
    BY <2>1, <2>2
<1>2. \A m \in Scans : EntryOK(mon[m])'
  BY <1>1 DEF EntryOK, Recovers, P
<1>3. mon' \in [Scans -> MonType]
  BY <1>1
<1>. QED
  BY <1>2, <1>3 DEF MonInv

LEMMA RecoverySame ==
  ASSUME RecoveryInv, UNCHANGED <<vars, mon>>
  PROVE  RecoveryInv'
<1>1. BaseInv'
  BY DEF RecoveryInv, vars, BaseInv, TypeOK, VolumeOK, KindsOK, StageOK, KubeletOK, KnownStaged, AtStage,
         Unstaged, StagedKind, DevicesOf, Block, P, MaxTries
<1>2. ApartInv' /\ WriterInv'
  BY DEF RecoveryInv, vars, ApartInv, Apart, WriterInv, WriterOK, Filesystem, Block, P, ShownApart, ShownOnce
<1>3. MonInv'
  BY DEF RecoveryInv, vars, MonInv, EntryOK, Recovers, P
<1>. QED
  BY <1>1, <1>2, <1>3 DEF RecoveryInv

LEMMA RecoveryStep ==
  ASSUME NoPrefixes
  PROVE  RecoveryInv /\ [RNext]_rvars => RecoveryInv'
<1> SUFFICES ASSUME RecoveryInv, [RNext]_rvars PROVE RecoveryInv'
  OBVIOUS
<1>1. BaseInv /\ ApartInv /\ WriterInv /\ MonInv
  BY DEF RecoveryInv
<1>2. ASSUME NEW v \in Volumes, Rpc(v) \/ Kernel(v) PROVE BaseInv' /\ ApartInv' /\ WriterInv' /\ UNCHANGED profile
  <2>1. Effects(v) /\ WriterInv'
    BY <1>1, <1>2, WriterSteps
  <2>. QED
    BY <1>1, <2>1, EffectsBase, EffectsApart DEF Effects, Frame
<1>3. ASSUME NEW v \in Volumes, RpcStep(v) PROVE RecoveryInv'
  <2>1. BaseInv' /\ ApartInv' /\ WriterInv' /\ UNCHANGED profile
    BY <1>2, <1>3 DEF RpcStep
  <2> DEFINE gone == [m \in Scans |-> mon[m].at = "login" /\ mon[m].vol # None /\ DeletesRecord(v, mon[m].vol)]
  <2>2. /\ gone \in [Scans -> BOOLEAN]
        /\ mon' = [m \in Scans |-> IF gone[m] THEN [mon[m] EXCEPT !.vol = None] ELSE mon[m]]
    BY <1>3 DEF RpcStep, DeletesRecord
  <2> HIDE DEF gone
  <2>3. MonInv'
    BY <1>1, <2>1, <2>2, RecordGone
  <2>. QED
    BY <2>1, <2>3 DEF RecoveryInv
<1>4. ASSUME NEW v \in Volumes, KernelStep(v) PROVE RecoveryInv'
  <2>1. BaseInv' /\ ApartInv' /\ WriterInv' /\ UNCHANGED profile /\ UNCHANGED mon
    BY <1>2, <1>4 DEF KernelStep
  <2>2. MonInv'
    BY <1>1, <2>1 DEF MonInv, EntryOK, Recovers, P
  <2>. QED
    BY <2>1, <2>2 DEF RecoveryInv
<1>5. ASSUME NEW m \in Scans, Start(m) \/ ScanStep(m) PROVE RecoveryInv'
  <2>1. MonInv' /\ \E w : ScanMove(w)
    BY <1>1, <1>5, ScanSteps
  <2>. QED
    BY <1>1, <2>1, ScanBase, ScanApart, ScanWriter DEF RecoveryInv
<1>6. CASE Restart
  <2>1. BaseInv' /\ ApartInv' /\ UNCHANGED profile /\ UNCHANGED Node
    BY <1>1, <1>6, DeathKeeps DEF Restart, Dies
  <2>2. \A v \in Volumes : rpc'[v].at = "start"
    BY <1>6 DEF Restart, Idle
  <2>3. WriterInv'
    BY <1>1, <2>1, <2>2 DEF WriterInv, WriterOK, ShownApart, ShownOnce, Filesystem, Block, P, Node
  <2>4. NotScanning \in MonType /\ NotScanning.at = "idle"
    BY DEF NotScanning, MonType, MonPCs
  <2>5. MonInv'
    BY <1>6, <2>4 DEF Restart, MonInv, EntryOK, Recovers
  <2>. QED
    BY <2>1, <2>3, <2>5 DEF RecoveryInv
<1>7. ASSUME NEW v \in Volumes, KernelReadOnly(v) PROVE RecoveryInv'
  BY <1>7, RecoverySame DEF KernelReadOnly
<1>8. CASE UNCHANGED rvars
  BY <1>8, RecoverySame DEF rvars
<1>. QED
  BY <1>3, <1>4, <1>5, <1>6, <1>7, <1>8 DEF RNext, healthMonitorLoop, recoverVolumes

(* While the health monitor and the reconnect scan log volumes out and in  *)
(* and unmount their staging paths beside the RPCs, under native multipath *)
(* or not, and while the driver restarts: no SINGLE_NODE_SINGLE_WRITER     *)
(* filesystem is writable at two targets, provided that no IQN is the      *)
(* beginning of another's.                                                 *)
THEOREM RecoveryOneLiveWriter == NoPrefixes => (RSpec => []OneLiveWriter)
<1> SUFFICES ASSUME NoPrefixes PROVE RSpec => []OneLiveWriter
  OBVIOUS
<1>1. RecoveryInv => OneLiveWriter
  <2> SUFFICES ASSUME RecoveryInv, NEW v \in Volumes, P(v).single, Block(v), ~P(v).block
               PROVE  Cardinality({t \in Targets : pub[v][t] \in Devices /\ Exists(pub[v][t])}) <= 1
    BY DEF OneLiveWriter
  <2> DEFINE S == {t \in Targets : pub[v][t] \in Devices /\ Exists(pub[v][t])}
  <2>1. ShownOnce(v) /\ \A u \in Volumes \ {v} : ShownApart(u, v)
    BY DEF RecoveryInv, WriterInv, WriterOK, Filesystem
  <2>2. ASSUME NEW t \in S PROVE session[v] # None /\ pub[v][t] = session[v].dev
    <3>1. PICK u \in Volumes : session[u] # None /\ session[u].dev = pub[v][t] /\ pub[v][t] \in Devices
      BY <2>2 DEF Exists, Owners
    <3>2. pub[v][t] # None
      BY <3>1, NamesAssumption DEF Devices
    <3>. QED
      BY <2>1, <3>1, <3>2 DEF ShownApart
  <2>3. \A s, t \in S : s = t
    BY <2>1, <2>2 DEF ShownOnce
  <2>4. CASE S = {}
    BY <2>4, FS_EmptySet
  <2>5. CASE S # {}
    <3>1. PICK t \in S : S = {t}
      BY <2>3, <2>5
    <3>2. Cardinality(S) = 1
      BY <3>1, FS_Singleton
    <3>. QED
      BY <3>2
  <2>. QED
    BY <2>4, <2>5
<1>. QED
  BY <1>1, RecoveryInit, RecoveryStep, PTL DEF RSpec

=============================================================================
