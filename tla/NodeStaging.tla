----------------------------- MODULE NodeStaging -----------------------------
(***************************************************************************)
(* NodeStageVolume, NodePublishVolume, NodeUnpublishVolume and             *)
(* NodeUnstageVolume of the node service (pkg/driver/node.go and           *)
(* node_nfs, node_smb, node_iscsi, node_nvmeof, node_device and            *)
(* node_publish.go) over the state that survives the driver: the node's    *)
(* iSCSI and NVMe-oF sessions, its block devices and its mounts.           *)
(*                                                                         *)
(* A step is one external command (login, logout, connect, disconnect,     *)
(* mount, umount) with the checks that precede it.  The RPC bodies of one  *)
(* volume exclude each other, which is what LifecycleLocks implements;     *)
(* those of different volumes interleave.  The driver may die between any  *)
(* two steps, a command may fail, a session may go down or be lost, and    *)
(* the kubelet may miss an answer and repeat the RPC.                      *)
(***************************************************************************)
EXTENDS Naturals, FiniteSets

CONSTANTS Volumes, Targets,
          SCSIDevices, NVMeDevices,   \* names the kernel gives to devices
          None,
          Worlds,             \* set of functions from Volumes to requests
          IQNPrefixes,        \* pairs <<v, w>>: v's IQN is the beginning of w's
          NVMeConcurrency,    \* capacity of nvmeConnectSem
          MaxFaults           \* bound on failures, losses and crashes

(* A volume's requests: [proto, block, single].  block: raw block mode,    *)
(* which the share protocols do not know; single: access mode              *)
(* SINGLE_NODE_SINGLE_WRITER.                                              *)
Protocols == {"nfs", "smb", "iscsi", "nvmeof"}
Requests ==
    {r \in [proto : Protocols, block : BOOLEAN, single : BOOLEAN] :
        r.block => r.proto \in {"iscsi", "nvmeof"}}

(* recovering: the kernel is reconnecting (SCSI blocked, transport-offline, *)
(* quiesce; NVMe connecting, resetting).                                   *)
LinkStates == {"live", "recovering", "failed"}

Devices == SCSIDevices \union NVMeDevices
SessionType == [dev : Devices \union {None}, state : LinkStates]

ASSUME WorldsAssumption == \A w \in Worlds : w \in [Volumes -> Requests]
ASSUME NamesAssumption ==
    /\ None \notin Volumes \union Targets \union Devices \union {"share", "bare", "dead"}
    /\ Devices \intersect {"share", "bare", "dead"} = {}
    /\ SCSIDevices \intersect NVMeDevices = {}
    /\ None \notin SessionType
ASSUME PrefixesAssumption == IQNPrefixes \subseteq Volumes \X Volumes
ASSUME BoundsAssumption == NVMeConcurrency \in Nat \ {0} /\ MaxFaults \in Nat

VARIABLES
    profile,   \* profile[v]: protocol and access mode of v
    session,   \* session[v]: None, or the session to v's target, its device
               \* (None while there is none) and the state of its transport
    path,      \* path[v]: v's staging path
    pub,       \* pub[v][t]: what is bind-mounted at target t for v, or None
    rpc,       \* rpc[v]: the RPC body that holds v's lifecycle lock
    staged,    \* staged[v]: what the kubelet knows: "no", "yes" or "maybe"
    published, \* published[v]: targets the kubelet has to unpublish
    faults

vars == <<profile, session, path, pub, rpc, staged, published, faults>>
Node == <<session, path, pub>>
Kubelet == <<staged, published>>

(* A staging path: kind "absent", "dir", "link" (to dev) or "mount" (of    *)
(* dev, or of a share).                                                    *)
Path(k, d) == [kind |-> k, dev |-> d]
Absent == Path("absent", None)
PathType ==
    {p \in [kind : {"absent", "dir", "link", "mount"}, dev : Devices \union {None, "share"}] :
        p.kind \in {"link", "mount"} <=> p.dev # None}

(* tries: the attempt of the retry loop, 0 outside it.  dev: devicePath.   *)
(* owner: the volume whose IQN or NQN an unstage has read.                 *)
Idle == [op |-> "none", at |-> "start", target |-> None, dev |-> None, owner |-> None, tries |-> 0]

RpcType ==
    [op : {"none", "stage", "unstage", "publish", "unpublish"},
     at : {"start", "kill", "acquire", "connect", "wait", "logout", "device", "nfs", "smb",
           "iscsi", "nvmeof", "disconnect", "bind", "reply"},
     target : Targets \union {None}, dev : Devices \union {None},
     owner : Volumes \union {None}, tries : Nat]

P(v) == profile[v]
Block(v) == P(v).proto \in {"iscsi", "nvmeof"}

Init ==
    /\ profile \in Worlds
    /\ session = [v \in Volumes |-> None]
    /\ path = [v \in Volumes |-> Absent]
    /\ pub = [v \in Volumes |-> [t \in Targets |-> None]]
    /\ rpc = [v \in Volumes |-> Idle]
    /\ staged = [v \in Volumes |-> "no"]
    /\ published = [v \in Volumes |-> {}]
    /\ faults = 0

-----------------------------------------------------------------------------
(* The node's kernel (external).                                           *)

(* The volume whose session has device d.                                  *)
Owners(d) == {v \in Volumes : session[v] # None /\ session[v].dev = d /\ d # None}
Exists(d) == Owners(d) # {}

(* A filesystem on d is mounted somewhere, on a staging path or bound to a *)
(* target: the kernel does not give the name d to another device.          *)
IsSourceMounted(d) ==
    \/ \E v \in Volumes : path[v] = Path("mount", d)
    \/ \E v \in Volumes, t \in Targets : ~P(v).block /\ pub[v][t] = d

(* A name is not given away in the seconds between finding a device and    *)
(* mounting it.                                                            *)
FreeDevices(v) ==
    {d \in (IF P(v).proto = "iscsi" THEN SCSIDevices ELSE NVMeDevices) :
        /\ ~Exists(d) /\ ~IsSourceMounted(d)
        /\ \A w \in Volumes : rpc[w].at = "device" => rpc[w].dev # d}

(* A device goes away.  A raw device that is bound to a target stays there *)
(* as a deleted file; a mounted filesystem stays mounted.                  *)
Gone(d) == [v \in Volumes |-> [t \in Targets |->
                IF P(v).block /\ d # None /\ pub[v][t] = d THEN "dead" ELSE pub[v][t]]]

Disconnect(v) ==
    /\ session' = [session EXCEPT ![v] = None]
    /\ pub' = IF session[v] = None THEN pub ELSE Gone(session[v].dev)

Fault == faults < MaxFaults /\ faults' = faults + 1
Works == UNCHANGED faults

-----------------------------------------------------------------------------
(* Flow of an RPC body.                                                    *)

Goto(v, pc) == rpc' = [rpc EXCEPT ![v].at = pc]

(* The body ends with an error, and the kubelet cannot rely on anything.   *)
Fails(v) == rpc' = [rpc EXCEPT ![v] = Idle] /\ UNCHANGED Kubelet

(* The body ends without an error.  The kubelet notes it, unless the       *)
(* answer is lost; after an unstage it removes the staging path, if that   *)
(* is no longer a mount point.                                             *)
Succeeds(v) == Goto(v, "reply") /\ UNCHANGED Kubelet

Reply(v) ==
    LET r == rpc[v] IN
    /\ r.op # "none" /\ r.at = "reply"
    /\ rpc' = [rpc EXCEPT ![v] = Idle]
    /\ \/ /\ Works
          /\ CASE r.op = "stage" ->
                    staged' = [staged EXCEPT ![v] = "yes"] /\ UNCHANGED <<published, path>>
               [] r.op = "unpublish" ->
                    published' = [published EXCEPT ![v] = @ \ {r.target}] /\ UNCHANGED <<staged, path>>
               [] r.op = "unstage" /\ path[v].kind # "mount" ->
                    /\ staged' = [staged EXCEPT ![v] = "no"]
                    /\ path' = [path EXCEPT ![v] = Absent]
                    /\ UNCHANGED published
               [] OTHER -> UNCHANGED <<Kubelet, path>>
       \/ Fault /\ UNCHANGED <<Kubelet, path>>
    /\ UNCHANGED <<profile, session, pub>>

(* The kubelet's side of the four RPCs (external): what it asks for, and   *)
(* when.  It may stage again what is staged, as it does after a restart.   *)
Call(v, op, t) ==
    /\ rpc[v].op = "none"
    /\ rpc' = [rpc EXCEPT ![v] = [Idle EXCEPT !.op = op, !.target = t]]
    /\ UNCHANGED <<profile, Node, faults>>

NodeStageVolume(v) ==
    /\ Call(v, "stage", None)
    /\ staged' = [staged EXCEPT ![v] = "maybe"] /\ UNCHANGED published

NodePublishVolume(v, t) ==
    /\ staged[v] = "yes" /\ Call(v, "publish", t)
    /\ published' = [published EXCEPT ![v] = @ \union {t}] /\ UNCHANGED staged

NodeUnpublishVolume(v, t) ==
    /\ t \in published[v] /\ Call(v, "unpublish", t) /\ UNCHANGED Kubelet

NodeUnstageVolume(v) ==
    /\ staged[v] # "no" /\ published[v] = {} /\ Call(v, "unstage", None)
    /\ staged' = [staged EXCEPT ![v] = "maybe"] /\ UNCHANGED published

At(v, op, pc) == rpc[v].op = op /\ rpc[v].at = pc /\ UNCHANGED profile

-----------------------------------------------------------------------------
(* Staging a share: a mount, unless there is one.                          *)
MountShare(v, proto) ==
    /\ At(v, "stage", "start") /\ P(v).proto = proto
    /\ \/ /\ Works /\ Succeeds(v)
          /\ path' = [path EXCEPT ![v] = Path("mount", "share")]
       \/ /\ Fault /\ Fails(v)
          /\ path' = [path EXCEPT ![v] = IF @.kind = "absent" THEN Path("dir", None) ELSE @]
    /\ UNCHANGED <<session, pub>>

stageNFSVolume(v) == MountShare(v, "nfs")
stageSMBVolume(v) == MountShare(v, "smb")

-----------------------------------------------------------------------------
(* Staging a block protocol: reuse the session or make a new one, then put *)
(* the device on the staging path.                                         *)

Healthy(v) == session[v] # None /\ session[v].dev # None /\ session[v].state = "live"

(* Mutant: the symlink of a raw volume does not count.                     *)
RefuseOnlyMounts(v) == path[v].kind = "mount"

(* refuseTeardownWhileStaged returns an error.                             *)
refuseTeardownWhileStaged(v) == path[v].kind \in {"link", "mount"}

UseDevice(v, d, tries) ==
    rpc' = [rpc EXCEPT ![v].at = "device", ![v].dev = d, ![v].tries = tries]

TearDown(v) ==
    IF refuseTeardownWhileStaged(v) THEN Fails(v) ELSE Goto(v, "kill") /\ UNCHANGED Kubelet

(* Mutant: the first disk of the list will do.                             *)
AnyDisk(v) == {session[w].dev : w \in {u \in Volumes : session[u] # None /\ P(u).proto = "iscsi"}} \ {None}

(* A session whose target name begins with v's IQN; the order of the list  *)
(* decides which disk is found.                                            *)
SameIQN(v, w) == w = v \/ (<<v, w>> \in IQNPrefixes /\ P(w).proto = "iscsi")
findISCSIDevice(v) ==
    {session[w].dev : w \in {u \in Volumes : SameIQN(v, u) /\ session[u] # None}} \ {None}

Live(d) == \E w \in Owners(d) : session[w].state = "live"
LoggedIn == \E w \in Volumes : P(w).proto = "iscsi" /\ session[w] # None /\ session[w].state = "live"
AnyDown == \E w \in Volumes : P(w).proto = "iscsi" /\ session[w] # None /\ session[w].state # "live"

(* The list of sessions or the state of the disk may be unreadable         *)
(* (Fault); for that state getISCSISessionState takes the first session's. *)
stageISCSIVolume(v) ==
    /\ At(v, "stage", "start") /\ P(v).proto = "iscsi"
    /\ \/ \E d \in findISCSIDevice(v) :
            \/ Live(d) /\ Works /\ UseDevice(v, d, 0) /\ UNCHANGED Kubelet
            \/ ~Live(d) /\ LoggedIn /\ Fault /\ UseDevice(v, d, 0) /\ UNCHANGED Kubelet
            \/ (IF Live(d) THEN Fault ELSE Works) /\ TearDown(v)
       \/ findISCSIDevice(v) = {} /\ Works /\ TearDown(v)
    /\ UNCHANGED Node

(* Without any controller for the NQN the guard is not asked.              *)
tryReuseExistingConnection(v) ==
    /\ At(v, "stage", "start") /\ P(v).proto = "nvmeof"
    /\ \/ Healthy(v) /\ Works /\ UseDevice(v, session[v].dev, 0) /\ UNCHANGED Kubelet
       \/ session[v] = None /\ Works /\ Goto(v, "acquire") /\ UNCHANGED Kubelet
       \/ session[v] # None /\ ~Healthy(v) /\ Works /\ TearDown(v)
       \/ Healthy(v) /\ Fault /\ TearDown(v)
    /\ UNCHANGED Node

(* forceKillISCSISession, disconnectNVMeOF: a failure is logged.           *)
Connect(v) == rpc' = [rpc EXCEPT ![v].at = "connect", ![v].tries = 1]

forceKillISCSISession(v) ==
    /\ At(v, "stage", "kill") /\ P(v).proto = "iscsi"
    /\ \/ Works /\ Disconnect(v)
       \/ Fault /\ UNCHANGED <<session, pub>>
    /\ Connect(v) /\ UNCHANGED <<path, Kubelet>>

DisconnectStale(v) ==
    /\ At(v, "stage", "kill") /\ P(v).proto = "nvmeof"
    /\ \/ Works /\ Disconnect(v)
       \/ Fault /\ UNCHANGED <<session, pub>>
    /\ Goto(v, "acquire") /\ UNCHANGED <<path, Kubelet>>

(* The semaphore is held from here to the end of the RPC.                  *)
Connecting == {v \in Volumes : P(v).proto = "nvmeof" /\ rpc[v].tries > 0}

stageNVMeOFVolume(v) ==
    /\ At(v, "stage", "acquire")
    /\ \/ Works /\ Cardinality(Connecting) < NVMeConcurrency /\ Connect(v) /\ UNCHANGED Kubelet
       \/ Fault /\ Fails(v)
    /\ UNCHANGED Node

(* maxRetries, maxConnectRetries.                                          *)
MaxTries(v) == IF P(v).proto = "iscsi" THEN 2 ELSE 3

Again(v) ==
    IF rpc[v].tries < MaxTries(v)
    THEN rpc' = [rpc EXCEPT ![v].at = "connect", ![v].tries = @ + 1] /\ UNCHANGED Kubelet
    ELSE Fails(v)

(* A session that is there already is success.  A new one may have no      *)
(* device yet (Fault).  The RPC ends without another attempt when iscsiadm *)
(* is missing, and when the context is found to be done before an NVMe-oF  *)
(* attempt.                                                                *)
Login(v, proto) ==
    /\ At(v, "stage", "connect") /\ P(v).proto = proto
    /\ \/ /\ Works /\ session[v] # None
          /\ Goto(v, "wait") /\ UNCHANGED <<session, Kubelet>>
       \/ /\ session[v] = None
          /\ \/ Works /\ \E d \in FreeDevices(v) :
                    session' = [session EXCEPT ![v] = [dev |-> d, state |-> "live"]]
             \/ Fault /\ session' = [session EXCEPT ![v] = [dev |-> None, state |-> "live"]]
          /\ Goto(v, "wait") /\ UNCHANGED Kubelet
       \/ Fault /\ Again(v) /\ UNCHANGED session
       \/ Fault /\ (proto = "iscsi" => rpc[v].tries = 1) /\ Fails(v) /\ UNCHANGED session
    /\ UNCHANGED <<path, pub>>

loginISCSITarget(v) == Login(v, "iscsi")

connectNVMeOFTarget(v) == Login(v, "nvmeof")

waitForISCSIDevice(v) ==
    /\ At(v, "stage", "wait") /\ P(v).proto = "iscsi"
    /\ \/ Works /\ \E d \in findISCSIDevice(v) : UseDevice(v, d, rpc[v].tries)
       \/ (IF findISCSIDevice(v) = {} THEN Works ELSE Fault) /\ Goto(v, "logout")
    /\ UNCHANGED <<Node, Kubelet>>

(* waitForSubsystemLive and waitForNVMeDevice.                             *)
waitForNVMeDevice(v) ==
    /\ At(v, "stage", "wait") /\ P(v).proto = "nvmeof"
    /\ \/ Works /\ Healthy(v) /\ UseDevice(v, session[v].dev, rpc[v].tries)
       \/ (IF Healthy(v) THEN Fault ELSE Works) /\ Goto(v, "logout")
    /\ UNCHANGED <<Node, Kubelet>>

(* Clean-up before the next attempt.                                       *)
LogoutAndRetry(v) ==
    /\ At(v, "stage", "logout")
    /\ \/ Works /\ Disconnect(v)
       \/ Fault /\ UNCHANGED <<session, pub>>
    /\ Again(v) /\ UNCHANGED path

(* An Unavailable error is retried inside the loop and final outside it.   *)
Unavailable(v) ==
    IF rpc[v].tries > 0 THEN Goto(v, "logout") /\ UNCHANGED Kubelet ELSE Fails(v)

(* What is at the staging path makes way, but a dangling link is in the    *)
(* way of the new one.                                                     *)
stageBlockDevice(v) ==
    LET dangling == path[v].kind = "link" /\ ~Exists(path[v].dev)
    IN  \/ ~dangling /\ Works /\ Succeeds(v) /\ path' = [path EXCEPT ![v] = Path("link", rpc[v].dev)]
        \/ (IF dangling THEN Works ELSE Fault) /\ Fails(v) /\ UNCHANGED path

(* formatAndMountISCSIDevice and formatAndMountNVMeDevice: what is mounted *)
(* stays; a device that is mounted elsewhere is refused.                   *)
FormatAndMount(v) ==
    LET d == rpc[v].dev
        mounted == path[v].kind = "mount"
    IN  \/ mounted /\ Works /\ Succeeds(v) /\ UNCHANGED path
        \/ ~mounted /\ ~IsSourceMounted(d) /\ Works /\ Succeeds(v)
           /\ path' = [path EXCEPT ![v] = Path("mount", d)]
        \/ /\ IF ~mounted /\ IsSourceMounted(d) THEN Works /\ Fails(v)
              ELSE Fault /\ (Fails(v) \/ Unavailable(v))
           /\ path' = [path EXCEPT ![v] = IF @.kind = "absent" THEN Path("dir", None) ELSE @]

(* The device may be gone by now.                                          *)
StageDevice(v, proto) ==
    LET exists == Exists(rpc[v].dev) IN
    /\ At(v, "stage", "device") /\ P(v).proto = proto
    /\ \/ exists /\ P(v).block /\ stageBlockDevice(v)
       \/ exists /\ ~P(v).block /\ FormatAndMount(v)
       \/ ~exists /\ (proto = "nvmeof" => ~P(v).block) /\ Works /\ Unavailable(v) /\ UNCHANGED path
       \/ ~exists /\ proto = "nvmeof" /\ Works /\ Fails(v) /\ UNCHANGED path
    /\ UNCHANGED <<session, pub>>

stageISCSIDevice(v) == StageDevice(v, "iscsi")
stageNVMeDevice(v) == StageDevice(v, "nvmeof")

-----------------------------------------------------------------------------
(* Unstaging.  The protocol is guessed from the staging path, because the  *)
(* request does not name it.                                               *)

detectProtocolFromStagingPath(v) ==
    LET p == path[v] IN
    CASE p.kind = "mount" /\ p.dev = "share" -> P(v).proto
      [] p.kind \in {"mount", "link"} /\ p.dev \in SCSIDevices /\ Exists(p.dev) -> "iscsi"
      [] p.kind \in {"mount", "link"} -> "nvmeof"
      [] OTHER -> "nfs"

(* findmnt may fail (Fault): then the path is taken for an NFS mount.      *)
Dispatch(v) ==
    /\ At(v, "unstage", "start")
    /\ \/ Works /\ Goto(v, detectProtocolFromStagingPath(v))
       \/ path[v].kind = "mount" /\ Fault /\ Goto(v, "nfs")
    /\ UNCHANGED <<Node, Kubelet>>

(* The unmount or the removal of the directory may fail.                   *)
UnmountAndRemove(v) ==
    /\ \/ Works /\ path' = [path EXCEPT ![v] = Absent] /\ Succeeds(v)
       \/ Fault /\ Fails(v) /\ UNCHANGED path
       \/ Fault /\ path' = [path EXCEPT ![v] = Path("dir", None)] /\ path[v].kind = "mount" /\ Fails(v)
    /\ UNCHANGED <<session, pub>>

unstageNFSVolume(v) == At(v, "unstage", "nfs") /\ UnmountAndRemove(v)
unstageSMBVolume(v) == At(v, "unstage", "smb") /\ UnmountAndRemove(v)

(* Mutant: the IQN of any session will do.                                 *)
AnySession(v) == {w \in Volumes : session[w] # None}

(* The volume whose IQN or NQN the staged device leads to.  The NVMe-oF    *)
(* code does not look at a device of another kind.                         *)
StagedSession(v) ==
    {w \in Owners(path[v].dev) : rpc[v].at = "nvmeof" => path[v].dev \in NVMeDevices}

(* The session is identified before the unmount, which may fail without    *)
(* stopping the RPC.                                                       *)
UnmountDevice(v) ==
    LET unmounted == IF path[v].kind = "mount" THEN [path EXCEPT ![v] = Path("dir", None)] ELSE path
        known(w) == rpc' = [rpc EXCEPT ![v].at = "disconnect", ![v].owner = w]
        owner == IF StagedSession(v) = {} THEN known(None) ELSE \E w \in StagedSession(v) : known(w)
    IN  /\ \/ Works /\ owner /\ path' = unmounted
           \/ Fault /\ owner /\ UNCHANGED path
           \/ Fault /\ known(None) /\ path' = unmounted
           \/ Fault /\ Fails(v) /\ UNCHANGED path
        /\ UNCHANGED <<session, pub, Kubelet>>

(* Without an identity there is nothing to disconnect; a failure is logged. *)
DisconnectOwner(v) ==
    LET w == rpc[v].owner IN
    /\ At(v, "unstage", "disconnect")
    /\ \/ w # None /\ Works /\ Disconnect(w)
       \/ w = None /\ Works /\ UNCHANGED <<session, pub>>
       \/ w # None /\ Fault /\ UNCHANGED <<session, pub>>
    /\ Succeeds(v) /\ UNCHANGED path

unstageISCSIVolume(v) == At(v, "unstage", "iscsi") /\ UnmountDevice(v)
unstageNVMeOFVolume(v) == At(v, "unstage", "nvmeof") /\ UnmountDevice(v)

-----------------------------------------------------------------------------
(* Publishing: a bind mount of the staged directory or device.             *)

(* What a bind mount of the staging path shows: the device or share, or a  *)
(* directory of the node.                                                  *)
Source(v) == IF path[v].kind = "dir" THEN "bare" ELSE path[v].dev

(* The targets, of whatever volume, that show the same source.             *)
GetBindMountRefs(v) ==
    {r \in Volumes \X Targets :
        pub[r[1]][r[2]] = Source(v) /\ (Source(v) \in Devices \/ r[1] = v)}

(* Mutant: only a repeated publication is looked for.                      *)
NoSingleWriterCheck(v) ==
    /\ At(v, "publish", "start")
    /\ \/ Works /\ Goto(v, "bind") /\ UNCHANGED Kubelet
       \/ P(v).single /\ Fault /\ Fails(v)
    /\ UNCHANGED Node

(* A staging path that cannot be resolved is an error.                     *)
checkSingleWriterPublication(v) ==
    LET resolved == path[v].kind # "absent" /\ (path[v].kind = "link" => Exists(path[v].dev))
        free == ~P(v).single \/ (resolved /\ GetBindMountRefs(v) \subseteq {<<v, rpc[v].target>>})
    IN  /\ At(v, "publish", "start")
        /\ \/ free /\ Works /\ Goto(v, "bind") /\ UNCHANGED Kubelet
           \/ ~free /\ Works /\ Fails(v)
           \/ P(v).single /\ Fault /\ Fails(v)
        /\ UNCHANGED Node

(* A target that is mounted is left as it is.                              *)
BindMount(v, usable) ==
    LET t == rpc[v].target
        mounted == pub[v][t] # None
    IN  /\ At(v, "publish", "bind")
        /\ \/ usable /\ Works /\ Succeeds(v)
              /\ pub' = IF mounted THEN pub ELSE [pub EXCEPT ![v][t] = Source(v)]
           \/ (IF usable THEN Fault ELSE Works) /\ Fails(v) /\ UNCHANGED pub
        /\ UNCHANGED <<session, path>>

(* The share protocols look at the target before the staging path.         *)
PublishShare(v, proto) ==
    P(v).proto = proto /\ BindMount(v, path[v].kind \in {"dir", "mount"} \/ pub[v][rpc[v].target] # None)

publishNFSVolume(v) == PublishShare(v, "nfs")
publishSMBVolume(v) == PublishShare(v, "smb")
publishFilesystemVolume(v) ==
    Block(v) /\ ~P(v).block /\ BindMount(v, path[v].kind \in {"dir", "mount"})
publishBlockVolume(v) ==
    Block(v) /\ P(v).block /\ BindMount(v, path[v].kind = "link" /\ Exists(path[v].dev))

UnmountTarget(v) ==
    LET t == rpc[v].target IN
    /\ At(v, "unpublish", "start")
    /\ \/ Works /\ pub' = [pub EXCEPT ![v][t] = None] /\ Succeeds(v)
       \/ Fault /\ Fails(v) /\ UNCHANGED pub
    /\ UNCHANGED <<session, path>>

-----------------------------------------------------------------------------
(* The environment.                                                        *)

(* The transport of a session goes down and comes back.                    *)
TransportDown(v) ==
    /\ session[v] # None /\ session[v].state = "live" /\ Fault
    /\ session' = [session EXCEPT ![v].state = "recovering"]
    /\ UNCHANGED <<profile, path, pub, rpc, Kubelet>>

TransportUp(v) ==
    /\ session[v] # None /\ session[v].state = "recovering" /\ Works
    /\ session' = [session EXCEPT ![v].state = "live"]
    /\ UNCHANGED <<profile, path, pub, rpc, Kubelet>>

(* The kernel gives up reconnecting; the device stays, offline.            *)
TransportFailed(v) ==
    /\ session[v] # None /\ session[v].state = "recovering" /\ Works
    /\ session' = [session EXCEPT ![v].state = "failed"]
    /\ UNCHANGED <<profile, path, pub, rpc, Kubelet>>

(* The kernel gives up on an NVMe controller that stays down, and its      *)
(* device goes away (--ctrl-loss-tmo=120; an iSCSI disk stays, offline).   *)
ControllerLost(v) ==
    /\ P(v).proto = "nvmeof" /\ Works
    /\ session[v] # None /\ session[v].state # "live"
    /\ Disconnect(v)
    /\ UNCHANGED <<profile, path, rpc, Kubelet>>

(* The driver dies and is started again.                                   *)
Crash ==
    /\ Fault /\ \E v \in Volumes : rpc[v].op # "none"
    /\ rpc' = [v \in Volumes |-> Idle]
    /\ UNCHANGED <<profile, Node, Kubelet>>

StageStep(v) ==
    \/ stageNFSVolume(v) \/ stageSMBVolume(v)
    \/ stageISCSIVolume(v) \/ forceKillISCSISession(v) \/ loginISCSITarget(v)
    \/ waitForISCSIDevice(v) \/ stageISCSIDevice(v)
    \/ tryReuseExistingConnection(v) \/ DisconnectStale(v) \/ stageNVMeOFVolume(v)
    \/ connectNVMeOFTarget(v) \/ waitForNVMeDevice(v) \/ stageNVMeDevice(v)
    \/ LogoutAndRetry(v)

OtherStep(v) ==
    \/ Dispatch(v) \/ unstageNFSVolume(v) \/ unstageSMBVolume(v)
    \/ unstageISCSIVolume(v) \/ unstageNVMeOFVolume(v) \/ DisconnectOwner(v)
    \/ checkSingleWriterPublication(v)
    \/ publishNFSVolume(v) \/ publishSMBVolume(v)
    \/ publishFilesystemVolume(v) \/ publishBlockVolume(v)
    \/ UnmountTarget(v)
    \/ Reply(v)

Rpc(v) ==
    \/ NodeStageVolume(v) \/ NodeUnstageVolume(v)
    \/ \E t \in Targets : NodePublishVolume(v, t) \/ NodeUnpublishVolume(v, t)
    \/ StageStep(v) \/ OtherStep(v)

Kernel(v) == TransportDown(v) \/ TransportUp(v) \/ TransportFailed(v) \/ ControllerLost(v)

Next == (\E v \in Volumes : Rpc(v) \/ Kernel(v)) \/ Crash

Spec == Init /\ [][Next]_vars

-----------------------------------------------------------------------------
(* Properties.                                                             *)

(* Every variable has the shape its declaration promises; the retry loops  *)
(* stay within maxRetries and maxConnectRetries.                           *)
TypeOK ==
    /\ profile \in [Volumes -> Requests]
    /\ session \in [Volumes -> SessionType \union {None}]
    /\ path \in [Volumes -> PathType]
    /\ pub \in [Volumes -> [Targets -> Devices \union {None, "share", "bare", "dead"}]]
    /\ rpc \in [Volumes -> RpcType]
    /\ \A v \in Volumes : rpc[v].tries <= MaxTries(v)
    /\ staged \in [Volumes -> {"no", "yes", "maybe"}]
    /\ published \in [Volumes -> SUBSET Targets]
    /\ faults \in 0..MaxFaults

(* A SINGLE_NODE_SINGLE_WRITER volume is never usable at two targets: not  *)
(* after a lost answer, an unpublish that failed or a restart of the       *)
(* driver (checkSingleWriterPublication reads the mount table of the       *)
(* node, not memory).                                                      *)
SingleWriterExclusive ==
    \A v \in Volumes : P(v).single =>
        Cardinality({t \in Targets : pub[v][t] \notin {None, "dead"}}) <= 1

(* What the kubelet knows to be staged is on the staging path, and for     *)
(* iSCSI it is the disk of the volume's own session: repeated stages,      *)
(* retried logins and crashes never leave the mount on one device and the  *)
(* session on another, nor on another volume's disk.  It takes IQNs none   *)
(* of which is the beginning of another (IQNPrefixes), because             *)
(* parseISCSISessionDevice compares no more, and raw volumes that share    *)
(* their protocol with no other volume.                                    *)
StagedOnOwnSession ==
    \A v \in Volumes : staged[v] = "yes" =>
        /\ path[v].kind = IF P(v).block THEN "link" ELSE "mount"
        /\ P(v).proto = "iscsi" =>
              session[v] # None /\ session[v].dev = path[v].dev

(* refuseTeardownWhileStaged "stops NodeStageVolume from disconnecting a   *)
(* session that may still back a staged volume": no step of a stage takes  *)
(* the session away from under the device on the volume's staging path.    *)
(* The one exception is a session that connectAndStageDevice has just made *)
(* itself, for a volume whose controller was lost.                         *)
StageKeepsSession ==
    [][\A v \in Volumes :
          /\ rpc[v].op = "stage" /\ rpc'[v] # rpc[v]
          /\ P(v).proto = "iscsi" \/ rpc[v].tries = 0
          /\ session[v] # None /\ session[v].dev # None
          /\ path[v].dev = session[v].dev
          => session'[v] # None]_vars

(* "With independent subsystems, always disconnect (no shared subsystem to *)
(* worry about)": a session is ended by an RPC of its own volume or by the *)
(* kernel, never by the unstage of another volume, under the conditions    *)
(* of StagedOnOwnSession.                                                  *)
OwnSessionOnly ==
    [][\A v, w \in Volumes :
          v # w /\ session[w] # None /\ session'[w] = None => rpc[v].owner # w]_vars

(* "We determine the protocol by checking the staging path": a block       *)
(* volume that still has its session is not unstaged as a share, which     *)
(* would report success and leave the session behind for good.             *)
SessionNotUnstagedAsShare ==
    \A v \in Volumes : rpc[v].op = "unstage" /\ rpc[v].at \in {"nfs", "smb"} => session[v] = None

=============================================================================
